\* Three networks; every command line, every kind of json file, a prompt network
\* and one where a datagram may also arrive after its query timed out.
CONSTANTS
  Slots = 3
SPECIFICATION Spec
\* The command ends, and then nothing happens.
CHECK_DEADLOCK FALSE
INVARIANTS
  TypeOK
  CleanOutputMeansDeployed
  CleanOutputMeansUnpaired
  HalfSlotIsReported
  ValidatedFirst
  PairedLeftoversExplained
  AbortCommitsNothing
PROPERTIES
  CommandEnds
  ImplementsPplDeploy
