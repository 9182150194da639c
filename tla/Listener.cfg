\* Three messages on either network; the EREB's answers may be refused by the
\* client, and other controllers select, start and stop its ring.
CONSTANTS
  MaxMessages = 3
  Networks = {"prompt", "late"}
  Malformed = TRUE
SPECIFICATION Spec
INVARIANTS
  TypeOK
  ChangedMeansPerformed
  RingFollowsLastAck
PROPERTIES
  StragglersWereGivenUp
  EveryMessageAcked
