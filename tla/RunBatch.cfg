\* r3erci-batch with three lines; two of them name the same device if they are
\* addresses.  All kinds of lines.
CONSTANTS
  t1 = t1
  t2 = t2
  t3 = t3
  c1 = c1
  c2 = c2
  c3 = c3
  d1 = d1
  d2 = d2
  Callers = {t1, t2, t3}
  Clients = {c1, c2, c3}
  ClientOf <- LineClientOf
  Targets <- LineTargets
  Replies = {"success", "badBody"}
  MaxSeq = 1
  MaxQueries = 1
  NoQuery = NoQuery
  NoAnswer = NoAnswer
SPECIFICATION BatchSpec
\* The program ends.
CHECK_DEADLOCK FALSE
INVARIANTS
  BatchTypeOK
  AnswerIsOwn
  EveryDeviceCommanded
  DoneMeansAllReported
PROPERTIES
  BatchEnds
