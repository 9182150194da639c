\* One ErciClient used by two coroutines against two devices.  Sequence numbers
\* 0 and 1 and three queries: the number wraps to 0 and then repeats.
CONSTANTS
  t1 = t1
  t2 = t2
  t3 = t3
  c1 = c1
  c2 = c2
  d1 = d1
  d2 = d2
  Callers = {t1, t2}
  Clients = {c1}
  ClientOf <- OneClientOf
  Targets <- OneTargets
  Replies = {"success", "badHeader"}
  MaxSeq = 1
  MaxQueries = 3
  NoQuery = NoQuery
  NoAnswer = NoAnswer
SPECIFICATION Spec
INVARIANTS
  TypeOK
  AnswerIsOwn
  OneCallPerClient
  MismatchOnlyAtZero
PROPERTIES
  SeqnoStableInFlight
  EveryCallEnds
