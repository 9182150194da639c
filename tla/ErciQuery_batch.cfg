\* r3erci-batch: a client and a coroutine per device, in one process, and a second
\* coroutine that collides on the first client's lock.  Two queries per client.
CONSTANTS
  t1 = t1
  t2 = t2
  t3 = t3
  c1 = c1
  c2 = c2
  d1 = d1
  d2 = d2
  Callers = {t1, t2, t3}
  Clients = {c1, c2}
  ClientOf <- CrowdedClientOf
  Targets <- SeparateTargets
  Replies = {"success"}
  MaxSeq = 1
  MaxQueries = 2
  NoQuery = NoQuery
  NoAnswer = NoAnswer
SPECIFICATION Spec
PROPERTIES
  ImplementsErciCall
