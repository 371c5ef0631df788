\* redisStore: a result retried after a store failure.
CONSTANTS
  c1 = c1  c2 = c2  p1 = p1  p2 = p2  u1 = u1  u2 = u2
  Calls = {c1}
  Pages = {p1}
  Posts = {h1}
  Users = {u1}
  CallUser <- OneUserCalls
  PageUser <- OneUserPages
  Mode <- AllRecommended
  MaxBatch = 1
  SlowClock = {}
  SharedStore = TRUE
SPECIFICATION Spec
PROPERTIES GenuineResultIsAccepted
CHECK_DEADLOCK FALSE
