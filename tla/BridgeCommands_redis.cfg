\* redisStore: operations throw, spending a nonce and resolving are two steps; a recommended call of u1, a tab of u1 and a tab of u2 that names its id.
CONSTANTS
  c1 = c1  c2 = c2  p1 = p1  p2 = p2  u1 = u1  u2 = u2
  Calls = {c1}
  Pages = {p1, p2}
  Posts = {h1, h2}
  Users = {u1, u2}
  CallUser <- OneUserCalls
  PageUser <- OtherUserPages
  Mode <- AllRecommended
  MaxBatch = 1
  SlowClock = {}
  SharedStore = TRUE
SPECIFICATION LiveSpec
INVARIANTS IInv OneVenue AnswerIsGenuine
PROPERTIES FirstOutcomeStands ImplementsCallVenue EveryCallEnds
CHECK_DEADLOCK FALSE
