\* redisStore: two calls of one timeout, a poll on the callers' server and one on another.
\* memoryStore: two calls, one with a short timeout, and two polls, twice each.
CONSTANTS
  c1 = c1  c2 = c2  t1 = t1  t2 = t2
  Commands = {c1, c2}
  Takers = {t1, t2}
  Local = {t1}
  Life <- EvenLife
  Pickup <- EvenPickup
  PollWait = 2
  SafetyPoll = 1
  MaxBatch = 2
  MaxPolls = 1
  MidEnqueue = FALSE
  Ttl <- MixedTtl
  Patience <- MixedPatience
  MaxTakes = 2
SPECIFICATION MCSpec
INVARIANTS QueuesInv
PROPERTIES KeepsPromise TakeEnds
CHECK_DEADLOCK FALSE
