\* A call with a short timeout is queued behind one with a long timeout.
CONSTANTS
  c1 = c1  c2 = c2  t1 = t1  t2 = t2
  Commands = {c1, c2}
  Takers = {t1, t2}
  Local = {t1}
  Life <- MixedLife
  Pickup <- MixedPickup
  PollWait = 2
  SafetyPoll = 1
  MaxBatch = 2
  MaxPolls = 1
  MidEnqueue = TRUE
SPECIFICATION Spec
INVARIANT WithdrawTellsTruth
CHECK_DEADLOCK FALSE
