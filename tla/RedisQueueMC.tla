---------------------------- MODULE RedisQueueMC ----------------------------
(* A small instance of RedisQueue: c2 is a call with a short timeout.        *)
EXTENDS RedisQueue

CONSTANTS c1, c2, t1, t2

MixedLife == [c \in Commands |-> IF c = c2 THEN 2 ELSE 5]
MixedPickup == [c \in Commands |-> IF c = c2 THEN 1 ELSE 3]
=============================================================================
