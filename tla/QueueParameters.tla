--------------------------- MODULE QueueParameters ---------------------------
(* What the models of the two stores' queues are given.                      *)
EXTENDS Filter

CONSTANTS
  Commands,
  Takers,    \* polls, each on some server instance
  PollWait,  \* the waitMs of a take
  MaxBatch   \* MAX_COMMANDS_PER_POLL

ASSUME QueueAssumption == {PollWait, MaxBatch} \subseteq Nat \ {0}

(* How long calls live and wait: withdraw comes before the time is over. *)
Times(lives, waits) ==
  /\ lives \in [Commands -> Nat \ {0}]
  /\ waits \in [Commands -> Nat]
  /\ \A c \in Commands : waits[c] < lives[c]
=============================================================================
