----------------------------- MODULE UserQueue -----------------------------
(***************************************************************************)
(* What a bridge store promises about one user's queue of commands         *)
(* (WritBridgeStore in store.ts: enqueue, take, requeue, withdraw).  The   *)
(* memory store and the Redis store each implement it.                     *)
(***************************************************************************)
EXTENDS Filter

CONSTANTS
  Commands,
  Takers     \* polls that wait in take

VARIABLES
  line,   \* the queued commands, oldest first
  hands,  \* hands[t]: the batch taker t took and has not given away
  taken,  \* commands some taker took
  lost,   \* commands a store call that failed left nowhere
  over,   \* commands whose own time to live has passed
  told    \* told[c]: what withdraw answered the caller of c

vars == <<line, hands, taken, lost, over, told>>

Init ==
  /\ line = <<>>
  /\ hands = [t \in Takers |-> <<>>]
  /\ taken = {}
  /\ lost = {}
  /\ over = {}
  /\ told = [c \in Commands |-> "nothing"]

(* Only a command whose own time has passed may vanish from the queue, in a*)
(* step of its own or on the way of another.                               *)
Rests == {Keep(line, Commands \ gone) : gone \in SUBSET over}

(* enqueue: behind every command that waits. *)
Put(c) ==
  /\ c \notin ToSet(line)
  /\ \E rest \in Rests : line' = Append(rest, c)
  /\ UNCHANGED <<hands, taken, lost, over, told>>

(* take: the oldest ones, at most n of them, leave the queue.              *)
Pull(t, n) ==
  /\ hands[t] = <<>>
  /\ \E rest \in Rests :
       /\ n <= Len(rest)
       /\ hands' = [hands EXCEPT ![t] = SubSeq(rest, 1, n)]
       /\ line' = SubSeq(rest, n + 1, Len(rest))
  /\ taken' = taken \cup ToSet(hands'[t])
  /\ UNCHANGED <<lost, over, told>>

Deliver(t) ==
  /\ hands' = [hands EXCEPT ![t] = <<>>]
  /\ UNCHANGED <<line, taken, lost, over, told>>

(* requeue: back to the front, in their order; a store may leave out       *)
(* commands nobody waits for.                                              *)
PutBack(t) ==
  /\ \E keep \in SUBSET Commands :
       /\ ToSet(hands[t]) \ keep \subseteq over
       /\ line' = Keep(hands[t], keep) \o line
  /\ hands' = [hands EXCEPT ![t] = <<>>]
  /\ UNCHANGED <<taken, lost, over, told>>

(* take or requeue fails, and the batch is in nobody's hands and no line.  *)
Lose(t) ==
  /\ \/ /\ hands[t] = <<>>
        /\ \E n \in 1..Len(line) :
             /\ line' = SubSeq(line, n + 1, Len(line))
             /\ lost' = lost \cup ToSet(SubSeq(line, 1, n))
        /\ UNCHANGED hands
     \/ /\ hands' = [hands EXCEPT ![t] = <<>>]
        /\ lost' = lost \cup ToSet(hands[t])
        /\ UNCHANGED line
  /\ UNCHANGED <<taken, over, told>>

(* withdraw: true when it removed the command, false when a page took it   *)
(* (or when it was lost).                                                  *)
Withdraw(c) ==
  /\ told[c] = "nothing"
  /\ \/ /\ c \in ToSet(line)
        /\ line' = Keep(line, Commands \ {c})
        /\ told' = [told EXCEPT ![c] = "removed"]
     \/ /\ c \notin ToSet(line)
        /\ c \in taken \cup lost
        /\ told' = [told EXCEPT ![c] = "taken"]
        /\ UNCHANGED line
  /\ UNCHANGED <<hands, taken, lost, over>>

(* It fails: the command may be gone, and nobody waits for it any more.    *)
WithdrawFails(c) ==
  /\ line' \in {line, Keep(line, Commands \ {c})}
  /\ over' = over \cup {c}
  /\ UNCHANGED <<hands, taken, lost, told>>

GrowOld ==
  /\ over \subseteq over'
  /\ UNCHANGED <<line, hands, taken, lost, told>>

Drop ==
  /\ line' \in Rests
  /\ UNCHANGED <<hands, taken, lost, over, told>>

Next ==
  \/ GrowOld
  \/ \E t \in Takers : Deliver(t) \/ PutBack(t) \/ Lose(t) \/ \E n \in 1..Len(line) : Pull(t, n)
  \/ \E c \in Commands : Put(c) \/ Withdraw(c) \/ WithdrawFails(c)
  \/ Drop

Spec == Init /\ [][Next]_vars
=============================================================================
