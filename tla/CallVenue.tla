----------------------------- MODULE CallVenue -----------------------------
(***************************************************************************)
(* What bridge.user(id).<key>(...) promises about WHERE a function runs,   *)
(* whatever the store, the pages and the network do in between.            *)
(*                                                                         *)
(* A call ends at exactly one venue.  The visitor's computer starts the    *)
(* function at most once, and a call that was handed to Writ Cloud, or     *)
(* that was refused as "nothing ran there", has not run on the visitor's   *)
(* computer and never will.                                                *)
(***************************************************************************)
EXTENDS Naturals

CONSTANTS Calls

VARIABLES
  runs,   \* runs[c]: how many times a page started c's function
  venue   \* venue[c]: "none" while c is open, then how it ended

vars == <<runs, venue>>

Venues == {"none", "user", "cloud", "away", "failed"}

TypeOK ==
  /\ runs \in [Calls -> {0, 1}]
  /\ venue \in [Calls -> Venues]

Init ==
  /\ runs = [c \in Calls |-> 0]
  /\ venue = [c \in Calls |-> "none"]

(* A page starts the function.  The caller may already have failed (its    *)
(* store threw, its time ran out), never have gone elsewhere.              *)
Start(c) ==
  /\ runs[c] = 0
  /\ venue[c] \in {"none", "failed"}
  /\ runs' = [runs EXCEPT ![c] = 1]
  /\ UNCHANGED venue

End(c, v) ==
  /\ venue[c] = "none"
  /\ venue' = [venue EXCEPT ![c] = v]
  /\ UNCHANGED runs

(* The visitor's computer answered. *)
ByUser(c) == runs[c] = 1 /\ End(c, "user")

(* Nothing ran on the visitor's computer: hand the call to Writ Cloud, or  *)
(* tell the caller that the user is away.                                  *)
ToCloud(c) == runs[c] = 0 /\ End(c, "cloud")
Away(c)    == runs[c] = 0 /\ End(c, "away")

(* Any other error: it says nothing about what ran. *)
Fail(c) == End(c, "failed")

Next == \E c \in Calls : Start(c) \/ ByUser(c) \/ ToCloud(c) \/ Away(c) \/ Fail(c)

Spec == Init /\ [][Next]_vars
=============================================================================
