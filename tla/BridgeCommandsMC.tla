-------------------------- MODULE BridgeCommandsMC --------------------------
(***************************************************************************)
(* Instances of BridgeCommands for TLC.                                    *)
(***************************************************************************)
EXTENDS BridgeCommands

CONSTANTS c1, c2, p1, p2, u1, u2

(* Every call and every page is u1's. *)
OneUserCalls == [c \in Calls |-> u1]
OneUserPages == [p \in Pages |-> u1]

(* The second page is another user's. *)
OtherUserPages == [p \in Pages |-> IF p = p1 THEN u1 ELSE u2]

AllRecommended == [c \in Calls |-> "recommended"]
=============================================================================
