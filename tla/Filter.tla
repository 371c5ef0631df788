------------------------------- MODULE Filter -------------------------------
(* Array.prototype.filter: SelectSeq with a set for its test, written as a   *)
(* recursive function, which can be reasoned about (FilterTheorems).         *)
EXTENDS Naturals, SequencesExt

(* The members of q that are in S, in their order. *)
Keep(q, S) ==
  LET kept[i \in 0..Len(q)] ==
        IF i = 0 THEN <<>>
        ELSE IF q[i] \in S THEN Append(kept[i - 1], q[i]) ELSE kept[i - 1]
  IN  kept[Len(q)]
=============================================================================
