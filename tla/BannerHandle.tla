---------------------------- MODULE BannerHandle ----------------------------
(***************************************************************************)
(* What the bridge of a page is promised by a banner it started: it tells  *)
(* once that nothing was found, hands one session over or is closed, never *)
(* both, and once closed says nothing more (startBanner, BannerBehavior).  *)
(***************************************************************************)


VARIABLE stage

Stages == {"looking", "shown", "consent", "handed", "closed"}

Init == stage = "looking"

(* onPending *)
Pending == stage = "looking" /\ stage' = "shown"
Asks == stage = "shown" /\ stage' = "consent"
Declined == stage = "consent" /\ stage' = "shown"
(* onReady *)
Ready == stage \in {"looking", "shown", "consent"} /\ stage' = "handed"
(* the session's promise is rejected *)
Closed == stage \in {"looking", "shown", "consent"} /\ stage' = "closed"

Next == Pending \/ Asks \/ Declined \/ Ready \/ Closed

Spec == Init /\ [][Next]_stage
=============================================================================
