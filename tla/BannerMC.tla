------------------------------ MODULE BannerMC ------------------------------
(* The banner of a page, and what the server knows of a user's pages, each   *)
(* checked by itself in one run.                                             *)
EXTENDS Banner, Presence

VARIABLE part

allVars == <<part, bannerVars, presenceVars>>

\* The part that is not checked stays in one initial state.
MCInit ==
  /\ part \in {"banner", "presence"}
  /\ BannerInit /\ (part = "banner" \/ (check[1].flies /\ check[1].silent /\ writ = "ok" /\ siteGrant = "all"))
  /\ PresenceInit /\ (part = "presence" \/ store = "memory")

InBanner(A) == part = "banner" /\ A /\ UNCHANGED <<part, presenceVars>>
InPresence(A) == part = "presence" /\ A /\ UNCHANGED <<part, bannerVars>>

MCNext == InBanner(BannerNext) \/ InPresence(PresenceNext)

MCFairness ==
  /\ \A n \in Checks : WF_allVars(InBanner(Assessed(n) \/ CheckEnds(n)))
  /\ WF_allVars(InPresence(GrowOld))
  /\ \A p \in Pages :
       /\ SF_allVars(InPresence(HelloTimer(p)))
       /\ SF_allVars(InPresence(\E s \in HelloSlots : Read(p, s)))
       /\ SF_allVars(InPresence(\E s \in HelloSlots : Write(p, s)))

MCSpec == MCInit /\ [][MCNext]_allVars /\ MCFairness

\* The part the run checks is the banner.
FirstCheckTells == part = "banner" => BannerTells
=============================================================================
