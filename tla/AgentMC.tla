------------------------------- MODULE AgentMC -------------------------------
(* The three parts of the agent SDK, each checked by itself in one run.      *)
EXTENDS AgentRequests, AgentRuns, ChangeWatch

VARIABLE part

allVars == <<part, vars, runsVars, watchVars>>

\* A part that is not checked stays in one initial state.
MCInit ==
  /\ part \in {"requests", "runs", "watch"}
  /\ Init /\ (part = "requests" \/ (conn = "none" /\ ~hasKey /\ device = "none"))
  /\ RunsInit /\ (part = "runs" \/ (how = "events" /\ run = 0))
  /\ WatchInit /\ (part = "watch" \/ (phase = "head" /\ \A i \in Ids : feed[i] = 0))

InRequests(A) == part = "requests" /\ A /\ UNCHANGED <<part, runsVars, watchVars>>
InRuns(A) == part = "runs" /\ A /\ UNCHANGED <<part, vars, watchVars>>
InWatch(A) == part = "watch" /\ A /\ UNCHANGED <<part, vars, runsVars>>

MCNext == InRequests(Next) \/ InRuns(RunsNext) \/ InWatch(WatchNext)

MCFairness ==
  /\ WF_allVars(InRequests(Probes))
  /\ \A r \in Requests : WF_allVars(InRequests(TimesOut(r)))
  /\ WF_allVars(InRuns(Moves)) /\ WF_allVars(InRuns(DeadlinePasses))
  /\ WF_allVars(InWatch(WatcherMoves)) /\ SF_allVars(InWatch(Fetches))

MCSpec == MCInit /\ [][MCNext]_allVars /\ MCFairness
=============================================================================
