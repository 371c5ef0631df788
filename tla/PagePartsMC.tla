----------------------------- MODULE PagePartsMC -----------------------------
(* The page's bridge and its channel, each checked by itself in one run.     *)
EXTENDS PageBridge, PageChannel

VARIABLE part

allVars == <<part, vars, channelVars>>

\* The part that is not checked stays in one initial state.
MCInit ==
  /\ part \in {"bridge", "channel"}
  /\ Init /\ (part = "bridge" \/ (bridge.required = {} /\ grant = {}))
  /\ ChannelInit /\ (part = "channel" \/ (~ready /\ hidden))

InBridge(A) == part = "bridge" /\ A /\ UNCHANGED <<part, channelVars>>
InChannel(A) == part = "channel" /\ A /\ UNCHANGED <<part, vars>>

MCNext == InBridge(Next) \/ InChannel(ChannelNext)

MCFairness ==
  /\ WF_allVars(InBridge(BannerStep))
  /\ \A c \in Work : WF_allVars(InBridge(CallStep(c)))
  /\ WF_allVars(InChannel(LoopGoesOn))
  /\ \A k \in ChannelCommands : WF_allVars(InChannel(RunSettles(k))) /\ WF_allVars(InChannel(PostAgain(k)))

MCSpec == MCInit /\ [][MCNext]_allVars /\ MCFairness
=============================================================================
