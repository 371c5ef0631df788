\* Two functions, of which none, one or both are required; one slot, a call, a command and a
\* suggestion; three sessions and a grant that changes twice.
\* The channel of one page: two commands, four changes of readiness or visibility.
CONSTANTS
  LocalKeys = {k1, k2}
  Contracts = {{}, {k1}, {k1, k2}}
  Calls = {c1}
  Commands = {d1}
  Suggestions = {s1}
  MaxLocal = 1
  MaxSessions = 3
  MaxChanges = 2
  ChannelCommands = {d1, d2}
  MaxHellos = 2
  MaxAttempts = 2
  MaxMoves = 4
SPECIFICATION MCSpec
INVARIANTS BridgeInv WaitersAreHeard ChannelInv
PROPERTIES CallsSettle NothingStartsOnceDestroyed SilentOnceOver PollsWhenReady 
CHECK_DEADLOCK FALSE
