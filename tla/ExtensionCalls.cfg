SPECIFICATION Spec
CONSTANTS
  Calls = {1, 2}
  MaxHeld = 1
  MaxHeldEvents = 2
  MaxTokens = 1
  MaxDisconnects = 2
  NoToken = NoToken
INVARIANTS CallsInv
PROPERTIES OrphanRunsAreStopped CallsEnd RefusedTokenIsForgotten DisconnectComesLast
CHECK_DEADLOCK FALSE
