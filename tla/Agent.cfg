\* Two requests with one retry; a run of four steps and two reconnects; three changes, pages of two.
CONSTANTS
  Requests = {r1, r2}
  MaxAttempts = 2
  TimerSeconds = 30
  BudgetSeconds = 120
  Steps = 4
  MaxReconnects = 2
  Ids = {1, 2, 3}
  PageSize = 2
  MaxTime = 3
SPECIFICATION MCSpec
INVARIANTS RequestsInv RunsInv WatchInv
PROPERTIES RequestsEnd WaitEnds EveryChangeComes
CHECK_DEADLOCK FALSE
