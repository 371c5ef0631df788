SPECIFICATION Spec
CONSTANTS
  Requests = {r1, r2}
  MaxAttempts = 2
  TimerSeconds = 30
  BudgetSeconds = 120
PROPERTIES OnlyTheBudgetRejects
CHECK_DEADLOCK FALSE
