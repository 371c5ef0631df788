SPECIFICATION FairRunsSpec
CONSTANTS
  Steps = 4
  MaxReconnects = 2

PROPERTIES OnlyDeliveredAreSuppressed
CHECK_DEADLOCK FALSE
