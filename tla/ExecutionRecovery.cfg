SPECIFICATION Spec
CONSTANTS
  Limit = 1
  MaxExecutions = 1
  MaxCalls = 2
  MaxWaits = 0
  Waiters = {}
  MaxFaults = 0
PROPERTIES
  RecoveryRunsLeftOvers
CHECK_DEADLOCK FALSE
