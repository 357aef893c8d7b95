SPECIFICATION Spec
CONSTANTS
  Limit = 1
  MaxExecutions = 2
  MaxCalls = 3
  MaxWaits = 2
  Waiters = {1}
  MaxFaults = 0
PROPERTIES
  ResumesItsWait
CHECK_DEADLOCK FALSE
