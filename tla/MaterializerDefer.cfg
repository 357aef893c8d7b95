SPECIFICATION Spec
CONSTANTS
  Jobs = {j1}
  Passes = {p1}
  Activators = {a1}
  Never = Never
  Schedules <- OneCron
  Policies <- CoalesceOnly
  Window = 1
  Lookahead = 0
  ExecLookahead = 1
  Backoff = 1
  MaxPerJob = 4
  BatchSize = 1
  PlanRetry = 2
  MaxTime = 7
  MaxFaults = 1
INVARIANTS
  PendingAreFires
CHECK_DEADLOCK FALSE
