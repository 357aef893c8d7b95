SPECIFICATION Spec
CONSTANTS
  Jobs = {j1}
  Passes = {p1, p2}
  Activators = {a1, a2}
  Never = Never
  Schedules <- OneCron
  Policies <- CoalesceOnly
  Window = 1
  Lookahead = 0
  ExecLookahead = 1
  Backoff = 1
  MaxPerJob = 4
  BatchSize = 1
  PlanRetry = 2
  MaxTime = 6
  MaxFaults = 2
INVARIANTS
  EveryFireAccounted
  BacklogCovered
PROPERTIES
  NoRerun
SYMMETRY Interchangeable
CHECK_DEADLOCK FALSE
