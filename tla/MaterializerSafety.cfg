SPECIFICATION Spec
CONSTANTS
  Jobs = {j1}
  Passes = {p1, p2}
  Activators = {a1}
  Never = Never
  Schedules <- OneOfEachKind
  Policies <- AnyPolicy
  Window = 1
  Lookahead = 1
  ExecLookahead = 1
  Backoff = 1
  MaxPerJob = 1
  BatchSize = 1
  PlanRetry = 2
  MaxTime = 5
  MaxFaults = 1
INVARIANTS
  TypeOK
  EveryFireAccounted
  EditsWithdraw
  SupersededRetired
SYMMETRY Interchangeable
CHECK_DEADLOCK FALSE
