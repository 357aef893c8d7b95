SPECIFICATION FairSpec
CONSTANTS
  Limit = 1
  MaxExecutions = 2
  MaxCalls = 2
  MaxWaits = 1
  Waiters = {2}
  MaxFaults = 1
INVARIANTS
  TypeOK
  SlotsAccounted
  QueueOnlyWhenFull
  OversubscribedByRemovals
  OneRunner
  NewRowsOwned
PROPERTIES
  EndedStaysEnded
  QueueDrains
CHECK_DEADLOCK FALSE
