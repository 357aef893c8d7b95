\* Two requests, one runner with one slot, also a launcher.
SPECIFICATION FairSpec
CONSTANTS
  NumRequests = 2
  Runners = {"r1"}
  Launchers = {"r1"}
  NumOffers = 2
  MaxConcurrency = 1
  MaxRefreshes = 1
  MaxAcceptTimeouts = 2
  Internal = FALSE
  MaxFaults = 1
INVARIANTS
  TypeOK
  SlotsRespected
  CallersTracked
  OneAcceptance
  SlotsOwned
  RunsAtMostOnce
PROPERTIES
  CallsReturn
  CallLifecycle
CHECK_DEADLOCK FALSE
