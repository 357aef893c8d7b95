SPECIFICATION Spec
CONSTANTS
  Tasks = {t1}
  Hosts = {h1}
  Reapers = {r1}
  NoHost = NoHost
  NoDeadline = NoDeadline
  MaxAttempts = 2
  Lease = 1
  Lookahead = 2
  BatchSize = 1
  Skew = 0
  Graces = {0}
  MaxEpoch = 3
  MaxFaults = 1
  Backoff <- MCBackoff
INVARIANTS
  StopReleasesClaims
