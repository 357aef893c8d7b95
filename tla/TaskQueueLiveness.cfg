SPECIFICATION FairSpec
CONSTANTS
  Tasks = {t1}
  Hosts = {h1, h2}
  Reapers = {r1}
  NoHost = NoHost
  NoDeadline = NoDeadline
  MaxAttempts = 2
  Lease = 1
  Lookahead = 1
  BatchSize = 1
  Skew = 0
  Graces = {0}
  MaxEpoch = 4
  MaxFaults = 1
  Backoff <- MCBackoff
PROPERTIES
  EventuallySettled
