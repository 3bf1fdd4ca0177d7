SPECIFICATION ReadsSpec
CONSTANTS
  r1 = r1  r2 = r2
  Requests = {r1, r2}
  Key <- MCKey
  MaxAttempts <- MCAttempts
  NoKey = NoKey
  DateLimit = 1
  Brokered = FALSE
  MaxBrokerFaults = 0
  Workers = {w1}
  Targets = {t1}
  Target <- MCTarget
  NoRequest = NoRequest
  RetryDelay = 1
  MaxRetryDelay = 1
  JitterPercent = 0
  Hints = {0}
  MaxCrashes = 0
  Callers = {a1}
  NoId = NoId
  MaxReplays = 1
  MaxReports = 1
CHECK_DEADLOCK FALSE
INVARIANTS DetailsCohere MetricsCohere
