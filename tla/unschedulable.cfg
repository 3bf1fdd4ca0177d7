SPECIFICATION FairSpec
CONSTANTS
  r1 = r1  r2 = r2  r3 = r3  k1 = k1
  Requests = {r1, r3}
  Key <- MCKey
  MaxAttempts <- TwoAttempts
  NoKey = NoKey
  DateLimit = 1
  Brokered = FALSE
  MaxBrokerFaults = 0
  Workers = {w1}
  Targets = {t1}
  Target <- MCTarget
  NoRequest = NoRequest
  RetryDelay = 0
  MaxRetryDelay = 0
  JitterPercent = 0
  Hints = {2}
  MaxCrashes = 0
  Callers = {a1}
  NoId = NoId
  MaxReplays = 0
PROPERTIES ClaimIsRecorded
