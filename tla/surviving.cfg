SPECIFICATION FairSpec
CONSTANTS
  r1 = r1  r2 = r2  r3 = r3  k1 = k1
  Requests = {r1, r3}
  Key <- MCKey
  MaxAttempts <- MixedAttempts
  NoKey = NoKey
  DateLimit = 1
  Brokered = TRUE
  MaxBrokerFaults = 1
  Workers = {w1, w2}
  Targets = {t1}
  Target <- MCTarget
  NoRequest = NoRequest
  RetryDelay = 0
  MaxRetryDelay = 0
  JitterPercent = 0
  Hints = {1}
  MaxCrashes = 1
  Callers = {a1}
  NoId = NoId
  MaxReplays = 0
PROPERTIES SettledOrStranded
