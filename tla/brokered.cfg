SPECIFICATION Spec
CONSTANTS
  r1 = r1  r2 = r2  r3 = r3  k1 = k1
  Requests = {r1, r2}
  Key <- MCKey
  MaxAttempts <- TwoAttempts
  NoKey = NoKey
  DateLimit = 1
  Brokered = TRUE
  MaxBrokerFaults = 2
  Workers = {w1, w2}
  Targets = {t1}
  Target <- MCTarget
  NoRequest = NoRequest
  RetryDelay = 0
  MaxRetryDelay = 0
  JitterPercent = 0
  Hints = {1}
  MaxCrashes = 1
  Callers = {a1, a2}
  NoId = NoId
  MaxReplays = 1
SYMMETRY Symmetry
INVARIANTS ExclusiveClaim PublishedIsPersisted
PROPERTIES LifecyclePromise RetryAfterHonoured
