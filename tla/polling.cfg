SPECIFICATION Spec
CONSTANTS
  r1 = r1  r2 = r2  r3 = r3  k1 = k1
  Requests = {r1, r2, r3}
  Key <- MCKey
  MaxAttempts <- MixedAttempts
  NoKey = NoKey
  DateLimit = 1
  Brokered = FALSE
  MaxBrokerFaults = 0
  Workers = {w1, w2}
  Targets = {t1}
  Target <- MCTarget
  NoRequest = NoRequest
  RetryDelay = 1
  MaxRetryDelay = 1
  JitterPercent = 0
  Hints = {0, 2}
  MaxCrashes = 1
  Callers = {a1, a2}
  NoId = NoId
  MaxReplays = 1
SYMMETRY Symmetry
INVARIANTS TypeOK AttemptBudget AuditTrail CallsAreAudited OneStrandedPerDeath
