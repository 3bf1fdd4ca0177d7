SPECIFICATION TimestampsSpec
CONSTANTS
  Requests = {r1}
  MaxAttempts <- TwoAttempts
  Workers = {w1, w2}
  Callers = {a1}
  Delays = {0, 1}
  Nobody = Nobody
  MaxTime = 2
  MaxReplays = 1
  Second = 2
  TimedRequests = {q1, q2}
  TimedAttempts = 3
  TimedWorkers = {v1}
  Hints = {0, 2}
  Dates = {3}
  Backoffs = {1}
  MaxTicks = 6
  MaxDeaths = 1
SYMMETRY Symmetry
CHECK_DEADLOCK FALSE
INVARIANTS TrailInTimeOrder EligibleWhenDue DeferredAtMostTwice
PROPERTIES RetryAfterKept
