SPECIFICATION FairSpec
CONSTANTS
  Requests = {1, 2}
  MaxAttempts <- TwoThenOne
  Workers = {w1, w2}
  Operators = {a1}
  Dialects = {"postgresql", "sqlite"}
  QueueBackend = "redis"
  Database = Database
  Nobody = Nobody
  MaxFaults = 1
  MaxReplays = 2
INVARIANTS NoLostUpdate
PROPERTIES SkipsOnlyRowsInWork LifecyclePromise EventuallyClaimed
