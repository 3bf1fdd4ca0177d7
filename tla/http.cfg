SPECIFICATION FairSpec
CONSTANTS
    h1 = h1
    h2 = h2
    NoCaller = none
    Caller <- TwoCalls
    Row = {x1}
    Path <- MCPaths
    Route <- MCRoutes
    Code <- Codes
    Backend = "redis"
    UrlIsValid = TRUE
    KeyIsSet = TRUE
    SampleCap = 1
    MaxOutages = 2
INVARIANTS AcceptedIsDone RefusedChangesNothing ReadyIsTrue ReportsAgree AnsweredIsCounted
PROPERTY EveryCallIsAnswered
CHECK_DEADLOCK FALSE
