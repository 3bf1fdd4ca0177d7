SPECIFICATION FairSpec
CONSTANTS
    Slot = {s1, s2, s3}
    Worker <- TwoWorkers
    Brokered = TRUE
    MaxAttempts = 2
    MaxQueue = 2
PROPERTIES PublishedIsConsumed FallbackServes
