SPECIFICATION FairSpec
CONSTANTS
    Process <- Deployed
    Role <- Deployment
    MaxCrashes = 2
INVARIANTS SchemaCoherent InitialisedHasTables
PROPERTY TablesCome
CHECK_DEADLOCK FALSE
