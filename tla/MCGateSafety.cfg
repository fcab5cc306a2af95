CONSTANTS
    MaxInput = 1
    Recovers = {"k"}
    MaxIncarnation = 2
    MaxRequest = 3
    MaxGeneration = 3
    MaxAttempt = 3
SPECIFICATION FairSpec
INVARIANTS
    OpenBlockUngranted
    RetryBudget
    StreamingHoldsGate
    
PROPERTIES
    WaitResolved
CHECK_DEADLOCK FALSE
