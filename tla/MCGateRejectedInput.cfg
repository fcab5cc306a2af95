CONSTANTS
    MaxInput = 2
    Recovers = {}
    MaxIncarnation = 1
    MaxRequest = 2
    MaxGeneration = 2
    MaxAttempt = 2
SPECIFICATION Spec
PROPERTIES
    RejectionKeptByInput
CHECK_DEADLOCK FALSE
