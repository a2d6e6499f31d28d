SPECIFICATION Spec
CONSTANTS
    MaxContents = 3
    MaxFaults = 3
    MaxFlushes = 1
    MaxRetries = 2
INVARIANTS
    TypeOK
    ShownKept
    RetryArmed
CHECK_DEADLOCK FALSE
