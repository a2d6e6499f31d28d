SPECIFICATION Spec
CONSTANTS
    MaxContents = 3
    MaxFaults = 2
    MaxFlushes = 1
    MaxRetries = 2
INVARIANT
    QueuedSaveKept
CHECK_DEADLOCK FALSE
