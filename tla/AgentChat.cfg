SPECIFICATION FairSpec
CONSTANTS
    Tools = {t1}
    MaxRuns = 3
    MaxAsks = 2
    MaxOut = 1
    Saved = 1
    MaxThreads = 2
    MaxSends = 2
    MaxClicks = 3
    MaxFaults = 1
INVARIANT TypeOK
INVARIANT SessionAtHome
INVARIANT ScopeFollows
PROPERTY GateKept
PROPERTY UnreachableEnds
CHECK_DEADLOCK FALSE
