SPECIFICATION Spec
CONSTANTS
    None = None
    DayLen = 4
    MaxTime = 48
    Local <- MCLocal
    Times = {0, 1, 2, 3}
    Zones <- MCZones
INVARIANT LatestFire
PROPERTY AnnouncedFireComes
CHECK_DEADLOCK FALSE
