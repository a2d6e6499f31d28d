SPECIFICATION FairSpec
CONSTANTS
    Paths = {p1, p2}
    Hidden = {p2}
    Found = {p1}
    MaxEdits = 3
    MaxUpsets = 1
    MaxScans = 1
INVARIANTS
    TypeOK
    IndexSettled
    HealthHonest
PROPERTY CountsConverge
CHECK_DEADLOCK FALSE
