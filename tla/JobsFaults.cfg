SPECIFICATION FairSpec
CONSTANTS
    None = None
    connector = connector
    briefing = briefing
    digest = digest
    Runner = Runner
    Job = {connector, briefing}
    Manual = {m1}
    Order <- MCOrder
    Config <- MCEveryTick
    Budget <- MCFaults
    Local <- MCLocal
    Outcomes = {"exit0"}
    DayLen = 1
    MaxTime = 1
INVARIANT ReservationExclusive
INVARIANT SuccessesDelivered
INVARIANT PrereqsDelivered
PROPERTY ReservationReleased
