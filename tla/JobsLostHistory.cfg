SPECIFICATION Spec
CONSTANTS
    None = None
    connector = connector
    briefing = briefing
    digest = digest
    Runner = Runner
    Job = {connector, briefing}
    Manual = {m1}
    Order <- MCOrder
    Config <- MCUngated
    Budget <- MCTriggers
    Local <- MCLocal
    Outcomes = {"exit0", "exit_nonzero"}
    DayLen = 2
    MaxTime = 2
INVARIANT DurableHistory
