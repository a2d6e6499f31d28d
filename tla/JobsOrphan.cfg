SPECIFICATION Spec
CONSTANTS
    None = None
    connector = connector
    briefing = briefing
    digest = digest
    Runner = Runner
    Job = {connector, briefing}
    Manual = {}
    Order <- MCOrder
    Config <- MCUngated
    Budget <- MCRemoval
    Local <- MCLocal
    Outcomes = {"exit0", "exit_nonzero"}
    DayLen = 2
    MaxTime = 2
INVARIANT NeverConcurrently
