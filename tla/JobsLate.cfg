SPECIFICATION Spec
CONSTANTS
    None = None
    connector = connector
    briefing = briefing
    digest = digest
    Runner = Runner
    Job = {connector, briefing}
    Manual = {}
    Order <- MCOrder
    Config <- MCGated
    Budget <- MCQuiet
    Local <- MCLocal
    Outcomes = {"exit0", "exit_nonzero", "timed_out"}
    DayLen = 3
    MaxTime = 5
INVARIANT NeverLate
