SPECIFICATION FairSpec
CONSTANTS
    None = None
    connector = connector
    briefing = briefing
    digest = digest
    Runner = Runner
    Job = {connector, briefing, digest}
    Manual = {}
    Order <- MCDigestToo
    Config <- MCGated
    Budget <- MCQuiet
    Local <- MCLocal
    Outcomes = {"exit0", "exit_nonzero"}
    DayLen = 3
    MaxTime = 4
INVARIANT TypeOK
INVARIANT DurableHistory
INVARIANT FiresDecidedOnce
PROPERTY CatchUp
