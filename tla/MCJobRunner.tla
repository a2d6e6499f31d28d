----------------------------- MODULE MCJobRunner -----------------------------
(***************************************************************************)
(* Instances of JobRunner for TLC.                                         *)
(***************************************************************************)
EXTENDS JobRunner

CONSTANTS connector, briefing, digest

MCLocal == [before |-> 0, after |-> 0, change |-> 0]

MCOrder == <<connector, briefing>>
MCDigestToo == <<connector, briefing, digest>>

Every(n) == [kind |-> "every", interval |-> n]

At(time) ==
    [kind |-> "at", time |-> time, weekdays_only |-> FALSE, timezone |-> Local]

Command(schedule, after) ==
    [schedule |-> schedule, after |-> after, runnable |-> TRUE,
     allow_writes |-> FALSE, success_when |-> FALSE]

\* A connector at a fixed interval, judged by its success_when query, a daily
\* briefing that waits for it and, where Job has it, a daily digest that waits
\* for nothing.
MCGated ==
    [j \in Job |-> CASE j = connector ->
                          [Command(Every(2), {}) EXCEPT !.success_when = TRUE]
                     [] j = briefing -> Command(At(1), {connector})
                     [] j = digest -> Command(At(0), {})]

\* Days of one instant, so that yesterday's success is one tick old, and a
\* connector whose runs are write-tracked; the briefing has a success_when.
MCEveryTick ==
    [j \in Job |-> IF j = connector
                   THEN [Command(Every(1), {}) EXCEPT !.allow_writes = TRUE]
                   ELSE [Command(At(0), {connector}) EXCEPT
                             !.success_when = TRUE]]

\* Two jobs that wait for nothing.
MCUngated ==
    [j \in Job |-> IF j = connector THEN Command(Every(2), {})
                   ELSE Command(At(1), {})]

Spending(trigger, toggle, remove, crash, ioerror) ==
    [f \in Faults |-> CASE f = "trigger" -> trigger
                        [] f = "toggle" -> toggle
                        [] f = "remove" -> remove
                        [] f = "crash" -> crash
                        [] f = "ioerror" -> ioerror]

MCQuiet == {Spending(0, 1, 0, 0, 0)}
MCTriggers == {Spending(2, 0, 0, 0, 0)}
MCFaults == {Spending(1, 0, 1, 0, 0), Spending(0, 0, 0, 1, 1)}
MCRemoval == {Spending(0, 0, 1, 0, 0)}

=============================================================================
