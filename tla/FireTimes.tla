------------------------------ MODULE FireTimes ------------------------------
(***************************************************************************)
(* The fire times of `at` schedules (jobs/schedule.rs) against a clock     *)
(* that walks through weekends and a daylight-saving change.  The searches *)
(* most_recent_fire and next_fire are compared with a definition of a fire *)
(* that only looks at what the wall clock shows.                           *)
(***************************************************************************)
EXTENDS JobSchedule

CONSTANTS
    Times,      \* times of day, each for a plain and a weekdays_only schedule
    Zones       \* time zones

\* The zones in which the date never goes back: a change skips at most a day, as
\* where a country moves over the date line, and one that puts the clock back
\* stays in the day that was showing.
CivilZone(z) ==
    /\ z.after - z.before <= DayLen
    /\ date_in_zone(z.change - 1, z) <= date_in_zone(z.change, z)

ASSUME FireTimesAssumption ==
    /\ Times \subseteq 0..(DayLen - 1)
    /\ Zones \subseteq {z \in Zone : CivilZone(z)}

VARIABLES
    s,          \* the schedule
    now         \* the clock

vars == <<s, now>>

Schedules ==
    [kind : {"at"}, time : Times, weekdays_only : BOOLEAN, timezone : Zones]

Init ==
    /\ s \in Schedules
    /\ now = 0

Tick ==
    /\ now < MaxTime
    /\ now' = now + 1
    /\ UNCHANGED s

Spec == Init /\ [][Tick]_vars

-----------------------------------------------------------------------------
reading(t) == t + offset(t, s.timezone)

\* How far from the clock the reference looks for a fire: past the week of
\* the code's search, at either end.
Horizon == 8 * DayLen + 2

\* The wall clock shows the schedule's time, on a day it allows, for the
\* first time.
IsFire(t) ==
    /\ reading(t) % DayLen = s.time
    /\ s.weekdays_only =>
           weekday(reading(t) \div DayLen) \notin {Saturday, Sunday}
    /\ \A u \in (t - DayLen)..(t - 1) : reading(u) # reading(t)

\* most_recent_fire is the last fire up to now: no weekend, repeated hour or
\* skipped hour makes the runner catch up on the wrong fire or on none.
LatestFire ==
    LET latest(t) == IsFire(t) /\ \A u \in (t + 1)..now : ~ IsFire(u)
    IN  \A t \in (now - Horizon)..now :
            latest(t) => most_recent_fire(now, s) = t

\* next_fire always announces a fire, and what it announces comes true: until
\* then it announces the same fire, and at that instant most_recent_fire is it.
AnnouncedFireComes ==
    [][/\ next_fire(now, s) # None
       /\ IF now' < next_fire(now, s)
          THEN next_fire(now', s) = next_fire(now, s)
          ELSE most_recent_fire(now', s) = next_fire(now, s)]_vars

=============================================================================
