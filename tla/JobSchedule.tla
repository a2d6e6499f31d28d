----------------------------- MODULE JobSchedule -----------------------------
(***************************************************************************)
(* The pure scheduling rules of the job runner: when a [[jobs]] entry of   *)
(* vault.toml fires (jobs/schedule.rs) and whether its same-day `after`    *)
(* prerequisites let it (jobs/gate.rs).                                    *)
(*                                                                         *)
(* Instants (DateTime<Utc>) are integers, of which the daemon sees         *)
(* 0..MaxTime.  A time zone has an offset of the wall clock before and one *)
(* after a daylight-saving change: around it some wall-clock readings      *)
(* happen twice, or never.  A day of the wall clock has DayLen readings,   *)
(* and day 0 is a Monday.                                                  *)
(***************************************************************************)
EXTENDS Integers, FiniteSets

CONSTANTS
    None,       \* Rust's Option::None
    DayLen,     \* wall-clock readings in a day
    MaxTime,    \* BOUND: the last instant of the model
    Local       \* the daemon's local time zone

Time == 0..MaxTime

Zone == [before : Int, after : Int, change : Int]

ASSUME ScheduleAssumption ==
    /\ DayLen \in Nat \ {0}
    /\ MaxTime \in Nat
    /\ None \notin Int
    /\ Local \in Zone

(***************************************************************************)
(* JobSchedule: `every` an interval, or `at` a time of day.                *)
(***************************************************************************)
EverySchedule == [kind : {"every"}, interval : Nat \ {0}]

AtSchedule ==
    [kind : {"at"}, time : 0..(DayLen - 1), weekdays_only : BOOLEAN,
     timezone : Zone]

Schedule == EverySchedule \cup AtSchedule

-----------------------------------------------------------------------------
(* The wall clock.                                                         *)

offset(t, tz) == IF t < tz.change THEN tz.before ELSE tz.after

date_in_zone(t, tz) == (t + offset(t, tz)) \div DayLen

Saturday == 5
Sunday == 6

weekday(date) == date % 7

\* Mutant: the later of two instants.
resolve_latest(reading, tz) ==
    IF reading - tz.after >= tz.change THEN reading - tz.after
    ELSE IF reading - tz.before < tz.change THEN reading - tz.before
    ELSE None

\* The instant of a wall-clock reading: the earlier of two, None in a gap.
resolve_local(reading, tz) ==
    IF reading - tz.before < tz.change THEN reading - tz.before
    ELSE IF reading - tz.after >= tz.change THEN reading - tz.after
    ELSE None

\* The least member of S with P, or None.
First(S, P(_)) ==
    LET least(x) == P(x) /\ \A y \in S : y < x => ~ P(y)
    IN  IF \E x \in S : least(x) THEN CHOOSE x \in S : least(x) ELSE None

\* The fire of an `at` schedule on a date: None when the date is skipped.
fire_on(date, s) ==
    IF s.weekdays_only /\ weekday(date) \in {Saturday, Sunday}
    THEN None
    ELSE resolve_local(date * DayLen + s.time, s.timezone)

\* Mutant: a search that cannot look past a weekend.
ShortSearch == 0..2

\* BOUND of the code: both searches look at most a week away.
SearchDays == 0..7

most_recent_fire(t, s) ==
    LET fire(days_back) == fire_on(date_in_zone(t, s.timezone) - days_back, s)
        hit == First(SearchDays, LAMBDA d : fire(d) # None /\ fire(d) <= t)
    IN  IF hit = None THEN None ELSE fire(hit)

next_fire(t, s) ==
    LET fire(days_ahead) == fire_on(date_in_zone(t, s.timezone) + days_ahead, s)
        hit == First(SearchDays, LAMBDA d : fire(d) # None /\ fire(d) > t)
    IN  IF hit = None THEN None ELSE fire(hit)

-----------------------------------------------------------------------------
(* Due-ness.  last_run is None when the store holds no record of the job.  *)

\* Mutant: a fire that the last run already answered is due again.
is_due_again(s, t, last_run, runner_started) ==
    IF s.kind = "every"
    THEN last_run # None => t - last_run >= s.interval
    ELSE LET fire == most_recent_fire(t, s)
         IN  /\ fire # None
             /\ fire >= (IF last_run = None THEN runner_started ELSE last_run)

\* Mutant: a fire is due at its instant only, not when it was slept through.
is_due_on_time(s, t, last_run, runner_started) ==
    IF s.kind = "every"
    THEN last_run # None => t - last_run >= s.interval
    ELSE most_recent_fire(t, s) = t /\ last_run # t /\ t > runner_started

is_due(s, t, last_run, runner_started) ==
    IF s.kind = "every"
    THEN last_run # None => t - last_run >= s.interval
    ELSE LET fire == most_recent_fire(t, s)
         IN  /\ fire # None
             /\ fire > (IF last_run = None THEN runner_started ELSE last_run)

-----------------------------------------------------------------------------
(* The same-day gate.  records maps a job name to its record or None.      *)

gate_timezone(s) == IF s.kind = "at" THEN s.timezone ELSE Local

\* Mutant: any run of the day counts, not only a successful one.
ran_on(record, date, tz) ==
    record # None /\ date_in_zone(record.last_run, tz) = date

succeeded_on(record, date, tz) ==
    /\ record # None
    /\ record.last_success # None
    /\ date_in_zone(record.last_success, tz) = date

unmet_prereqs(after, records, tz, t) ==
    {a \in after : ~ succeeded_on(records[a], date_in_zone(t, tz), tz)}

\* An `at` job's fire that belongs to a day before t's.
stale_fire(s, t) ==
    LET fire == most_recent_fire(t, s)
    IN  /\ fire # None
        /\ date_in_zone(fire, s.timezone) < date_in_zone(t, s.timezone)

\* The verdict at t on a job that is due.
evaluate_gate(after, s, records, t) ==
    IF unmet_prereqs(after, records, gate_timezone(s), t) = {} THEN "ready"
    ELSE IF s.kind = "at" /\ stale_fire(s, t) THEN "missed"
    ELSE "blocked"

-----------------------------------------------------------------------------
(* The `after` lists: after[j] may name the job itself or an unknown job.  *)

\* The jobs a walk of the after-graph from j's prerequisites can visit.
after_walk(j, after) ==
    LET known == DOMAIN after
        step(S) == S \cup UNION {after[x] : x \in S \cap known}
        walk[n \in 0..Cardinality(known)] ==
            IF n = 0 THEN after[j] ELSE step(walk[n - 1])
    IN  walk[Cardinality(known)]

validate_after(j, after) ==
    /\ j \notin after[j]
    /\ after[j] \subseteq DOMAIN after
    /\ j \notin after_walk(j, after)

=============================================================================
