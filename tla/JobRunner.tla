------------------------------ MODULE JobRunner ------------------------------
(***************************************************************************)
(* The job runner of one vault (crates/notesmith-http/src/jobs): the       *)
(* supervised runner task that makes scheduling passes, the tasks spawned  *)
(* by the manual REST trigger, the registry of running jobs they share,    *)
(* and the unlocked jobs-state.json they both rewrite.                     *)
(*                                                                         *)
(* Tasks run on tokio's multi-threaded runtime, so they interleave at      *)
(* every access to shared state; a task is cancelled only where it awaits. *)
(***************************************************************************)
EXTENDS JobSchedule, Sequences

CONSTANTS
    Job,        \* the names in the vault's [[jobs]] list
    Order,      \* that list, in file order, the first entry of each name
    Config,     \* what each entry says
    Runner,     \* the runner task
    Manual,     \* BOUND: tasks that serve manual triggers
    Outcomes,   \* ways a subprocess can end
    Budget      \* BOUND: the choices of how often each such event happens

Task == {Runner} \cup Manual

(***************************************************************************)
(* A [[jobs]] entry.  schedule is None when validate_job rejects it;       *)
(* runnable says that validate_action accepts the command or agent;        *)
(* allow_writes marks the write-tracked agent jobs.                        *)
(***************************************************************************)
JobConfig ==
    [schedule : Schedule \cup {None}, after : SUBSET Job, runnable : BOOLEAN,
     allow_writes : BOOLEAN, success_when : BOOLEAN]

After == [j \in Job |-> Config[j].after]

Faults == {"trigger", "toggle", "remove", "crash", "ioerror"}

Status == {"succeeded", "failed", "timed_out", "missed", "no_writes"}

Record == [last_run : Time, status : Status, last_success : Time \cup {None}]

ASSUME RunnerAssumption ==
    /\ None \notin Job
    /\ None \notin Record
    /\ Order \in Seq(Job)
    /\ \A i, k \in 1..Len(Order) : Order[i] = Order[k] => i = k
    /\ Config \in [Job -> JobConfig]
    /\ Runner \notin Manual
    /\ IsFiniteSet(Manual)
    /\ Outcomes \subseteq {"exit0", "exit_nonzero", "timed_out"}
    /\ Budget \subseteq [Faults -> Nat]

\* The part of a record that a run supplies; the store adds last_success.
RunRecord == [last_run : Time, status : Status]

\* What an unreadable, truncated or missing jobs-state.json loads as.
EmptyFile == [j \in Job |-> None]

VARIABLES
    now,            \* Utc::now()
    live,           \* the vault is in AppState.vaults
    enabled,        \* the `enabled` flags of the live vault config
    registry,       \* jobs reserved by try_begin_run
    file,           \* what loading jobs-state.json returns
    runner_started, \* when the runner finished its initial delay
    cloned,         \* the jobs enabled in the config the pass has cloned
    todo,           \* entries the current pass has still to look at
    pc,             \* where each task is
    guard,          \* the job of the RunGuard each task owns, or None
    run,            \* the record each task is about to persist, or None
    snap,           \* the state each task loaded in JobStateStore::record
    orphans,        \* subprocesses whose task is gone, per job
    budget,         \* how often each event of the environment may still happen
    \* History variables: read by no guard of the code.
    gate_at,        \* when the gate let the runner's current job through
    fire,           \* the fire that made the runner's current job due
    served,         \* fires the runner decided on (run or missed), per job
    delivered,      \* start times of the runs that delivered, per job
    ledger          \* the records a store that loses nothing would hold

daemon == <<registry, runner_started, cloned, todo, pc, guard, run, snap>>
env == <<now, live, enabled, orphans, budget>>
history == <<gate_at, fire, served, delivered, ledger>>
vars == <<daemon, env, file, history>>

-----------------------------------------------------------------------------
(* Phases of a task.                                                       *)

Away == {"absent", "delay", "idle"}
Deciding == {"check", "gate", "reserve"}
Recording == {"load", "truncate", "write"}
Executing == {"enter", "child", "query", "finish"}
Phase == Away \cup Deciding \cup Recording \cup Executing

\* A cancelled task stops at its next await: nowhere else.
AwaitPoint == {"delay", "idle", "enter", "child", "query"}

JobOf(p) == IF guard[p] # None THEN guard[p] ELSE Head(todo)

Goto(p, phase) == pc' = [pc EXCEPT ![p] = phase]

Spend(fault) ==
    /\ budget[fault] > 0
    /\ budget' = [budget EXCEPT ![fault] = @ - 1]

TypeOK ==
    /\ now \in Time
    /\ live \in BOOLEAN
    /\ enabled \in [Job -> BOOLEAN]
    /\ registry \in SUBSET Job
    /\ file \in [Job -> Record \cup {None}]
    /\ runner_started \in Time \cup {None}
    /\ cloned \in SUBSET Job
    /\ todo \in Seq(Job)
    /\ pc \in [Task -> Phase]
    /\ guard \in [Task -> Job \cup {None}]
    /\ run \in [Task -> RunRecord \cup {None}]
    /\ snap \in [Task -> [Job -> Record \cup {None}]]
    /\ orphans \in [Job -> Nat]
    /\ budget \in [Faults -> Nat]
    /\ gate_at \in Time \cup {None}
    /\ fire \in Int \cup {None}
    /\ served \in [Job -> Seq(Int)]
    /\ delivered \in [Job -> SUBSET Time]
    /\ ledger \in [Job -> Record \cup {None}]

Init ==
    /\ now = 0
    /\ live = TRUE
    /\ enabled = [j \in Job |-> TRUE]
    /\ registry = {}
    /\ file = EmptyFile
    /\ runner_started = None
    /\ cloned = {}
    /\ todo = <<>>
    /\ pc = [p \in Task |-> "absent"]
    /\ guard = [p \in Task |-> None]
    /\ run = [p \in Task |-> None]
    /\ snap = [p \in Task |-> EmptyFile]
    /\ orphans = [j \in Job |-> 0]
    /\ budget \in Budget
    /\ gate_at = None
    /\ fire = None
    /\ served = [j \in Job |-> <<>>]
    /\ delivered = [j \in Job |-> {}]
    /\ ledger = EmptyFile

-----------------------------------------------------------------------------
(* The environment.                                                        *)

Tick ==
    /\ now < MaxTime
    /\ now' = now + 1
    /\ UNCHANGED <<daemon, live, enabled, orphans, budget, file, history>>

\* An edit of vault.toml picked up by the config watcher.
ToggleEnabled(j) ==
    /\ Spend("toggle")
    /\ enabled' = [enabled EXCEPT ![j] = ~ @]
    /\ UNCHANGED <<daemon, now, live, orphans, file, history>>

RemoveVault ==
    /\ live
    /\ Spend("remove")
    /\ live' = FALSE
    /\ UNCHANGED <<daemon, now, enabled, orphans, file, history>>

AddVault ==
    /\ ~ live
    /\ live' = TRUE
    /\ UNCHANGED <<daemon, now, enabled, orphans, budget, file, history>>

OrphanExits(j) ==
    /\ orphans[j] > 0
    /\ orphans' = [orphans EXCEPT ![j] = @ - 1]
    /\ UNCHANGED <<daemon, now, live, enabled, budget, file, history>>

\* Subprocesses have their own process group and outlive their task.
Abandoned(S) ==
    [j \in Job |->
        orphans[j] + Cardinality({p \in S : pc[p] = "child" /\ guard[p] = j})]

\* The daemon process dies: only the state file and the subprocesses survive.
Crash ==
    /\ Spend("crash")
    /\ registry' = {}
    /\ runner_started' = None
    /\ cloned' = {}
    /\ todo' = <<>>
    /\ pc' = [p \in Task |-> "absent"]
    /\ guard' = [p \in Task |-> None]
    /\ run' = [p \in Task |-> None]
    /\ snap' = [p \in Task |-> EmptyFile]
    /\ orphans' = Abandoned(Task)
    /\ gate_at' = None
    /\ fire' = None
    /\ UNCHANGED <<now, live, enabled, file, served, delivered, ledger>>

-----------------------------------------------------------------------------
(* The supervisor (supervise_once, spawn_job_runner).                      *)

SuperviseSpawn ==
    /\ live
    /\ pc[Runner] = "absent"
    /\ Goto(Runner, "delay")
    /\ UNCHANGED <<registry, runner_started, cloned, todo, guard, run, snap,
                   env, file, history>>

\* handle.abort() of a removed vault's runner: dropping the task drops its
\* RunGuard, and drops the Child without killing the subprocess.
SuperviseAbort ==
    /\ ~ live
    /\ pc[Runner] \in AwaitPoint
    /\ Goto(Runner, "absent")
    /\ registry' = registry \ {guard[Runner]}
    /\ guard' = [guard EXCEPT ![Runner] = None]
    /\ run' = [run EXCEPT ![Runner] = None]
    /\ cloned' = {}
    /\ todo' = <<>>
    /\ runner_started' = None
    /\ orphans' = Abandoned({Runner})
    /\ gate_at' = None
    /\ fire' = None
    /\ UNCHANGED <<snap, now, live, enabled, budget, file, served, delivered,
                   ledger>>

RunnerStarts ==
    /\ pc[Runner] = "delay"
    /\ Goto(Runner, "idle")
    /\ runner_started' = now
    /\ UNCHANGED <<registry, cloned, todo, guard, run, snap, env, file,
                   history>>

-----------------------------------------------------------------------------
(* A scheduling pass (runner_pass).                                        *)

\* The entries that validate_job accepts.
Valid ==
    {j \in Job : /\ Config[j].runnable
                 /\ Config[j].schedule # None
                 /\ validate_after(j, After)}

\* The config is re-read, under the app-state lock, once a pass.
PassBegins ==
    /\ pc[Runner] = "idle"
    /\ live
    /\ cloned' = {j \in Job : enabled[j]}
    /\ todo' = Order
    /\ Goto(Runner, IF Order = <<>> THEN "idle" ELSE "check")
    /\ UNCHANGED <<registry, runner_started, guard, run, snap, env, file,
                   history>>

\* Go on to the next entry, or wait for the next tick.
NextEntry ==
    /\ todo' = Tail(todo)
    /\ cloned' = IF Tail(todo) = <<>> THEN {} ELSE cloned
    /\ Goto(Runner, IF Tail(todo) = <<>> THEN "idle" ELSE "check")
    /\ gate_at' = None
    /\ fire' = None

LastRun(records, j) == IF records[j] = None THEN None ELSE records[j].last_run

Due(j) ==
    is_due(Config[j].schedule, now, LastRun(file, j), runner_started)

\* Reads the store and the clock once, before any reservation.
Check ==
    LET j == Head(todo)
    IN  /\ pc[Runner] = "check"
        /\ \/ /\ ~ (j \in cloned \cap Valid /\ Due(j))
              /\ NextEntry
           \/ /\ j \in cloned \cap Valid
              /\ Due(j)
              /\ Goto(Runner,
                      IF Config[j].after = {} THEN "reserve" ELSE "gate")
              /\ fire' = IF Config[j].schedule.kind = "at"
                         THEN most_recent_fire(now, Config[j].schedule)
                         ELSE None
              /\ UNCHANGED <<cloned, todo, gate_at>>
        /\ UNCHANGED <<registry, runner_started, guard, run, snap, env, file,
                       served, delivered, ledger>>

Decide(j) ==
    served' = IF fire = None THEN served
              ELSE [served EXCEPT ![j] = Append(@, fire)]

\* The gate reads the whole store and the clock again.
Gate ==
    LET j == Head(todo)
        decision ==
            evaluate_gate(Config[j].after, Config[j].schedule, file, now)
    IN  /\ pc[Runner] = "gate"
        /\ \/ /\ decision = "ready"
              /\ Goto(Runner, "reserve")
              /\ gate_at' = now
              /\ UNCHANGED <<cloned, todo, run, fire, served>>
           \/ /\ decision = "blocked"
              /\ NextEntry
              /\ UNCHANGED <<run, served>>
           \/ /\ decision = "missed"
              /\ run' = [run EXCEPT ![Runner] =
                             [last_run |-> now, status |-> "missed"]]
              /\ Goto(Runner, "load")
              /\ Decide(j)
              /\ UNCHANGED <<cloned, todo, gate_at, fire>>
        /\ UNCHANGED <<registry, runner_started, guard, snap, env, file,
                       delivered, ledger>>

\* Mutant: the insert without the test.
begin_run_unchecked(p, j) ==
    /\ registry' = registry \cup {j}
    /\ guard' = [guard EXCEPT ![p] = j]

\* try_begin_run: test and insert under the registry's lock.
try_begin_run(p, j) ==
    /\ j \notin registry
    /\ registry' = registry \cup {j}
    /\ guard' = [guard EXCEPT ![p] = j]

Reserve ==
    LET j == Head(todo)
    IN  /\ pc[Runner] = "reserve"
        /\ \/ /\ j \in registry
              /\ NextEntry
              /\ UNCHANGED <<registry, guard, served>>
           \/ /\ try_begin_run(Runner, j)
              /\ Goto(Runner, "enter")
              /\ Decide(j)
              /\ UNCHANGED <<cloned, todo, gate_at, fire>>
        /\ UNCHANGED <<runner_started, run, snap, env, file, delivered, ledger>>

\* trigger_job: bypasses the schedule, the gate and `enabled`; the other
\* outcomes of a request (404, 409, not runnable) change nothing.
TriggerJob(m, j) ==
    /\ live
    /\ Config[j].runnable
    /\ pc[m] = "absent"
    /\ Spend("trigger")
    /\ try_begin_run(m, j)
    /\ Goto(m, "enter")
    /\ UNCHANGED <<runner_started, cloned, todo, run, snap, now, live,
                   enabled, orphans, file, history>>

-----------------------------------------------------------------------------
(* A run (execute_job), by the runner or a manual task.                    *)

\* Mutant: the reservation is not released.
LeaveReserved(p) ==
    /\ registry' = registry
    /\ guard' = [guard EXCEPT ![p] = None]
    /\ IF p = Runner
       THEN NextEntry
       ELSE Goto(p, "absent") /\ UNCHANGED <<cloned, todo, gate_at, fire>>

\* The guard is dropped; the runner goes on with its pass.
Leave(p) ==
    /\ registry' = registry \ {guard[p]}
    /\ guard' = [guard EXCEPT ![p] = None]
    /\ IF p = Runner
       THEN NextEntry
       ELSE Goto(p, "absent") /\ UNCHANGED <<cloned, todo, gate_at, fire>>

\* The vault was removed since scheduling: return without a trace.
EnterNoVault(p) ==
    /\ pc[p] = "enter"
    /\ ~ live
    /\ Leave(p)
    /\ UNCHANGED <<runner_started, run, snap, env, file, served, delivered,
                   ledger>>

\* Where a run goes once its subprocess is over.
AfterChild(j) == IF Config[j].success_when THEN "query" ELSE "load"

\* started_at is read, job.started emitted and the subprocess spawned; the
\* run goes straight to its verdict when it cannot be.
EnterSpawn(p) ==
    /\ pc[p] = "enter"
    /\ live
    /\ \E spawned \in BOOLEAN :
          /\ Goto(p, IF spawned THEN "child" ELSE AfterChild(guard[p]))
          /\ run' = [run EXCEPT ![p] = [last_run |-> now, status |-> "failed"]]
    /\ UNCHANGED <<registry, runner_started, cloned, todo, guard, snap, env,
                   file, history>>

\* Mutant: the raw outcome is taken for a status.
raw_status(outcome) == outcome

base_status(outcome) ==
    CASE outcome = "timed_out" -> "timed_out"
      [] outcome = "exit0" -> "succeeded"
      [] outcome = "exit_nonzero" -> "failed"

\* Mutant: layer A trusts the exit status.
trusting_outcome(status, j, writes) == status

\* Layer A: an exit-0 run of a write-tracked agent that wrote nothing.
refine_agent_outcome(status, j, writes) ==
    IF Config[j].allow_writes /\ status = "succeeded" /\ writes = 0
    THEN "no_writes"
    ELSE status

\* What a run must have done to count, for the history variable.
Delivers(j, outcome, writes) ==
    outcome = "exit0" /\ (Config[j].allow_writes => writes > 0)

Credit(p, ok) ==
    delivered' = IF ok
                 THEN [delivered EXCEPT ![guard[p]] = @ \cup {run[p].last_run}]
                 ELSE delivered

\* The subprocess ends, or is killed at its timeout; its write tally is taken.
Exit(p) ==
    LET j == guard[p]
    IN  /\ pc[p] = "child"
        /\ \E outcome \in Outcomes, writes \in 0..1 :
              /\ run' = [run EXCEPT ![p].status =
                      refine_agent_outcome(base_status(outcome), j, writes)]
              /\ Credit(p, /\ ~ Config[j].success_when
                           /\ Delivers(j, outcome, writes))
        /\ Goto(p, AfterChild(j))
        /\ UNCHANGED <<registry, runner_started, cloned, todo, guard, snap,
                       env, file, gate_at, fire, served, ledger>>

\* Results of a success_when query: an error, or so many rows and columns
\* with a first cell that is truthy or not.
QueryResult ==
    [error : {TRUE}] \cup
    [error : {FALSE}, rows : 0..2, columns : 1..2, truthy : BOOLEAN]

evaluate_success_when(result) ==
    IF result.error THEN "failed"
    ELSE LET satisfied == IF result.rows = 1 /\ result.columns = 1
                          THEN result.truthy
                          ELSE result.rows >= 1
         IN  IF satisfied THEN "succeeded" ELSE "failed"

\* The predicate holds of the index: a true scalar, or any other row.
PredicateHolds(result) ==
    /\ ~ result.error
    /\ result.rows > 0
    /\ result.columns = 1 /\ result.rows = 1 => result.truthy

\* Layer C overrides the verdict; a vault removed meanwhile fails the run.
Query(p) ==
    /\ pc[p] = "query"
    /\ \/ /\ live
          /\ \E result \in QueryResult :
                /\ run' = [run EXCEPT ![p].status =
                               evaluate_success_when(result)]
                /\ Credit(p, PredicateHolds(result))
       \/ /\ ~ live
          /\ run' = [run EXCEPT ![p].status = "failed"]
          /\ UNCHANGED delivered
    /\ Goto(p, "load")
    /\ UNCHANGED <<registry, runner_started, cloned, todo, guard, snap, env,
                   file, gate_at, fire, served, ledger>>

-----------------------------------------------------------------------------
(* JobStateStore::record: load, then std::fs::write, with no lock held.    *)

\* Mutant: a run that did not succeed forgets the last one that did.
EntryForgets(p, records) ==
    [last_run |-> run[p].last_run,
     status |-> run[p].status,
     last_success |-> IF run[p].status = "succeeded" THEN run[p].last_run
                      ELSE None]

\* The record to persist on top of the loaded records.
Entry(p, records) ==
    LET prior == records[JobOf(p)]
    IN  [last_run |-> run[p].last_run,
         status |-> run[p].status,
         last_success |-> IF run[p].status = "succeeded" THEN run[p].last_run
                          ELSE IF prior = None THEN None
                          ELSE prior.last_success]

Updated(p, records) == [records EXCEPT ![JobOf(p)] = Entry(p, records)]

\* What a faithful history would say of the run p records: its outcome, and
\* the last run of the job that delivered.
Latest(S) ==
    LET latest(t) == \A u \in S : u <= t
    IN  IF \E t \in S : latest(t) THEN CHOOSE t \in S : latest(t) ELSE None

Chronicle(p) ==
    [ledger EXCEPT ![JobOf(p)] =
        [last_run |-> run[p].last_run,
         status |-> run[p].status,
         last_success |-> Latest(delivered[JobOf(p)])]]

Load(p) ==
    /\ pc[p] = "load"
    /\ snap' = [snap EXCEPT ![p] = file]
    /\ Goto(p, "truncate")
    /\ UNCHANGED <<registry, runner_started, cloned, todo, guard, run, env,
                   file, history>>

\* fs::write opens the file with O_TRUNC: whoever loads now finds nothing.
Truncate(p) ==
    /\ pc[p] = "truncate"
    /\ file' = EmptyFile
    /\ Goto(p, "write")
    /\ UNCHANGED <<registry, runner_started, cloned, todo, guard, run, snap,
                   env, history>>

\* Back from record(): emit and drop the guard, or finish a missed fire.
Recorded(p) ==
    /\ snap' = [snap EXCEPT ![p] = EmptyFile]
    /\ run' = [run EXCEPT ![p] = None]
    /\ IF guard[p] # None
       THEN Goto(p, "finish") /\ UNCHANGED <<cloned, todo, gate_at, fire>>
       ELSE NextEntry

\* When another task has written since this one truncated, the longer text of
\* the other may stay behind this one's: the file no longer parses.
Write(p) ==
    /\ pc[p] = "write"
    /\ \/ file' = Updated(p, snap[p])
       \/ file # EmptyFile /\ file' = EmptyFile
    /\ ledger' = Chronicle(p)
    /\ Recorded(p)
    /\ UNCHANGED <<registry, runner_started, guard, env, served, delivered>>

\* The write fails (disk full, permissions) before or after truncating: the
\* error is logged and the run goes on as if it had been recorded.
WriteFails(p) ==
    /\ pc[p] \in {"truncate", "write"}
    /\ Spend("ioerror")
    /\ Recorded(p)
    /\ UNCHANGED <<registry, runner_started, guard, now, live, enabled, orphans,
                   file, served, delivered, ledger>>

\* The terminal job.* event is emitted and the reservation released.
Finish(p) ==
    /\ pc[p] = "finish"
    /\ Leave(p)
    /\ UNCHANGED <<runner_started, run, snap, env, file, served, delivered,
                   ledger>>

-----------------------------------------------------------------------------
RunStep(p) ==
    \/ EnterNoVault(p)
    \/ EnterSpawn(p)
    \/ Exit(p)
    \/ Query(p)
    \/ Load(p)
    \/ Truncate(p)
    \/ Write(p)
    \/ Finish(p)

RunnerStep == RunnerStarts \/ PassBegins \/ Check \/ Gate \/ Reserve

Supervisor == SuperviseSpawn \/ SuperviseAbort

Environment ==
    \/ Tick
    \/ RemoveVault
    \/ AddVault
    \/ Crash
    \/ \E j \in Job : ToggleEnabled(j) \/ OrphanExits(j)
    \/ \E m \in Manual, j \in Job : TriggerJob(m, j)
    \/ \E p \in Task : WriteFails(p)

Next ==
    \/ Environment
    \/ Supervisor
    \/ RunnerStep
    \/ \E p \in Task : RunStep(p)

Spec == Init /\ [][Next]_vars

(***************************************************************************)
(* Fairness: tokio polls every ready task, and the supervisor and the      *)
(* runner tick for the life of the daemon.  A subprocess ends, or its      *)
(* process group is killed at the timeout; assumed of the job is that no   *)
(* descendant leaves the group and holds its pipes open, for run_prepared  *)
(* reads them to their end.  Nothing is assumed of the clock, the operator *)
(* or the disk.                                                            *)
(***************************************************************************)
Fairness ==
    /\ WF_vars(Supervisor)
    /\ WF_vars(RunnerStep)
    /\ \A p \in Task : WF_vars(RunStep(p))

FairSpec == Spec /\ Fairness

-----------------------------------------------------------------------------
(* Properties.                                                             *)

\* The registry is exactly the jobs of the live RunGuards, no two guards are
\* for one job, and a task owns a guard while it executes and none while it
\* is away: no exit path (early return, abort, crash) leaks a reservation, and
\* none releases a reservation that another task holds.
ReservationExclusive ==
    /\ registry = {guard[p] : p \in Task} \ {None}
    /\ \A p, q \in Task : guard[p] = guard[q] /\ guard[p] # None => p = q
    /\ \A p \in Task : pc[p] \in Executing => guard[p] # None
    /\ \A p \in Task : pc[p] \in Away \cup Deciding => guard[p] = None

\* "a job never runs twice concurrently" (jobs/mod.rs): at most one live
\* subprocess of each job, counting those whose task is gone.
NeverConcurrently == \A j \in Job : Abandoned(Task)[j] <= 1

\* A scheduled run of a job with `after` is under way only if, on the day the
\* gate let it through, each prerequisite had a run that delivered: exit 0,
\* with a write if it is write-tracked, or a success_when that held.
PrereqsDelivered ==
    LET j == guard[Runner]
    IN  j # None /\ Config[j].after # {} =>
            LET tz == gate_timezone(Config[j].schedule)
            IN  \A a \in Config[j].after : \E t \in delivered[a] :
                    date_in_zone(t, tz) = date_in_zone(gate_at, tz)

\* Every last_success in the store, or in a copy of it on its way back to the
\* store, is the start of a run of that job that delivered, whatever failed,
\* raced or crashed since: `after` gates never trust an empty promise.
Trusted(records) ==
    \A j \in Job : records[j] # None /\ records[j].last_success # None =>
                      records[j].last_success \in delivered[j]

SuccessesDelivered == Trusted(file) /\ \A p \in Task : Trusted(snap[p])

\* "it never runs late on a following day" (jobs/gate.rs): a gated `at` job
\* runs only on the day of the fire that made it due.
NeverLate ==
    LET j == guard[Runner]
    IN  j # None /\ Config[j].after # {} /\ fire # None =>
            LET tz == gate_timezone(Config[j].schedule)
            IN  date_in_zone(fire, tz) = date_in_zone(gate_at, tz)

\* While no record() is in progress the file holds, for every job, its last run
\* or missed fire and the start of the last run of it that delivered, whatever
\* failed since ("the last success survives failures", jobs/state.rs).
DurableHistory == (\A p \in Task : pc[p] \notin Recording) => file = ledger

\* The runner decides each fire of an `at` job (runs it or records it missed)
\* at most once, and in order.
FiresDecidedOnce ==
    \A j \in Job : \A i, k \in 1..Len(served[j]) :
        i < k => served[j][i] < served[j][k]

\* A reservation is always released in the end: no job stays "running".
ReservationReleased == \A j \in Job : j \in registry ~> j \notin registry

Awake(j) == live /\ enabled[j] /\ runner_started # None

\* The jobs of a kind that wait for no prerequisite.
Ungated(kind) ==
    {j \in Valid : Config[j].after = {} /\ Config[j].schedule.kind = kind}

\* The fires of an `at` job within the time of the model.
FiresOf(j) ==
    {t \in Time : most_recent_fire(t, Config[j].schedule) = t}

\* A job that waits for no prerequisite is run, however long the daemon slept:
\* every fire of an `at` job since the runner started is answered by a run at
\* or after it, of this fire or of a later one it slept through to, and an
\* interval that has elapsed comes to an end, unless the job is disabled or the
\* vault removed.
CatchUp ==
    /\ \A j \in Ungated("every") :
          (Awake(j) /\ Due(j)) ~> ~ (Awake(j) /\ Due(j))
    /\ \A j \in Ungated("at") : \A f \in FiresOf(j) :
          (Awake(j) /\ runner_started < f /\ f <= now)
              ~> (~ Awake(j) \/ (file[j] # None /\ file[j].last_run >= f))

=============================================================================
