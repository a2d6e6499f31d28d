--------------------------- MODULE JobHistoryProofs ---------------------------
(***************************************************************************)
(* What the job runner's store and schedule promise while nothing disturbs *)
(* them.  The store has no lock and is not written atomically: with manual *)
(* triggers, crashes and failing disks its history does get lost.  These   *)
(* proofs show that nothing else loses it, for every list of jobs, every   *)
(* schedule and any number of passes, edits of the config and clock ticks. *)
(***************************************************************************)
EXTENDS JobRunnerProofs

\* No manual trigger, no crash and no failed write ever happens ...
Undisturbed ==
    \A b \in Budget : b["trigger"] = 0 /\ b["crash"] = 0 /\ b["ioerror"] = 0

\* ... and the vault stays where it is.
Resident == \A b \in Budget : b["remove"] = 0

(***************************************************************************)
(* The runner is the only task there is.                                   *)
(***************************************************************************)
Alone ==
    /\ budget["trigger"] = 0 /\ budget["crash"] = 0 /\ budget["ioerror"] = 0
    /\ \A m \in Manual : pc[m] = "absent"

(***************************************************************************)
(* Where the history is at each step of record().                          *)
(***************************************************************************)
FileExact ==
    /\ pc[Runner] # "write" => file = ledger
    /\ pc[Runner] = "write" => file = EmptyFile
    /\ pc[Runner] \in {"truncate", "write"} => snap[Runner] = ledger

LastSuccess(j) == IF ledger[j] = None THEN None ELSE ledger[j].last_success

\* The runner is about to record that job j succeeded.
Announces(j) ==
    /\ pc[Runner] \in Recording
    /\ run[Runner].status = "succeeded"
    /\ guard[Runner] = j

SuccessExact ==
    \A j \in Job :
        ~ Announces(j) => Latest(delivered[j]) = LastSuccess(j)

\* Runs deliver in the order of their starts.
Running == {"child", "query"} \cup Recording

Chronological ==
    /\ pc[Runner] \in Running => run[Runner].last_run <= now
    /\ \A j \in Job : \A t \in delivered[j] :
          t <= now /\ (pc[Runner] \in Running => t <= run[Runner].last_run)

(***************************************************************************)
(* The fires that were decided are answered by the record of the job, or   *)
(* will be by the run that is under way.                                   *)
(***************************************************************************)
Occupied(j) == pc[Runner] \in {"enter"} \cup Running /\ JobOf(Runner) = j

Answered ==
    \A j \in Job : \A i \in 1..Len(served[j]) :
        /\ served[j][i] <= now
        /\ Occupied(j) /\ pc[Runner] # "enter" =>
               served[j][i] <= run[Runner].last_run
        /\ ~ Occupied(j) =>
               ledger[j] # None /\ served[j][i] <= ledger[j].last_run

FirePending ==
    /\ live
    /\ budget["remove"] = 0
    /\ fire # None => fire <= now
    /\ pc[Runner] \in {"gate", "reserve"} /\ fire # None =>
           \A i \in 1..Len(served[Head(todo)]) : served[Head(todo)][i] < fire

-----------------------------------------------------------------------------
(* Operators.                                                              *)

\* The latest of the runs that delivered is the one no other is later than.
LEMMA LatestIs ==
    ASSUME NEW S \in SUBSET Time, NEW t \in S, \A u \in S : u <= t
    PROVE  Latest(S) = t
<1> DEFINE latest(x) == \A u \in S : u <= x
<1>1. latest(t)
  OBVIOUS
<1>2. Latest(S) = CHOOSE x \in S : latest(x)
  BY <1>1 DEF Latest
<1>3. Latest(S) \in S /\ latest(Latest(S))
  BY <1>1, <1>2
<1>4. Latest(S) <= t /\ t <= Latest(S)
  BY <1>3
<1>5. Latest(S) \in Int /\ t \in Int
  <2>1. Time \subseteq Int
    BY ScheduleAssumption DEF Time
  <2>2. Latest(S) \in S
    BY <1>3
  <2> QED
    BY <2>1, <2>2
<1> QED
  BY <1>4, <1>5

\* The fire a job is due for is in the past.
LEMMA FireIsPast ==
    ASSUME NEW t \in Int, NEW s \in AtSchedule, most_recent_fire(t, s) # None
    PROVE  most_recent_fire(t, s) <= t
<1> DEFINE today == date_in_zone(t, s.timezone)
           fire_(d) == fire_on(today - d, s)
           good(d) == fire_(d) # None /\ fire_(d) <= t
           least(d) == good(d) /\ \A e \in SearchDays : e < d => ~ good(e)
           hit == First(SearchDays, good)
<1>1. most_recent_fire(t, s) = IF hit = None THEN None ELSE fire_(hit)
  BY DEF most_recent_fire
<1>2. hit # None
  BY <1>1
<1>3. good(hit)
  <2>1. hit = IF \E d \in SearchDays : least(d)
              THEN CHOOSE d \in SearchDays : least(d) ELSE None
    BY DEF First
  <2> HIDE DEF hit, good
  <2> QED
    BY <1>2, <2>1
<1> QED
  BY <1>1, <1>2, <1>3

-----------------------------------------------------------------------------
(* The steps that are left.                                                *)

LEMMA AloneInit ==
    ASSUME Undisturbed, Init
    PROVE  Alone
  BY RunnerAssumption DEF Undisturbed, Init, Alone, Task

LEMMA AloneNext ==
    ASSUME Alone, TypeOK, [Next]_vars
    PROVE  \/ UNCHANGED vars
           \/ Tick \/ RemoveVault \/ AddVault
           \/ \E j \in Job : ToggleEnabled(j) \/ OrphanExits(j)
           \/ Supervisor \/ RunnerStep \/ RunStep(Runner)
<1>1. ~ Crash /\ \A p \in Task : ~ WriteFails(p)
  BY DEF Alone, Crash, WriteFails, Spend
<1>2. \A m \in Manual, j \in Job : ~ TriggerJob(m, j)
  BY DEF Alone, TriggerJob, Spend
<1>3. \A m \in Manual : ~ RunStep(m)
  BY DEF Alone, RunStep, EnterNoVault, EnterSpawn, Exit, Query, Load, Truncate,
         Write, Finish
<1> QED
  BY <1>1, <1>2, <1>3 DEF Next, Environment, Task

LEMMA AloneStep ==
    ASSUME Alone, TypeOK, Shape, [Next]_vars
    PROVE  Alone'
<1> USE DEF daemon, env
<1>0. Runner \notin Manual /\ Runner \in Task
  BY RunnerAssumption DEF Task
<1>1. \A f \in {"trigger", "crash", "ioerror"} : budget'[f] = 0
  <2>1. CASE UNCHANGED budget
    BY <2>1 DEF Alone
  <2>2. ASSUME NEW g \in {"toggle", "remove"}, Spend(g)
        PROVE  \A f \in {"trigger", "crash", "ioerror"} : budget'[f] = 0
    BY <2>2 DEF Alone, Spend, TypeOK, Faults
  <2>3. UNCHANGED budget \/ Spend("toggle") \/ Spend("remove")
    <3>1. CASE UNCHANGED vars
      BY <3>1 DEF vars
    <3>2. CASE Tick \/ RemoveVault \/ AddVault
      BY <3>2 DEF Tick, RemoveVault, AddVault
    <3>3. ASSUME NEW j \in Job, ToggleEnabled(j) \/ OrphanExits(j)
          PROVE  UNCHANGED budget \/ Spend("toggle")
      BY <3>3 DEF ToggleEnabled, OrphanExits
    <3>4. CASE Supervisor
      BY <3>4 DEF Supervisor, SuperviseSpawn, SuperviseAbort
    <3>5. CASE RunnerStep
      BY <3>5, Zenon DEF RunnerStep, RunnerStarts, PassBegins, Check, Gate, Reserve
    <3>6. CASE RunStep(Runner)
      BY <3>6, Zenon DEF RunStep, EnterNoVault, EnterSpawn, Exit, Query, Load,
                  Truncate, Write, Finish
    <3> QED
      BY <3>1, <3>2, <3>3, <3>4, <3>5, <3>6, AloneNext
  <2> QED
    BY <2>1, <2>2, <2>3
<1>2. \A m \in Manual : pc'[m] = pc[m]
  <2>0. \A m \in Manual : m \in Task /\ m # Runner
    BY <1>0 DEF Task
  <2>1. CASE UNCHANGED pc
    BY <2>1
  <2>2. ASSUME NEW ph, Goto(Runner, ph)
        PROVE  \A m \in Manual : pc'[m] = pc[m]
    BY <2>0, <2>2 DEF Goto, TypeOK
  <2>3. UNCHANGED pc \/ \E ph : Goto(Runner, ph)
    <3>1. CASE UNCHANGED vars
      BY <3>1 DEF vars
    <3>2. CASE Tick \/ RemoveVault \/ AddVault
      BY <3>2 DEF Tick, RemoveVault, AddVault
    <3>3. ASSUME NEW j \in Job, ToggleEnabled(j) \/ OrphanExits(j)
          PROVE  UNCHANGED pc
      BY <3>3 DEF ToggleEnabled, OrphanExits
    <3>4. CASE Supervisor
      BY <3>4, Zenon DEF Supervisor, SuperviseSpawn, SuperviseAbort
    <3>5. CASE RunnerStep
      BY <3>5, Zenon DEF RunnerStep, RunnerStarts, PassBegins, Check, Gate, Reserve,
                  NextEntry
    <3>6. CASE RunStep(Runner)
      BY <3>6, Zenon DEF RunStep, EnterNoVault, EnterSpawn, Exit, Query, Load,
                  Truncate, Write, Finish, Leave, Recorded, NextEntry
    <3> QED
      BY <3>1, <3>2, <3>3, <3>4, <3>5, <3>6, AloneNext
  <2> QED
    BY <2>1, <2>2, <2>3
<1> QED
  BY <1>1, <1>2 DEF Alone

-----------------------------------------------------------------------------
(* The history in the file.                                                *)

History == FileExact /\ SuccessExact /\ Chronological

\* A step outside record() that makes no verdict and starts no run.
LEMMA HistoryQuiet ==
    ASSUME TypeOK, Shape, History, UNCHANGED <<file, ledger, delivered>>,
           now' \in Int, now <= now',
           pc[Runner] \notin Recording, pc'[Runner] \notin Recording,
           pc'[Runner] \in Running =>
               pc[Runner] \in Running /\ run'[Runner] = run[Runner]
    PROVE  History'
<1>1. FileExact'
  BY DEF History, FileExact, Recording
<1>2. SuccessExact'
  BY DEF History, SuccessExact, Announces, LastSuccess
<1>3. Chronological'
  <2>1. \A j \in Job : \A t \in delivered[j] : t \in Int
    BY ScheduleAssumption DEF TypeOK, Time
  <2>2. now \in Int
    BY ScheduleAssumption DEF TypeOK, Time
  <2>3. pc[Runner] \in Running => run[Runner].last_run \in Int
    BY ScheduleAssumption DEF Running, Shape, RunRecord, Time, Task
  <2> QED
    BY <2>1, <2>2, <2>3 DEF History, Chronological
<1> QED
  BY <1>1, <1>2, <1>3 DEF History

\* A step that leaves the runner where it is.
LEMMA HistoryStill ==
    ASSUME TypeOK, Shape, History, now' \in Int, now <= now',
           UNCHANGED <<file, ledger, delivered, pc, run, guard, snap>>
    PROVE  History'
<1>1. FileExact'
  BY DEF History, FileExact
<1>2. SuccessExact'
  BY DEF History, SuccessExact, Announces, LastSuccess
<1>3. Chronological'
  <2>1. \A j \in Job : \A t \in delivered[j] : t \in Int
    BY ScheduleAssumption DEF TypeOK, Time
  <2>2. now \in Int
    BY ScheduleAssumption DEF TypeOK, Time
  <2>3. pc[Runner] \in Running => run[Runner].last_run \in Int
    BY ScheduleAssumption DEF Running, Shape, RunRecord, Time, Task
  <2> QED
    BY <2>1, <2>2, <2>3 DEF History, Chronological
<1> QED
  BY <1>1, <1>2, <1>3 DEF History

\* A verdict is "succeeded" exactly when the run is credited.
LEMMA VerdictExact ==
    ASSUME TypeOK, NEW p \in Task, guard[p] \in Job, run[p] \in RunRecord,
           Exit(p) \/ Query(p)
    PROVE  /\ run'[p].last_run = run[p].last_run
           /\ \/ /\ UNCHANGED delivered
                 /\ pc'[p] \in Recording => run'[p].status # "succeeded"
              \/ /\ delivered' = [delivered EXCEPT ![guard[p]] =
                                      @ \cup {run[p].last_run}]
                 /\ pc'[p] \in Recording
                 /\ run'[p].status = "succeeded"
<1> DEFINE job == guard[p]
<1>1. CASE Exit(p)
  <2>1. PICK outcome \in Outcomes, writes \in 0..1 :
           /\ run' = [run EXCEPT ![p].status =
                         refine_agent_outcome(base_status(outcome), job, writes)]
           /\ Credit(p, ~ Config[job].success_when /\ Delivers(job, outcome, writes))
    BY <1>1, Zenon DEF Exit
  <2>2. /\ run'[p].status = refine_agent_outcome(base_status(outcome), job, writes)
        /\ run'[p].last_run = run[p].last_run
    BY <2>1 DEF TypeOK, RunRecord
  <2>3. pc'[p] \in Recording <=> ~ Config[job].success_when
    BY <1>1 DEF Exit, Goto, AfterChild, TypeOK, Recording
  <2>4. Delivers(job, outcome, writes) <=>
            refine_agent_outcome(base_status(outcome), job, writes) = "succeeded"
    BY RunnerAssumption DEF refine_agent_outcome, base_status, Delivers
  <2>5. CASE ~ Config[job].success_when /\ Delivers(job, outcome, writes)
    BY <2>1, <2>2, <2>3, <2>4, <2>5 DEF Credit
  <2>6. CASE ~ (~ Config[job].success_when /\ Delivers(job, outcome, writes))
    BY <2>1, <2>2, <2>3, <2>4, <2>6 DEF Credit
  <2> QED
    BY <2>5, <2>6
<1>2. CASE Query(p)
  <2>0. pc'[p] \in Recording
    BY <1>2 DEF Query, Goto, TypeOK, Recording
  <2>1. CASE run' = [run EXCEPT ![p].status = "failed"] /\ UNCHANGED delivered
    BY <2>1 DEF TypeOK, RunRecord
  <2>2. CASE \E result \in QueryResult :
                /\ run' = [run EXCEPT ![p].status = evaluate_success_when(result)]
                /\ Credit(p, PredicateHolds(result))
    <3>1. PICK result \in QueryResult :
             /\ run' = [run EXCEPT ![p].status = evaluate_success_when(result)]
             /\ Credit(p, PredicateHolds(result))
      BY <2>2
    <3>2. /\ run'[p].status = evaluate_success_when(result)
          /\ run'[p].last_run = run[p].last_run
      BY <3>1 DEF TypeOK, RunRecord
    <3>3. PredicateHolds(result) <=> evaluate_success_when(result) = "succeeded"
      <4>1. CASE result.error
        BY <4>1 DEF PredicateHolds, evaluate_success_when
      <4>2. CASE ~ result.error
        <5>1. result.rows \in 0..2
          BY <4>2 DEF QueryResult
        <5> QED
          BY <4>2, <5>1 DEF PredicateHolds, evaluate_success_when
      <4> QED
        BY <4>1, <4>2
    <3>4. CASE PredicateHolds(result)
      BY <2>0, <3>1, <3>2, <3>3, <3>4 DEF Credit
    <3>5. CASE ~ PredicateHolds(result)
      BY <3>1, <3>2, <3>3, <3>5 DEF Credit
    <3> QED
      BY <3>4, <3>5
  <2> QED
    BY <1>2, <2>1, <2>2, Zenon DEF Query
<1> QED
  BY <1>1, <1>2

\* The record the runner writes is what the history variable says.
LEMMA WriteExact ==
    ASSUME TypeOK, Shape, History, VerdictsDelivered, pc[Runner] = "write"
    PROVE  Updated(Runner, snap[Runner]) = Chronicle(Runner)
<1> DEFINE j == JobOf(Runner)
<1>0. Runner \in Task /\ pc[Runner] \in Recording
  BY DEF Task, Recording
<1>1. j \in Job /\ run[Runner] \in RunRecord
  BY <1>0, JobOfType DEF Shape
<1>2. snap[Runner] = ledger
  BY DEF History, FileExact
<1>3. Entry(Runner, ledger).last_success = Latest(delivered[j])
  <2>1. CASE run[Runner].status = "succeeded"
    <3>1. guard[Runner] # None /\ run[Runner].last_run \in delivered[guard[Runner]]
      BY <1>0, <2>1 DEF VerdictsDelivered
    <3>2. guard[Runner] = j
      BY <3>1 DEF JobOf
    <3>3. \A u \in delivered[j] : u <= run[Runner].last_run
      BY <1>0, <1>1 DEF History, Chronological, Running
    <3>4. delivered[j] \in SUBSET Time
      BY <1>1 DEF TypeOK
    <3>5. Latest(delivered[j]) = run[Runner].last_run
      BY <3>1, <3>2, <3>3, <3>4, LatestIs
    <3> QED
      BY <2>1, <3>5 DEF Entry
  <2>2. CASE run[Runner].status # "succeeded"
    <3>1. Latest(delivered[j]) = LastSuccess(j)
      BY <1>1, <2>2 DEF History, SuccessExact, Announces
    <3> QED
      BY <2>2, <3>1 DEF Entry, LastSuccess
  <2> QED
    BY <2>1, <2>2
<1>4. Entry(Runner, ledger) = [last_run |-> run[Runner].last_run,
                               status |-> run[Runner].status,
                               last_success |-> Latest(delivered[j])]
  BY <1>3 DEF Entry
<1> QED
  BY <1>2, <1>4 DEF Updated, Chronicle

LEMMA HistoryByWrite ==
    ASSUME TypeOK, Shape, History, VerdictsDelivered, Write(Runner)
    PROVE  History'
<1> USE DEF env
<1>0. Runner \in Task /\ pc[Runner] = "write" /\ pc[Runner] \in Recording
  BY DEF Write, Task, Recording
<1>1. /\ file' = ledger' /\ ledger' = Chronicle(Runner)
      /\ UNCHANGED <<delivered, now>> /\ Recorded(Runner)
  BY <1>0, WriteExact DEF Write, History, FileExact
<1>2. pc'[Runner] \notin Recording /\ pc'[Runner] \notin Running
  <2>1. pc'[Runner] \in {"finish", "idle", "check"}
    BY <1>0, <1>1, RecordedEffect
  <2> QED
    BY <2>1 DEF Recording, Running
<1>3. FileExact'
  BY <1>1, <1>2 DEF FileExact, Recording
<1>4. SuccessExact'
  <2> SUFFICES ASSUME NEW j \in Job
               PROVE  Latest(delivered[j]) = LastSuccess(j)'
    BY <1>1 DEF SuccessExact
  <2>1. CASE j = JobOf(Runner)
    <3>1. ledger'[j] # None
      <4>1. /\ Latest(delivered[j]) \in Time \cup {None}
            /\ run[Runner] \in RunRecord
        BY <1>0 DEF Latest, TypeOK, Shape
      <4>2. ledger'[j] \in Record
        BY <1>1, <2>1, <4>1 DEF Chronicle, Record, RunRecord, TypeOK
      <4> QED
        BY <4>2, RunnerAssumption
    <3> QED
      BY <1>1, <2>1, <3>1 DEF Chronicle, LastSuccess, TypeOK
  <2>2. CASE j # JobOf(Runner)
    <3>1. ledger'[j] = ledger[j]
      BY <1>1, <2>2 DEF Chronicle, TypeOK
    <3>2. ~ Announces(j)
      BY <2>2, RunnerAssumption DEF Announces, JobOf
    <3> QED
      BY <3>1, <3>2 DEF History, SuccessExact, LastSuccess
  <2> QED
    BY <2>1, <2>2
<1>5. Chronological'
  BY <1>1, <1>2 DEF History, Chronological
<1> QED
  BY <1>3, <1>4, <1>5 DEF History

LEMMA HistoryByVerdict ==
    ASSUME TypeOK, Shape, History, Exit(Runner) \/ Query(Runner)
    PROVE  History'
<1> USE DEF env
<1>0. Runner \in Task /\ pc[Runner] \in {"child", "query"}
  BY DEF Exit, Query, Task
<1> DEFINE job == guard[Runner]
           t0 == run[Runner].last_run
<1>1. job \in Job /\ run[Runner] \in RunRecord /\ t0 \in Time
  BY <1>0 DEF TypeOK, Shape, Executing, RunRecord
<1>2. UNCHANGED <<file, snap, guard, ledger, now>>
  BY DEF Exit, Query
<1>3. /\ run'[Runner].last_run = t0
      /\ \/ /\ UNCHANGED delivered
            /\ pc'[Runner] \in Recording => run'[Runner].status # "succeeded"
         \/ /\ delivered' = [delivered EXCEPT ![job] = @ \cup {t0}]
            /\ pc'[Runner] \in Recording
            /\ run'[Runner].status = "succeeded"
  BY <1>0, <1>1, VerdictExact
<1>4. pc'[Runner] \in {"query", "load"}
  BY DEF Exit, Query, Goto, AfterChild, TypeOK, Task
<1>5. FileExact'
  BY <1>0, <1>2, <1>4 DEF History, FileExact
<1>6. SuccessExact'
  <2> SUFFICES ASSUME NEW j \in Job, ~ Announces(j)'
               PROVE  Latest(delivered'[j]) = LastSuccess(j)'
    BY DEF SuccessExact
  <2>1. delivered'[j] = delivered[j]
    BY <1>1, <1>2, <1>3 DEF Announces, TypeOK
  <2>2. ~ Announces(j)
    BY <1>0 DEF Announces, Recording
  <2> QED
    BY <1>2, <2>1, <2>2 DEF History, SuccessExact, LastSuccess
<1>7. Chronological'
  <2>1. t0 <= now
    BY <1>0 DEF History, Chronological, Running
  <2>2. \A j \in Job : delivered'[j] \subseteq delivered[j] \cup {t0}
    BY <1>1, <1>3 DEF TypeOK
  <2>3. \A j \in Job : \A t \in delivered[j] : t <= now /\ t <= t0
    BY <1>0 DEF History, Chronological, Running
  <2>4. t0 <= t0
    BY <1>1, ScheduleAssumption DEF Time
  <2> QED
    BY <1>2, <1>3, <2>1, <2>2, <2>3, <2>4 DEF Chronological
<1> QED
  BY <1>5, <1>6, <1>7 DEF History

LEMMA HistoryStep ==
    ASSUME TypeOK, Shape, VerdictsDelivered, Alone, History, [Next]_vars, TypeOK'
    PROVE  History'
<1> USE DEF daemon, env, history
<1>0. Runner \in Task /\ now \in Int /\ now' \in Int /\ now <= now
  BY ScheduleAssumption DEF Task, TypeOK, Time
<1>1. CASE UNCHANGED vars
  BY <1>0, <1>1, HistoryStill DEF vars
<1>2. CASE Tick
  BY <1>0, <1>2, HistoryStill DEF Tick
<1>3. CASE RemoveVault \/ AddVault
  BY <1>0, <1>3, HistoryStill DEF RemoveVault, AddVault
<1>4. ASSUME NEW j \in Job, ToggleEnabled(j) \/ OrphanExits(j)
      PROVE  History'
  BY <1>0, <1>4, HistoryStill DEF ToggleEnabled, OrphanExits
<1>5. CASE Supervisor
  <2>1. pc[Runner] \notin Recording /\ pc'[Runner] \in {"delay", "absent"}
    BY <1>0, <1>5 DEF Supervisor, SuperviseSpawn, SuperviseAbort, Goto, TypeOK,
                      AwaitPoint, Recording
  <2>2. UNCHANGED <<file, ledger, delivered, now>>
    BY <1>5 DEF Supervisor, SuperviseSpawn, SuperviseAbort
  <2> QED
    BY <1>0, <2>1, <2>2, HistoryQuiet DEF Recording, Running
<1>6. CASE RunnerStarts \/ PassBegins \/ Check \/ Reserve
  <2>1. pc[Runner] \notin Recording
    BY <1>6 DEF RunnerStarts, PassBegins, Check, Reserve, Recording
  <2>2. pc'[Runner] \in Away \cup Deciding \cup {"enter"}
    BY <1>0, <1>6 DEF RunnerStarts, PassBegins, Check, Reserve, Goto, NextEntry,
                      TypeOK, Away, Deciding
  <2>3. UNCHANGED <<file, ledger, delivered, now>>
    BY <1>6 DEF RunnerStarts, PassBegins, Check, Reserve
  <2> QED
    BY <1>0, <2>1, <2>2, <2>3, HistoryQuiet DEF Recording, Running, Away, Deciding
<1>7. CASE Gate
  <2>1. UNCHANGED <<file, ledger, delivered, now, guard>>
    BY <1>7 DEF Gate
  <2>2. pc[Runner] = "gate" /\ pc[Runner] \notin Recording
    BY <1>7 DEF Gate, Recording
  <2>3. CASE pc'[Runner] \notin Running
    BY <1>0, <2>1, <2>2, <2>3, HistoryQuiet DEF Running
  <2>4. CASE pc'[Runner] \in Running
    <3>1. /\ pc'[Runner] = "load"
          /\ run'[Runner] = [last_run |-> now, status |-> "missed"]
      BY <1>0, <1>7, <2>4 DEF Gate, Goto, NextEntry, TypeOK, Running, Recording
    <3>2. FileExact'
      BY <2>1, <2>2, <3>1 DEF History, FileExact
    <3>3. SuccessExact'
      BY <2>1, <2>2, <3>1 DEF History, SuccessExact, Announces, LastSuccess,
                               Recording
    <3>4. Chronological'
      BY <1>0, <2>1, <3>1 DEF History, Chronological
    <3> QED
      BY <3>2, <3>3, <3>4 DEF History
  <2> QED
    BY <2>3, <2>4
<1>8. CASE EnterNoVault(Runner) \/ Finish(Runner)
  <2>1. /\ pc[Runner] \in Executing /\ pc[Runner] \notin Recording
        /\ Leave(Runner) /\ UNCHANGED <<file, ledger, delivered, now>>
    BY <1>8 DEF EnterNoVault, Finish, Executing, Recording
  <2>2. pc'[Runner] \in {"idle", "check"}
    BY <1>0, <2>1, LeaveEffect
  <2> QED
    BY <1>0, <2>1, <2>2, HistoryQuiet DEF Recording, Running
<1>9. CASE EnterSpawn(Runner)
  <2>1. /\ pc[Runner] = "enter" /\ pc[Runner] \notin Recording
        /\ pc'[Runner] \in {"child", "query", "load"}
        /\ run'[Runner] = [last_run |-> now, status |-> "failed"]
    BY <1>0, <1>9 DEF EnterSpawn, Goto, AfterChild, TypeOK, Recording
  <2>2. UNCHANGED <<file, ledger, delivered, now, guard>>
    BY <1>9 DEF EnterSpawn
  <2>3. FileExact'
    BY <2>1, <2>2 DEF History, FileExact
  <2>4. SuccessExact'
    BY <2>1, <2>2 DEF History, SuccessExact, Announces, LastSuccess
  <2>5. Chronological'
    BY <1>0, <2>1, <2>2 DEF History, Chronological
  <2> QED
    BY <2>3, <2>4, <2>5 DEF History
<1>10. CASE Exit(Runner) \/ Query(Runner)
  BY <1>10, HistoryByVerdict
<1>11. CASE Load(Runner)
  <2>1. /\ pc[Runner] = "load" /\ pc'[Runner] = "truncate"
        /\ snap'[Runner] = file
        /\ UNCHANGED <<file, ledger, delivered, now, guard, run>>
    BY <1>0, <1>11 DEF Load, Goto, TypeOK
  <2>2. FileExact'
    BY <2>1 DEF History, FileExact
  <2>3. SuccessExact' /\ Chronological'
    BY <2>1 DEF History, SuccessExact, Announces, LastSuccess, Chronological,
                Running, Recording
  <2> QED
    BY <2>2, <2>3 DEF History
<1>12. CASE Truncate(Runner)
  <2>1. /\ pc[Runner] = "truncate" /\ pc'[Runner] = "write"
        /\ file' = EmptyFile
        /\ UNCHANGED <<snap, ledger, delivered, now, guard, run>>
    BY <1>0, <1>12 DEF Truncate, Goto, TypeOK
  <2>2. FileExact'
    BY <2>1 DEF History, FileExact
  <2>3. SuccessExact' /\ Chronological'
    BY <2>1 DEF History, SuccessExact, Announces, LastSuccess, Chronological,
                Running, Recording
  <2> QED
    BY <2>2, <2>3 DEF History
<1>13. CASE Write(Runner)
  BY <1>13, HistoryByWrite
<1> QED
  BY <1>1, <1>2, <1>3, <1>4, <1>5, <1>6, <1>7, <1>8, <1>9, <1>10, <1>11, <1>12,
     <1>13, AloneNext DEF RunnerStep, RunStep

LEMMA HistoryInit == Init => History
<1> SUFFICES ASSUME Init PROVE History
  OBVIOUS
<1>1. pc[Runner] = "absent" /\ file = ledger /\ \A j \in Job : delivered[j] = {} /\ ledger[j] = None
  BY DEF Init, Task, EmptyFile
<1>2. Latest({}) = None
  BY DEF Latest
<1> QED
  BY <1>1, <1>2 DEF History, FileExact, SuccessExact, Chronological, LastSuccess,
                    Running, Recording

\* Nothing but manual triggers, crashes and failed writes makes the store lose
\* or falsify history: whenever no record() is in progress the file holds every
\* job's last run and last success, for any jobs, passes, verdicts, config
\* edits and removals of the vault (the abort of a runner at an await point
\* included).
THEOREM HistoryIsDurable ==
    ASSUME Undisturbed
    PROVE  Spec => []DurableHistory
<1> DEFINE Inv == TypeOK /\ Shape /\ Sound /\ Alone /\ History
<1>1. Init => Inv
  <2>1. Init => Sound
    BY DEF Init, Sound, SuccessesDelivered, VerdictsDelivered, Trusted,
           EmptyFile, Recording
  <2> QED
    BY <2>1, InitType, AloneInit, HistoryInit
<1>2. Inv /\ [Next]_vars => Inv'
  BY TypeStep, SoundStep, AloneStep, HistoryStep DEF Sound
<1>3. Inv => DurableHistory
  BY DEF History, FileExact, DurableHistory, Recording, Task
<1> QED
  BY <1>1, <1>2, <1>3, PTL DEF Spec

-----------------------------------------------------------------------------
(* The fires the runner decides.                                           *)

Decisions == Answered /\ FirePending /\ FiresDecidedOnce

LEMMA ResidentInit ==
    ASSUME Resident, Init
    PROVE  Decisions
  BY DEF Resident, Init, Decisions, Answered, FirePending, FiresDecidedOnce

\* The times that the fires are compared with.
LEMMA Instants ==
    ASSUME TypeOK, Shape
    PROVE  /\ now \in Int
           /\ \A j \in Job : ledger[j] # None => ledger[j].last_run \in Int
           /\ pc[Runner] \in Running => run[Runner].last_run \in Int
           /\ \A j \in Job : \A i \in 1..Len(served[j]) : served[j][i] \in Int
<1>1. Time \subseteq Int
  BY ScheduleAssumption DEF Time
<1>2. \A j \in Job : ledger[j] # None => ledger[j].last_run \in Time
  BY DEF TypeOK, Record
<1>3. pc[Runner] \in Running => run[Runner].last_run \in Time
  BY DEF Running, Shape, RunRecord, Task
<1>4. \A j \in Job : served[j] \in Seq(Int)
  BY DEF TypeOK
<1>5. \A j \in Job : \A i \in 1..Len(served[j]) : served[j][i] \in Int
  BY <1>4
<1> QED
  BY <1>1, <1>2, <1>3, <1>5 DEF TypeOK

\* A step that decides nothing, records nothing and gives up no run: a run
\* that begins, begins now.
LEMMA AnsweredKept ==
    ASSUME TypeOK, Shape, Answered, now' \in Int, now <= now',
           UNCHANGED <<served, ledger>>,
           \A j \in Job : Occupied(j) => Occupied(j)',
           pc'[Runner] \in Running =>
               \/ /\ pc[Runner] \in Running
                  /\ JobOf(Runner)' = JobOf(Runner)
                  /\ run'[Runner].last_run = run[Runner].last_run
               \/ run'[Runner].last_run = now
    PROVE  Answered'
<1> SUFFICES ASSUME NEW j \in Job, NEW i \in 1..Len(served[j])
             PROVE  /\ served[j][i] <= now'
                    /\ Occupied(j)' /\ pc'[Runner] # "enter" =>
                           served[j][i] <= run'[Runner].last_run
                    /\ ~ Occupied(j)' =>
                           ledger[j] # None /\ served[j][i] <= ledger[j].last_run
  BY DEF Answered
<1>1. now \in Int /\ served[j][i] \in Int
  BY Instants
<1>2. served[j][i] <= now'
  BY <1>1 DEF Answered
<1>3. Occupied(j)' /\ pc'[Runner] # "enter" => served[j][i] <= run'[Runner].last_run
  BY <1>1 DEF Answered, Occupied, Running, Recording
<1> QED
  BY <1>2, <1>3 DEF Answered

LEMMA PendingKept ==
    ASSUME TypeOK, FirePending, now' \in Int, now <= now',
           UNCHANGED <<served, live>>, budget'["remove"] = 0,
           \/ fire' = None
           \/ fire' = fire /\ \/ pc'[Runner] \notin {"gate", "reserve"}
                              \/ pc[Runner] \in {"gate", "reserve"} /\ todo' = todo
    PROVE  FirePending'
<1>1. now \in Int /\ fire \in Int \cup {None}
  BY ScheduleAssumption DEF TypeOK, Time
<1> QED
  BY <1>1 DEF FirePending

\* A fire is decided after all that were decided before, by a run or a record
\* that begins now.
LEMMA DecisionMade ==
    ASSUME TypeOK, Shape, Decisions, pc[Runner] \in {"gate", "reserve"},
           UNCHANGED <<ledger, now, live, budget, fire>>, Decide(Head(todo)),
           JobOf(Runner)' = Head(todo),
           \/ pc'[Runner] = "enter"
           \/ pc'[Runner] = "load" /\ run'[Runner].last_run = now
    PROVE  Decisions'
<1> DEFINE job == Head(todo)
<1>0. job \in Job /\ todo # <<>>
  BY DEF TypeOK, Shape, Away
<1>1. \A j \in Job : ~ Occupied(j)
  BY DEF Occupied, Running, Recording
<1>2. \A j \in Job : Occupied(j)' <=> j = job
  BY DEF Occupied, Running, Recording
<1>3. now \in Int /\ now <= now /\ fire \in Int \cup {None}
  BY ScheduleAssumption DEF TypeOK, Time
<1>4. fire # None => fire <= now /\ \A i \in 1..Len(served[job]) : served[job][i] < fire
  BY DEF Decisions, FirePending
<1>5. \A j \in Job : served[j] \in Seq(Int)
  BY DEF TypeOK
<1>6. \A j \in Job : j # job => served'[j] = served[j]
  BY DEF Decide, TypeOK
<1>7. \/ served'[job] = served[job]
      \/ fire # None /\ served'[job] = Append(served[job], fire)
  BY <1>0 DEF Decide, TypeOK
<1> HIDE DEF job
<1>8. \A i \in 1..Len(served'[job]) :
         \/ i \in 1..Len(served[job]) /\ served'[job][i] = served[job][i]
         \/ fire # None /\ i = Len(served[job]) + 1 /\ served'[job][i] = fire
  BY <1>0, <1>3, <1>5, <1>7
<1>9. \A i \in 1..Len(served'[job]) : served'[job][i] <= now
  BY <1>0, <1>4, <1>8 DEF Decisions, Answered
<1>10. Answered'
  <2> SUFFICES ASSUME NEW j \in Job, NEW i \in 1..Len(served'[j])
               PROVE  /\ served'[j][i] <= now
                      /\ Occupied(j)' /\ pc'[Runner] # "enter" =>
                             served'[j][i] <= run'[Runner].last_run
                      /\ ~ Occupied(j)' =>
                             /\ ledger[j] # None
                             /\ served'[j][i] <= ledger[j].last_run
    BY DEF Answered
  <2>1. CASE j = job
    BY <1>2, <1>9, <2>1
  <2>2. CASE j # job
    BY <1>1, <1>2, <1>6, <2>2 DEF Decisions, Answered
  <2> QED
    BY <2>1, <2>2
<1>11. FirePending'
  BY DEF Decisions, FirePending
<1>12. FiresDecidedOnce'
  <2> SUFFICES ASSUME NEW j \in Job, NEW i \in 1..Len(served'[j]),
                      NEW k \in 1..Len(served'[j]), i < k
               PROVE  served'[j][i] < served'[j][k]
    BY DEF FiresDecidedOnce
  <2>1. CASE j = job
    <3>1. Len(served[job]) \in Nat
      BY <1>0, <1>5
    <3>2. CASE k \in 1..Len(served[job])
      <4>1. i \in 1..Len(served[job])
        BY <3>1, <3>2
      <4>2. served'[job][i] = served[job][i] /\ served'[job][k] = served[job][k]
        BY <1>8, <2>1, <3>1, <3>2, <4>1
      <4> QED
        BY <1>0, <2>1, <3>2, <4>1, <4>2 DEF Decisions, FiresDecidedOnce
    <3>3. CASE k \notin 1..Len(served[job])
      <4>1. fire # None /\ k = Len(served[job]) + 1 /\ served'[job][k] = fire
        BY <1>8, <2>1, <3>3
      <4>2. i \in 1..Len(served[job]) /\ served'[job][i] = served[job][i]
        BY <1>8, <2>1, <3>1, <4>1
      <4> QED
        BY <1>4, <2>1, <4>1, <4>2
    <3> QED
      BY <3>2, <3>3
  <2>2. CASE j # job
    BY <1>6, <2>2 DEF Decisions, FiresDecidedOnce
  <2> QED
    BY <2>1, <2>2
<1> QED
  BY <1>10, <1>11, <1>12 DEF Decisions

\* A due `at` job's fire is later than every fire of it that was decided.
LEMMA CheckDecisions ==
    ASSUME TypeOK, Shape, History, Decisions, Check, TypeOK'
    PROVE  Decisions'
<1> USE DEF env
<1> DEFINE j == Head(todo)
           s == Config[j].schedule
<1>0. /\ pc[Runner] = "check" /\ Runner \in Task
      /\ UNCHANGED <<ledger, served, live, now, budget, run, guard>>
  BY DEF Check, Task
<1>1. now \in Int /\ now' \in Int /\ now <= now' /\ budget'["remove"] = 0
  BY <1>0, ScheduleAssumption DEF TypeOK, Time, Decisions, FirePending
<1>2. pc'[Runner] \in {"idle", "check", "gate", "reserve"}
  BY <1>0 DEF Check, NextEntry, Goto, TypeOK
<1>3. Answered'
  BY <1>0, <1>1, <1>2, AnsweredKept DEF Decisions, Occupied, Running, Recording
<1>4. FirePending'
  <2>1. CASE NextEntry
    BY <1>0, <1>1, <2>1, PendingKept DEF Decisions, NextEntry
  <2>2. CASE ~ NextEntry
    <3>1. /\ j \in Valid /\ Due(j) /\ todo' = todo
          /\ fire' = IF s.kind = "at" THEN most_recent_fire(now, s) ELSE None
      BY <2>2 DEF Check
    <3>2. j \in Job /\ s \in Schedule
      BY <3>1, RunnerAssumption DEF Valid, JobConfig
    <3>3. CASE s.kind # "at"
      BY <1>0, <3>1, <3>3 DEF Decisions, FirePending
    <3>4. CASE s.kind = "at"
      <4>1. s \in AtSchedule
        BY <3>2, <3>4 DEF Schedule, EverySchedule
      <4>2. fire' = most_recent_fire(now, s) /\ fire' # None
        BY <3>1, <3>4 DEF Due, is_due
      <4>3. fire' <= now /\ fire' \in Int
        BY <1>1, <4>1, <4>2, FireIsPast, MostRecentFireType
      <4>4. file = ledger
        BY <1>0 DEF History, FileExact
      <4>5. ASSUME NEW i \in 1..Len(served[j])
            PROVE  served[j][i] < fire'
        <5>1. ~ Occupied(j)
          BY <1>0 DEF Occupied, Running, Recording
        <5>2. ledger[j] # None /\ served[j][i] <= ledger[j].last_run
          BY <3>2, <4>5, <5>1 DEF Decisions, Answered
        <5>3. fire' > ledger[j].last_run
          <6>1. LastRun(file, j) = ledger[j].last_run
            BY <4>4, <5>2 DEF LastRun
          <6>2. ledger[j].last_run # None
            BY <3>2, <5>2, Instants, ScheduleAssumption
          <6> QED
            BY <3>1, <3>4, <4>2, <6>1, <6>2 DEF Due, is_due
        <5>4. ledger[j].last_run \in Int /\ served[j][i] \in Int
          BY <3>2, <4>5, <5>2, Instants
        <5> QED
          BY <4>3, <5>2, <5>3, <5>4
      <4> QED
        BY <1>0, <3>1, <4>3, <4>5 DEF Decisions, FirePending
    <3> QED
      BY <3>3, <3>4
  <2> QED
    BY <2>1, <2>2
<1>5. FiresDecidedOnce'
  BY <1>0 DEF Decisions, FiresDecidedOnce
<1> QED
  BY <1>3, <1>4, <1>5 DEF Decisions

\* The record of a run answers the fire it was started for.
LEMMA WriteDecisions ==
    ASSUME TypeOK, Shape, Decisions, Write(Runner)
    PROVE  Decisions'
<1> USE DEF env
<1>0. /\ Runner \in Task /\ pc[Runner] = "write" /\ pc[Runner] \in Recording
      /\ Recorded(Runner) /\ ledger' = Chronicle(Runner)
      /\ UNCHANGED <<served, live, now, budget>>
  BY DEF Write, Task, Recording
<1>1. pc'[Runner] \in {"finish", "idle", "check"}
  BY <1>0, RecordedEffect
<1>2. fire' = None \/ fire' = fire
  BY <1>0, RecordedEffect
<1>3. JobOf(Runner) \in Job
  BY <1>0, JobOfType
<1>4. now \in Int /\ now <= now
  BY ScheduleAssumption DEF TypeOK, Time
<1>5. Answered'
  <2> SUFFICES ASSUME NEW j \in Job, NEW i \in 1..Len(served[j])
               PROVE  /\ served[j][i] <= now
                      /\ ledger'[j] # None
                      /\ served[j][i] <= ledger'[j].last_run
    BY <1>0, <1>1 DEF Answered, Occupied, Running, Recording
  <2>1. CASE j = JobOf(Runner)
    <3>1. ledger'[j].last_run = run[Runner].last_run
      BY <1>0, <2>1 DEF Chronicle, TypeOK
    <3>2. ledger'[j] # None
      <4>1. /\ Latest(delivered[j]) \in Time \cup {None}
            /\ run[Runner] \in RunRecord
        BY <1>0 DEF Latest, TypeOK, Shape
      <4>2. ledger'[j] \in Record
        BY <1>0, <2>1, <4>1 DEF Chronicle, Record, RunRecord, TypeOK
      <4> QED
        BY <4>2, RunnerAssumption
    <3>3. Occupied(j)
      BY <1>0, <2>1 DEF Occupied, Running
    <3> QED
      BY <1>0, <3>1, <3>2, <3>3 DEF Decisions, Answered
  <2>2. CASE j # JobOf(Runner)
    <3>1. ledger'[j] = ledger[j]
      BY <1>0, <2>2 DEF Chronicle, TypeOK
    <3> QED
      BY <2>2, <3>1 DEF Decisions, Answered, Occupied
  <2> QED
    BY <2>1, <2>2
<1>6. FirePending'
  BY <1>0, <1>1, <1>2, <1>4 DEF Decisions, FirePending
<1>7. FiresDecidedOnce'
  BY <1>0 DEF Decisions, FiresDecidedOnce
<1> QED
  BY <1>5, <1>6, <1>7 DEF Decisions

LEMMA DecisionsStep ==
    ASSUME TypeOK, Shape, Alone, History, Decisions, [Next]_vars, TypeOK'
    PROVE  Decisions'
<1> USE DEF daemon, env, history
<1>0. /\ Runner \in Task /\ now \in Int /\ now' \in Int /\ now <= now
      /\ live /\ budget["remove"] = 0
  BY ScheduleAssumption DEF Task, TypeOK, Time, Decisions, FirePending
\* A step that leaves the runner where it is.
<1>1. ASSUME UNCHANGED <<served, ledger, pc, guard, run, todo, fire, live>>,
             now <= now', budget'["remove"] = 0
      PROVE  Decisions'
  <2>1. Answered'
    BY <1>0, <1>1, AnsweredKept DEF Decisions, Occupied, JobOf
  <2>2. FirePending'
    BY <1>0, <1>1, PendingKept DEF Decisions
  <2>3. FiresDecidedOnce'
    BY <1>1 DEF Decisions, FiresDecidedOnce
  <2> QED
    BY <2>1, <2>2, <2>3 DEF Decisions
\* A step of the runner that decides nothing and records nothing.
<1>2. ASSUME UNCHANGED <<served, ledger, live, now, budget>>,
             \A j \in Job : Occupied(j) => Occupied(j)',
             pc'[Runner] \in Running =>
                 \/ /\ pc[Runner] \in Running
                    /\ JobOf(Runner)' = JobOf(Runner)
                    /\ run'[Runner].last_run = run[Runner].last_run
                 \/ run'[Runner].last_run = now,
             \/ fire' = None
             \/ fire' = fire /\ \/ pc'[Runner] \notin {"gate", "reserve"}
                                \/ /\ pc[Runner] \in {"gate", "reserve"}
                                   /\ todo' = todo
      PROVE  Decisions'
  <2>1. Answered'
    BY <1>0, <1>2, AnsweredKept DEF Decisions
  <2>2. FirePending'
    BY <1>0, <1>2, PendingKept DEF Decisions
  <2>3. FiresDecidedOnce'
    BY <1>2 DEF Decisions, FiresDecidedOnce
  <2> QED
    BY <2>1, <2>2, <2>3 DEF Decisions
<1>3. CASE UNCHANGED vars
  BY <1>0, <1>1, <1>3 DEF vars
<1>4. CASE Tick
  BY <1>0, <1>1, <1>4 DEF Tick
<1>5. CASE RemoveVault \/ AddVault
  BY <1>0, <1>5 DEF RemoveVault, AddVault, Spend
<1>6. ASSUME NEW j \in Job, ToggleEnabled(j) \/ OrphanExits(j)
      PROVE  Decisions'
  <2>1. budget'["remove"] = 0
    BY <1>0, <1>6 DEF ToggleEnabled, OrphanExits, Spend, TypeOK, Faults
  <2> QED
    BY <1>0, <1>1, <1>6, <2>1 DEF ToggleEnabled, OrphanExits
<1>7. CASE Supervisor
  <2>1. SuperviseSpawn
    BY <1>0, <1>7 DEF Supervisor, SuperviseAbort
  <2>2. /\ pc[Runner] = "absent" /\ pc'[Runner] = "delay"
        /\ UNCHANGED <<served, ledger, live, now, budget, fire>>
    BY <1>0, <2>1 DEF SuperviseSpawn, Goto, TypeOK
  <2> QED
    BY <1>2, <2>2 DEF Occupied, Running, Recording
<1>8. CASE RunnerStarts \/ PassBegins
  <2>1. /\ pc[Runner] \in {"delay", "idle"} /\ pc'[Runner] \in {"idle", "check"}
        /\ UNCHANGED <<served, ledger, live, now, budget, fire>>
    BY <1>0, <1>8 DEF RunnerStarts, PassBegins, Goto, TypeOK
  <2> QED
    BY <1>2, <2>1 DEF Occupied, Running, Recording
<1>9. CASE Check
  BY <1>9, CheckDecisions
<1>10. CASE Gate
  <2>0. /\ pc[Runner] = "gate" /\ guard[Runner] = None
        /\ UNCHANGED <<ledger, live, now, budget, guard>>
    BY <1>0, <1>10 DEF Gate, Shape, Deciding
  <2>1. CASE NextEntry /\ UNCHANGED served
    <3>1. pc'[Runner] \in {"idle", "check"} /\ fire' = None
      BY <1>0, <2>1 DEF NextEntry, Goto, TypeOK
    <3> QED
      BY <1>2, <2>0, <2>1, <3>1 DEF Occupied, Running, Recording
  <2>2. CASE Goto(Runner, "reserve") /\ UNCHANGED <<todo, fire, served>>
    <3>1. pc'[Runner] = "reserve"
      BY <1>0, <2>2 DEF Goto, TypeOK
    <3> QED
      BY <1>2, <2>0, <2>2, <3>1 DEF Occupied, Running, Recording
  <2>3. CASE /\ run' = [run EXCEPT ![Runner] =
                            [last_run |-> now, status |-> "missed"]]
             /\ Goto(Runner, "load") /\ Decide(Head(todo))
             /\ UNCHANGED <<todo, fire>>
    <3>1. /\ pc'[Runner] = "load" /\ run'[Runner].last_run = now
          /\ JobOf(Runner)' = Head(todo)
      BY <1>0, <2>0, <2>3 DEF Goto, TypeOK, JobOf
    <3> QED
      BY <2>0, <2>3, <3>1, DecisionMade
  <2> QED
    BY <1>10, <2>1, <2>2, <2>3, Zenon DEF Gate
<1>11. CASE Reserve
  <2>0. /\ pc[Runner] = "reserve" /\ guard[Runner] = None
        /\ UNCHANGED <<ledger, live, now, budget>>
    BY <1>0, <1>11 DEF Reserve, Shape, Deciding
  <2>1. CASE NextEntry /\ UNCHANGED served
    <3>1. pc'[Runner] \in {"idle", "check"} /\ fire' = None
      BY <1>0, <2>1 DEF NextEntry, Goto, TypeOK
    <3> QED
      BY <1>2, <2>0, <2>1, <3>1 DEF Occupied, Running, Recording
  <2>2. CASE /\ try_begin_run(Runner, Head(todo)) /\ Goto(Runner, "enter")
             /\ Decide(Head(todo)) /\ UNCHANGED <<todo, fire>>
    <3>1. Head(todo) \in Job /\ Head(todo) # None
      BY <2>0, RunnerAssumption DEF TypeOK, Shape, Away
    <3>2. pc'[Runner] = "enter" /\ JobOf(Runner)' = Head(todo)
      BY <1>0, <2>2, <3>1 DEF Goto, try_begin_run, TypeOK, JobOf
    <3> QED
      BY <2>0, <2>2, <3>2, DecisionMade
  <2> QED
    BY <1>11, <2>1, <2>2, Zenon DEF Reserve
<1>12. CASE EnterNoVault(Runner)
  BY <1>0, <1>12 DEF EnterNoVault
<1>13. CASE EnterSpawn(Runner)
  <2>1. /\ pc[Runner] = "enter" /\ pc'[Runner] \in {"child", "query", "load"}
        /\ run'[Runner].last_run = now
        /\ UNCHANGED <<served, ledger, live, now, budget, fire, guard, todo>>
    BY <1>0, <1>13 DEF EnterSpawn, Goto, AfterChild, TypeOK
  <2> QED
    BY <1>2, <2>1 DEF Occupied, JobOf, Running, Recording
<1>14. CASE Exit(Runner) \/ Query(Runner)
  <2>1. /\ pc[Runner] \in {"child", "query"} /\ pc'[Runner] \in {"query", "load"}
        /\ UNCHANGED <<served, ledger, live, now, budget, fire, guard, todo>>
    BY <1>0, <1>14 DEF Exit, Query, Goto, AfterChild, TypeOK
  <2>2. guard[Runner] \in Job /\ run[Runner] \in RunRecord
    BY <1>0, <2>1 DEF TypeOK, Shape, Executing
  <2>3. run'[Runner].last_run = run[Runner].last_run
    BY <1>0, <1>14, <2>2, VerdictExact
  <2> QED
    BY <1>2, <2>1, <2>3 DEF Occupied, JobOf, Running, Recording
<1>15. CASE Load(Runner) \/ Truncate(Runner)
  <2>1. /\ pc[Runner] \in Recording /\ pc'[Runner] \in {"truncate", "write"}
        /\ UNCHANGED <<served, ledger, live, now, budget, fire, guard, todo, run>>
    BY <1>0, <1>15 DEF Load, Truncate, Goto, TypeOK, Recording
  <2> QED
    BY <1>2, <2>1 DEF Occupied, JobOf, Running, Recording
<1>16. CASE Write(Runner)
  BY <1>16, WriteDecisions
<1>17. CASE Finish(Runner)
  <2>1. /\ pc[Runner] = "finish" /\ Leave(Runner)
        /\ UNCHANGED <<served, ledger, live, now, budget>>
    BY <1>17 DEF Finish
  <2>2. pc'[Runner] \in {"idle", "check"} /\ fire' = None
    BY <1>0, <2>1, LeaveEffect DEF Executing
  <2> QED
    BY <1>2, <2>1, <2>2 DEF Occupied, Running, Recording
<1> QED
  BY <1>3, <1>4, <1>5, <1>6, <1>7, <1>8, <1>9, <1>10, <1>11, <1>12, <1>13,
     <1>14, <1>15, <1>16, <1>17, AloneNext DEF RunnerStep, RunStep

\* The runner never decides a fire of an `at` job twice, and never goes back to
\* an earlier one: not across passes, blocked gates, missed fires, a disabled
\* job that is enabled again or a clock that sleeps through several fires.  It
\* rests on the store: the record a decision leaves behind is what keeps the
\* next pass from taking the same fire again.
THEOREM FiresAreDecidedOnce ==
    ASSUME Undisturbed, Resident
    PROVE  Spec => []FiresDecidedOnce
<1> DEFINE Inv == TypeOK /\ Shape /\ Sound /\ Alone /\ History /\ Decisions
<1>1. Init => Inv
  <2>1. Init => Sound
    BY DEF Init, Sound, SuccessesDelivered, VerdictsDelivered, Trusted,
           EmptyFile, Recording
  <2> QED
    BY <2>1, InitType, AloneInit, HistoryInit, ResidentInit
<1>2. Inv /\ [Next]_vars => Inv'
  BY TypeStep, SoundStep, AloneStep, HistoryStep, DecisionsStep DEF Sound
<1>3. Inv => FiresDecidedOnce
  BY DEF Decisions
<1> QED
  BY <1>1, <1>2, <1>3, PTL DEF Spec

=============================================================================
