# A TLA+ verification of Notesmith

Notesmith is a local-first notes system: a daemon (`crates/notesmith-http`)
serves vaults of Markdown files over HTTP, keeps an index of each, watches the
files, runs scheduled jobs and streams change notifications to its user
interfaces; a desktop shell (`crates/notesmith-tauri`) runs agent sessions for
the chat panel of the web interface (`ui/app`). This directory models the parts
in which several tasks share state, checks them with TLC on small instances and
proves the central results with TLAPS for every instance.

## 1. Inventory

| component | state it keeps | operations | interacts with | what is hard | what makes it correct |
|---|---|---|---|---|---|
| job schedules and gate (`jobs/schedule.rs`, `jobs/gate.rs`) | none (pure) | `validate_after`, `is_due`, `most_recent_fire`, `next_fire`, `evaluate_gate` | called by the runner | daylight-saving gaps and repeats, weekends, day boundaries | a fire is found exactly when the wall clock shows it; a gate opens only on today's success |
| job runner (`jobs/mod.rs`) | registry of running jobs, one runner task per vault, manual tasks | pass, gate, reserve, execute, trigger, supervise | store, event bus, vault map, subprocesses | runner and manual tasks race; abort and crash in the middle of a run | a job is reserved once and always released; each fire is decided once; due jobs run |
| job state store (`jobs/state.rs`) | `jobs-state.json` | `get`, `all`, `record` | runner and manual tasks | unlocked read-modify-write, truncation, failed writes, crash | the file is the history of the runs; a success in it was one |
| job subprocess (`jobs/run.rs`) | child process, its pipes | spawn, wait, kill | runner | timeout, survivors | ends by its timeout |
| event bus and SSE (`events.rs`, `routes/events.rs`) | id counter, ring buffer, broadcast channel, connection count | `emit`, `vault_events` | every writer; UI clients | replay against live, lag, restart, shutdown | no change is missed after a reconnection; streams end at shutdown |
| UI client (`ui/app/src/lib/sse.ts`, `app-shell-core.ts`) | cursor, first-open flag, notes | connect, open, message, error, resync | SSE | reconnection, failed resync | the reload follows the subscription |
| file watcher, indexes and canary (`watcher.rs`, `notesmith-index`, the start in `server.rs`, `reindex_vault`, `refresh_indexes` of `notesmith-ops`) | pending batch, SQLite cache, full-text index, health | debounce, `process_pending`, canary, rescan, reindex, refresh | file system, every writer of notes | unreported changes, dropped batches, scans that store old text, one index writer | settled indexes say what the files say; numbers converge; health is honest |
| agent sessions (`notesmith-agent/src/acp.rs`, `permission.rs`, `notesmith-tauri/src/agent_bridge.rs`) | sessions, their driver and pump tasks, pending questions, trusted tools | start, prompt, model, scope, stop, answer, resume | agent process, chat store | rebuilt sessions, late answers, lost agents, replayed history | a call is allowed only with consent; unreachable sessions end |
| chat store (`ui/app/src/lib/agent`) | session id, thread, scope, busy flag, permission card | prepare, send, stop, switch, toggle, decide | agent bridge, transcripts | awaits across context switches | the session belongs to the thread shown; the badge is true |
| editor and save queue (`NoteEditor.svelte`, `auto-save.ts`, `external-change-dedup.ts`, `save-queue.ts`, `offline-queue.ts`) | text, hash, dirty flag, pending save, queued record, timers | type, save, retry, flush, reload, keep mine | `put_note`, change events | lost answers, retries against newer saves, echoes of own saves | the text shown is never nowhere else; a queued save is retried |
| config watcher, vault registry (`config_watcher.rs`, `routes/vaults.rs`) | live vault map, config file | reconcile, add, remove, rename | every scheduler | plan made from a stale snapshot | the live vaults are those of the config |
| vault engine (`notesmith-vault`) | files | hash-checked `write` | routes, ops, watcher | check-then-write | no edit is overwritten unseen |
| transcription queue and worker (`notesmith-transcribe`) | SQLite queue | enqueue, claim, mark | scheduler | claims without reservation, retries, starvation | each item ends done or exhausted |
| ingest / embed / daily schedulers | worker tasks | supervise | vault map | re-registered vaults | one worker per live vault |
| daemon lifecycle (`server.rs`, `lockfile.rs`, `routes/admin.rs`) | lockfile, shutdown signal | start, shutdown | everything | two daemons starting, stale lock | at most one daemon |
| git timers, hooks, memory, path permissions, ingest, query, embeddings, MCP tools, CLI, desktop shell, UI panes, text processing | various | various | | mostly data, external tools or presentation | not modelled (see 7) |

`PROJECT.json` lists the same components with their status, and the hazards of
the code, each at its line.

## 2. Modules

| module | models | state and actions |
|---|---|---|
| `JobSchedule` | `jobs/schedule.rs`, `jobs/gate.rs` | operators named as the functions they translate; time zones have one offset change |
| `JobRunner` | `jobs/mod.rs`, `jobs/state.rs`, the ends of `jobs/run.rs` | one runner task and a set of manual tasks, each with a program counter between two accesses to shared state |
| `MCJobRunner` | | its instances |
| `JobRunnerProofs` | | theorems about `JobRunner` and the operators of `JobSchedule` |
| `JobHistoryProofs` | | theorems about the store and the fires while nothing disturbs them; extends `JobRunnerProofs` |
| `FireTimes`, `MCFireTimes` | the fire searches against a walking clock | the schedule and the clock |
| `FireTimesProofs` | | theorems about the fire searches |
| `EventStream`, `MCEventStream` | `events.rs`, `routes/events.rs`, `sse.ts`, the loading and resync of `app-shell-core.ts` | emitters, connections, clients |
| `EventStreamProofs` | | theorems about `EventStream` |
| `PermissionGate` | what a session promises about permissions | abstract: questions, answers, trust, allowed calls |
| `AgentSession` | `acp.rs`, `permission.rs`, `agent_bridge.rs` | one record per agent process, with its pump, driver and dispatch loop |
| `AgentChat`, `MCAgentChat` | `chat-store.svelte.ts`, `conversation.ts`, composed with `AgentSession` | the store's fields; one action per piece of a method between two awaits |
| `AgentChatProofs` | | theorems about `AgentChat`, among them that it implements `PermissionGate` |
| `AgentScopeProofs` | | the scope switch; extends `AgentChatProofs` |
| `VaultIndex`, `MCVaultIndex` | `watcher.rs`, the indexes, the start of the daemon, `reindex_vault`, `refresh_indexes` | files, two indexes, four indexing jobs |
| `VaultIndexProofs` | | theorems about `VaultIndex` |
| `NoteSave`, `MCNoteSave` | the editor's save path, the save queue, `put_note` | one note: file, editor, queue, requests in flight |
| `NoteSaveProofs` | | theorems about `NoteSave` |

### JobRunner and the code

A task's phase (`pc`) says which shared state it touches next:

    runner   absent -> delay -> idle -> check -> gate -> reserve -> (run) -> check ... -> idle
    missed                                       gate -> load -> truncate -> write -> next entry
    run      enter -> child -> query -> load -> truncate -> write -> finish

`check` reads the store and the clock (`is_due`), `gate` reads them again,
`reserve` is `try_begin_run`, `enter` to `finish` is `execute_job`, and
`load`/`truncate`/`write` is `JobStateStore::record`, whose `std::fs::write`
first empties the file. The guard a task owns is `guard[p]`; `registry` is the
set that `RunGuard` maintains. `SuperviseAbort` and `Crash` are what can cut a
run short: an abort only at an `await` (`AwaitPoint`), a crash anywhere. A
subprocess survives both (`orphans`), because it is not killed on drop.

`file` is what loading the file returns: an empty, truncated or corrupt file
loads as no records. Two tasks that write at once may leave a file that does not
parse, which `Write` models as a choice.

The variables `gate_at`, `fire`, `served`, `delivered` and `ledger` are history
variables: no guard reads them, and they state what the code should have
remembered. `delivered` has the runs that really did what the docs call a
success (exit 0, a write if the run is write-tracked, or a `success_when`
query that held); `ledger` is the store that loses nothing.

Abstractions: the clock is read once per step (`record_missed_run` reads it
again a moment later); of a live edit of `vault.toml` only `enabled` changes;
duplicate names are reduced to the first entry, as the pass does; a supervisor
that aborts a runner spawns the next one only once the old one has stopped at
its await; messages, exit codes, durations and logs are left out.

### EventStream and the code

`emit` is three steps (`TakeId`, `Push`, `Send`), because nothing is locked
between the counter, the buffer and the channel. `vault_events` is `Connect`
(replay) and then `Subscribe`; the replay, `events_since`, filters the buffer
from its oldest event on. `sent` is what the channel was ever sent in this
life of the daemon; the channel itself holds its last `ChannelCapacity` events,
and a receiver further behind gets `Lag`. `Restart` starts the counter again
while clients keep their cursors. The client loads, connects, opens (asking for
a resync every time but the first), handles messages, and retries.

Notes are loaded from the SQLite cache (`list_notes`), not from the files. The
note routes emit when the file is written, and only the watcher fills the cache
and then emits an event of its own; so the emitters are the watcher, whose next
event is about the change it has just stored (`Index`, `Emits`), and threads
whose events say nothing about the cache. `indexed` counts the changes the cache
has, `announced` those the watcher has come to the event of. If the full-text
index fails between the two, the event is never emitted (`IndexFails`); `silent`
remembers such changes. An event of a type for which the client has no listener
(`note.clipped`, `periodic.created`, `job.*`) does not move its cursor (`named`).
Abstractions: one vault; a load is one step; the answers of two loads are not
reordered; the exponential delay of the retry is left out; a canary's rescan and
an agent's refresh, which change the cache without any event, belong to
`VaultIndex`.

### AgentSession, AgentChat and the code

A *run* is one `AcpSession`, that is one agent process. `agent_start` makes one,
and so does every change of scope (`agent_set_read_only` stops the run and
builds another under the same session id), so `sessions[s]`, the bridge's map,
names the run that an entry commands now. A run goes through `session/load` or
`session/new`; once live it has three tasks: the pump `run_session` (`cmds`,
`pump`), the driver (`todo`, `driver`), and the dispatch loop. The dispatch loop
takes what the agent sends from the handshake on, in a turn and between turns,
and stands still while a permission is decided (`ask`), when an answer to the
handshake is not taken either (`Answered`). Updates are dropped while
`session/load` is unanswered (the replay gate); history that comes later passes
for output. A request's id
is its place in `asks`; `pending` has the senders that `PendingPermissions`
keeps, also those nobody waits for any more.

The store's methods are cut at their awaits: `call[r]` says which continuation
waits for run `r`, `send` where each `send()` is, `answers` which decisions are
on their way. Several sends may be in flight, since opening another conversation
unlocks the composer. A send of an unsaved conversation first creates its thread;
when `createThread` answers, that thread becomes the current one whatever is
shown by then, and takes the session id there is (`SendCreated`). `generation` is
`sessionStartGeneration`. `said`, `raced` and `fresh` are history variables, and
`allowed` is one of the sessions.

`PermissionGate` is the abstract specification: it knows sessions, trust,
questions and answers, and nothing of the bridge, the driver or the panel. The
instance `Gate` in `AgentChat` is the refinement mapping: the runs are its
sessions, `always` its trust, `ask` the open question.

Abstractions: fetching the grants and starting the session are one step, in
which the list of grants may have failed in part or whole; `setThreadSession`
(`persistAcpSessionId`) happens with the step it follows, and its failure, which
leaves a thread unlinked, is left out: the only state read after it is the scope,
which the next step reads again. The messages of a reopened thread are loaded at
once; several panels, agent detection, file and terminal callbacks, and the
contents of the conversation are left out.

### VaultIndex and the code

Everything that writes the indexes is a job of the same three phases: read files
one by one (`read`), store in the cache (`cache`), store in the full-text index
(`search`). The jobs are the watcher's current path, the canary's rescan (which
is also the scan at the start), the reindex route and an agent's refresh; they
share only the read lock of the state, so their steps interleave. `feed` is what
the operating system has reported and the watcher has not received, `batch` the
debounce loop's `pending`. `HandleNoteChange` takes paths in any order, as the
iteration of a hash map does; an error drops the rest (`Aborted`). `WriterBusy`
is tantivy's lock, which is not waited for; `StoreFails` is any other failed write
of an index, which is rolled back and ends the job. A scan that cannot write the
rows of a note leaves the note out and goes on (`Skippable`). The canary's count
passes over entries that begin with a dot (`Hidden`); the scans, the watcher and
the cache have them.

`excused` is a history variable: the paths whose change was not reported, was
dropped with a batch, whose rows a scan skipped, or that were overtaken by a job
that stored what it had read before the change. `failed` says that a rescan has failed.

Abstractions: a content is a number; a note's title, links and tasks are part
of its content; changes of config files, which the same batch carries, are left
out, and so are the events sent to the user interface and the polling mode of
network drives. If the scan at the start cannot store what it read, the vault is
not served; such a start is left out.

### NoteSave and the code

Every PUT has a life of its own: sent, decided by the server (where the hash is
compared and the file written in one step), answered or lost. `save` is the one
of `SaveQueue.save`, `retry` those of `retryQueuedSave`, `flush` the one of
`flushQueuedSave`. `record` is the note's record in IndexedDB, under the id it
keeps when newer content is enqueued. `Saved` is `onSaved` with what follows it
in the same turn: the drained events, which may reload the note, and the next
save of `runSave`. `written`, `raced`, `abandoned`, `declined` and `owed` are
history variables.

Abstractions: one note, so the queue has at most one record; loading it is one
step (the `await` of `getNote` has no second reader: the editor shows the text
only when it is there); a content is its own hash; `recentHashes` never overflows its 16 places;
delays are left out, a timer that is set may fire.

## 3. Runs

| run | instance | shows |
|---|---|---|
| `jobs_scheduled` | three jobs (an interval connector judged by `success_when`, a daily briefing `after` it, a daily digest that waits for nothing), 2 days of 3 instants, exit 0 or not, one enable/disable, no faults | `TypeOK`; the file is exactly the history (`DurableHistory`); each fire is decided once, in order (`FiresDecidedOnce`); due jobs are run and slept-through fires answered (`CatchUp`) |
| `jobs_faults` | the first two jobs with a write-tracked connector and a `success_when` of the briefing, days of one instant; either one manual trigger and one removal of the vault, or one crash and one failed write | `ReservationExclusive`, `SuccessesDelivered`, `PrereqsDelivered`, `ReservationReleased` |
| `jobs_late` | as `jobs_scheduled`, without the digest | a counterexample to `NeverLate` |
| `jobs_orphan` | ungated jobs, one removal of the vault | a counterexample to `NeverConcurrently` |
| `jobs_lost_history` | ungated jobs, two manual triggers | a counterexample to `DurableHistory` |
| `fire_times` | 12 days of 4 readings; 4 times of day, with and without weekends; zones with a change at instants 8 to 20 of up to two readings back or a whole day forward | `LatestFire`, `AnnouncedFireComes` |
| `events` | the watcher and one other emitter, one client, buffer and channel of one event, two events and two changes per life, one lost connection, one restart | `TypeOK`, `ResyncCovers`, `StreamsDrain` |
| `events_replay` | the watcher and two other emitters, buffer of 3, channel of 2, three events | a counterexample to `ReplayComplete` |
| `agent_chat` | 3 agent processes, 1 tool, 2 questions, 1 thread saved before and one to create, 2 sends in flight, 3 user actions, 1 fault or word of an agent outside a turn | `TypeOK`; `GateKept` (the refinement); `SessionAtHome`, `ScopeFollows`; `UnreachableEnds` |
| `vault_index` | 2 notes, one of them hidden, 3 states of the files (the first is what is found at the start), 1 unreported change, restart, reindex, failed write or skipped note, 1 scan at a time | `TypeOK`; `IndexSettled`, `HealthHonest`; `CountsConverge` |
| `note_save` | 3 contents, 3 faults, 1 flush or key save, 2 retries | `TypeOK`, `ShownKept`, `RetryArmed` |
| `save_loss` | the same with 2 faults | a counterexample to `QueuedSaveKept` |

Why the bounds are enough. Two jobs are the smallest set with a prerequisite, and the digest is the job
that must be caught up whatever the others do;
races on the store and the registry need two tasks, and the instance has the
runner and a manual one. In `jobs_scheduled` five instants reach into the second
day, with the fires of that day before, at and after the connector's success, and
a clock that may pass a fire while another job runs. Days of
one instant in `jobs_faults` make "yesterday" one tick old. Each fault is
bounded by a budget, and every budgeted event is reached. A ring and channel of
one event overflow with the second event. In `fire_times` a day of four readings
keeps a change of one or two readings away from, at and across the schedule's
time, and twelve days hold a whole weekend on either side of it.
`CivilZone` leaves out two kinds of change: one that skips more than a day, and
one that puts the clock back from one date to the date before (as from 00:01 to
23:01, not from midnight to 23:00). There the date itself repeats, and the code's
day-by-day search does not define which of the two is meant.

Three agent processes are a session, the one that replaces it in another scope
and one of another thread; three user actions are a message and two of the
switches, stops and toggles that race with it, or two messages and the switch
between them. Two questions are enough for an answer to meet a newer question. Two notes are enough for a batch
with a path left over and for a move. Three contents are the first, one that
fails to save and a newer one that meets its retry; with three faults a retry
fails too, and `MaxRetries` of 2 is reached. The theorems of section 5 have no
such bounds.

Deadlock is checked in the job runs; `fire_times` stops at the end of its
time, in the event runs the daemon may stay down after a shutdown, and in
`agent_chat`, `vault_index`, `note_save` and `save_loss` the user may stop
acting, when everything comes to rest.

### Findings

* `jobs_late`: `evaluate_gate` says Ready as soon as the prerequisites have
  succeeded today, without asking which day the fire belongs to. A connector
  that succeeds after midnight opens the gate for yesterday's briefing, which
  the documentation says is missed and never run late.
* `jobs_orphan`: removing a vault aborts its runner; the reservation is dropped
  and the subprocess is not killed. Adding the vault back runs the job again
  while the first process is alive.
* `jobs_lost_history`: `record` is not serialised between the runner and manual
  runs; a record of one job can erase the newer record of another. For the same
  reason `DurableHistory` is checked in `jobs_scheduled` without manual tasks.
* `events_replay`: the replay is read before the subscription. The user
  interface is not affected, since it reloads after a reconnection
  (`ResyncCovers`); another client that trusts the documented replay is.
* `save_loss`: a retry of a queued save removes the record by its id when it
  succeeds, also when newer content was queued under that id meanwhile. The
  newer text is lost while the indicator says saved. `ShownKept` names this
  (`raced`) as the only way, besides the user's own choice, in which the text
  shown can be nowhere.

The properties name their exceptions instead of hiding them: `IndexSettled` the
four gaps of `excused`, `CountsConverge` hidden and
unreadable files, `ResyncCovers` a channel that overran and a handler that failed,
`ScopeFollows` the switch during a rebuild,
`UnreachableEnds` a question nobody answers, `RetryArmed` the cases in which the
queue gives up. Each is a hazard of `PROJECT.json`.

## 4. Fairness

`JobRunner`: weak fairness of the supervisor, of the runner's own steps and of
each run. Tokio polls every ready task, and both tickers run for the life of the
daemon. A run's progress includes the end of its subprocess: the code kills its
process group at the timeout. What the code does not bound is the wait for the
ends of the pipes afterwards, so the liveness results assume that no descendant
leaves the group and keeps a pipe open. Nothing is assumed of the clock, the
operator, crashes or the disk.

`EventStream`: weak fairness of each connection's and each client's steps, and
separately of the end of a stream, because `select!` chooses at random between
branches that are ready. Emitters need not make progress.

`AgentChat`: while the drivers of some runs can move, one of them does, and the
same for their pumps, which are tokio tasks that are always polled; which one
moves is left open, so the assumption is weaker than fairness of each. It includes
two of the agent: that it ends a turn which no question holds up and that it
answers a change of model. Nothing is assumed of the user, of handshakes, of
answers to questions and of faults.

`VaultIndex`: weak fairness of the watcher's task, of the canary, which ticks for
the life of the daemon, and of the jobs together: while there are any, one moves.
Files may change, writes may fail and the daemon may be restarted at any time,
within the budgets.

`NoteSave` has no liveness property: whether a save arrives is up to the network.

## 5. Proofs

`JobRunnerProofs` proves, from the assumptions `ScheduleAssumption` and
`RunnerAssumption` (distinct names in the job list, a finite set of manual
tasks, well-typed config, None is no record), for any jobs, zones, tasks and budgets:

* `TypeCorrect`: `Spec => []TypeOK`. `Shape` strengthens the type invariant
  with what each phase implies: a task that records has a record, one that
  executes has a guard, a runner in a pass has entries left.
* `ReservationsExclusive`: `Spec => []ReservationExclusive`. Its conjuncts are
  inductive together with `Shape`: a task that adds to the registry tests it in
  the same step, and one that removes from it removes the job of its own guard.
* `SuccessesAreDelivered`: `Spec => []SuccessesDelivered`. The stored records
  alone are not inductive: a task may write back an old copy, or a verdict not
  yet stored. `Sound` adds that each copy is trusted and that a pending
  "succeeded" verdict is already among the delivered runs (`VerdictsDelivered`).
  Since `delivered` only grows (`DeliveredGrows`), old copies stay trusted,
  however the writes interleave.
* `PrerequisitesDelivered`: `Spec => []PrereqsDelivered`. `GateHonoured` says
  the same of the moments between the gate and the reservation; it follows at
  the gate from `Sound`, and is kept as `delivered` grows.
* `ResolveLocalCorrect`: for every zone and reading, `resolve_local` is the
  earliest instant that shows the reading, or None if none does.
* `ValidateAfterCorrect`: `validate_after` accepts a job exactly if its
  prerequisites are known and no chain of prerequisites, however long, leads
  back to it. A chain that visits a job twice can be cut short (`LeadsLess`), so
  that a shortest cycle visits each job once and the walk's bound, the number of
  jobs, is enough (`ShortCycle`).

`JobHistoryProofs` proves what the store and the schedule promise while nothing
disturbs them. The store has no lock and does not replace its file atomically, and
`jobs_lost_history` shows that with manual triggers history does get lost; so does
it when a crash or a failed write leaves the file empty. The hypothesis
`Undisturbed` (the budgets of these three events are 0, as in `jobs_scheduled`)
says that they do not happen, and the theorems that nothing else does harm:

* `HistoryIsDurable`: `Undisturbed` implies `Spec => []DurableHistory`, removals
  of the vault and the abort of its runner included. Between the steps of `record`
  the property says nothing, so `FileExact` says where the history is then (in the
  file, or in the loaded copy while the file is empty); `SuccessExact` and
  `Chronological` say that the last success is the latest delivered run, because a
  single task delivers in the order of its starts.
* `FiresAreDecidedOnce`: with a vault that also stays registered (`Resident`),
  `Spec => []FiresDecidedOnce`. Here the store is needed: `Answered` says that
  every decided fire is not newer than the job's last record, or than the run
  under way, so `is_due` does not take it again; `FirePending` that the fire which
  is being gated is newer than all of them. `Resident` is needed, because an abort
  in the middle of a run leaves no record and the fire is decided again.

`FireTimesProofs` proves, from `FireTimesAssumption` (civil zones, times within
the day), for every length of the day and at every instant:

* `LatestFireFound`: `Spec => []LatestFire`, and `AnnouncedFiresCome`:
  `Spec => AnnouncedFireComes`. The facts they rest on: the date never goes back
  (`DatesGrow`); `fire_on` answers exactly the fires of its date (`FireOnFires`,
  `FireIsOn`); a change of the clock skips the fire of one day at most
  (`OneSkipped`); so among any five days in a row one has a fire, also over a
  weekend (`FireInWeek`). The searches would be right with a bound of five days;
  the code looks seven days away.

`EventStreamProofs` proves, from `EventStreamAssumption` (capacities of at least
one, finitely many clients), for any emitters, clients, losses and restarts:

* `EventsSinceCorrect`: the replay has exactly the buffered events after the
  cursor that are for the client's vault, each once and in order.
* `TypeCorrect`: `Spec => []TypeOK`. `Counted` (the connection count is the number
  of open streams) is needed for it not to go below zero, and for a restart to
  find no stream open.
* `ResyncIsEnough`: `Spec => []ResyncCovers`. The watcher announces each change
  before it stores the next (`OneAtATime`), receivers stand within what was sent
  (`Placed`), and `Covered` says for each stream that is open that a change beyond
  the last reload and already announced is carried by an event the stream has
  brought, is replaying or has before it. A reload covers everything stored by
  then; an event that passes from the watcher to the channel, and on to the
  client, takes its change along.

`AgentChatProofs` proves, from `AgentAssumption` and `ChatAssumption` (the bounds
are numbers), for any tools and bounds:

* `PermissionsKept`: `Spec => GateKept`, the refinement. Each step of the store,
  the bridge and the sessions is a step of `PermissionGate` or leaves its
  variables alone. It needs the invariant `Asked`: a run waits only for a
  question it put itself, an answer on its way is what the user said, the card
  shown is unanswered, and sessions are seeded with stored grants only. Without
  it an answer could be delivered to a run that never asked.
* `TypeCorrect`: `Spec => []TypeOK`.
* `SessionStaysHome`: `Spec => []SessionAtHome`. `SessionAtHome` speaks of the
  bound session only; inductive is that also every start in flight whose
  generation is current was made since the last switch. It does not say on which
  thread the session is recorded: a `createThread` that answers late changes the
  current thread under a session, as the comment on `SessionAtHome` tells.

`AgentScopeProofs` adds, from the same assumptions:

* `ScopeIsFollowed`: `Spec => []ScopeFollows`. The property is about moments
  without a call in flight; `Following` says what holds in between: while the
  bound session is rebuilt there is one rebuild, it builds the scope shown, and
  the run it replaces has ended or has a Stop among its commands. For that every
  step must be shown not to take back a Stop, a scope or a handshake (`Aged`). The
  switch during a rebuild (`raced`) is left out, as in the property.

`VaultIndexProofs` proves, from `VaultAssumption` (finitely many notes), for any
notes, edits, losses, restarts and concurrent scans:

* `IndexesSettle`: `Spec => []IndexSettled`. The invariant `Sound(p)` says for a
  note that is not excused what the newest thing on its way will do: the last
  report in the feed, else the action in the batch, else the watcher's job, else
  nothing, and then both indexes agree with the file. `Startup` describes the
  scan before the watcher is installed.
* `HealthStaysHonest` and `TypeCorrect`.

`NoteSaveProofs` proves, from `SaveAssumption`, for any bounds:

* `ShownTextKept`: `Spec => []ShownKept`. `Whereabouts` says that the pending
  text is the text shown, and that the text shown is written, pending, in the
  save in flight or, with no save in flight, in the queued record (unless
  the retry race of `save_loss` took it or the user declined it); `PutsTrue` that what was
  answered ok has been written; `Counted` bounds ids and tries by the faults.
* `QueuedSaveRetried`: `Spec => []RetryArmed`, and `TypeCorrect`.

Recursive definitions are written as recursive functions. That they have a
solution, and what it is, is proved by contradiction from the least argument at
which the claim fails (`LeastNumber`, from the library's theorem that `<` is
well-founded on the natural numbers).

Every safety invariant and action property of the passing runs is stated by a
theorem, `DurableHistory` and `FiresDecidedOnce` under the hypotheses above. Only
model-checked are the liveness properties (`CatchUp`, `ReservationReleased`,
`StreamsDrain`, `UnreachableEnds`, `CountsConverge`), which need fairness, out of
the prover's reach.

## 6. Plan

Done: the job schedules and the runner, the event stream, the agent sessions with
their abstract gate, the indexes, the save path, and the safety proofs of all of
them.

Left, in this order:

1. The job subprocess with its pipes: is the timeout a bound on a run?
2. The vault registry's reconciliation against its routes.
3. The transcription queue and its worker; the daemon's lockfile.

## 7. Not modelled

Text processing (documents, templates, HTML, clipping, tasks), SQL and
embeddings compute data with little control, and they are most of the
repository's lines. Git, hooks and extractors are thin layers over external
programs. The MCP tools are a catalogue of requests. The CLI, the rest of the
desktop shell and the other web panes are presentation. The transcription queue,
the other schedulers, the lockfile and the vault registry's reconciliation have
control worth modelling (their hazards are listed) and are left for the plan. Permissions are a pure policy over paths.
Of the event stream, a lagging receiver (which silently skips events) and the
gap between a client's first load and its first subscription are modelled, but
no property promises anything about them, as the code does not.
