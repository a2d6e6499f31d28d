----------------------------- MODULE VaultIndex -----------------------------
(***************************************************************************)
(* How the daemon keeps its two indexes of a vault, the SQLite cache and   *)
(* the full-text index, in step with the files: the scan at startup        *)
(* (server.rs), the file watcher with its debounced batches and the canary *)
(* (watcher.rs), the reindex route (routes/vaults.rs) and the agents'      *)
(* writes, which index what they wrote (notesmith-ops).  The note routes   *)
(* only write the file and leave the indexes to the watcher.               *)
(*                                                                         *)
(* Everything that indexes is a job with the same steps: read files, then  *)
(* store what was read in the cache, then in the full-text index.  Jobs    *)
(* run concurrently (process_pending, trigger_rescan and the routes share  *)
(* the state's read lock) and the files change at any time.                *)
(***************************************************************************)
EXTENDS Integers, Sequences, FiniteSets

CONSTANTS
    Paths,          \* the notes of the vault
    Hidden,         \* those in a directory, or under a name, that begins with a dot
    Found,          \* those that are there at startup
    MaxEdits,       \* BOUND: changes of files; the first is how they are at startup
    MaxUpsets,      \* BOUND: restarts, reindexes by the user, changes the operating
                    \* system does not report, writes of an index that fail and
                    \* notes that a scan has to skip
    MaxScans        \* BOUND: scans of the vault at the same time

ASSUME VaultAssumption ==
    /\ IsFiniteSet(Paths) /\ Hidden \subseteq Paths /\ Found \subseteq Paths
    /\ MaxEdits \in Nat \ {0}
    /\ MaxUpsets \in Nat
    /\ MaxScans \in Nat \ {0}

VARIABLES
    disk,       \* the content of each file
    cache,      \* notes of the SQLite cache: the content they were parsed from
    search,     \* documents of the full-text index
    watching,   \* the watcher is installed: the daemon has started
    feed,       \* reported changes that the watcher has not received
    batch,      \* pending of the debounce loop: the last action of each path
    working,    \* process_pending is running on the batch
    job,        \* the jobs
    health,     \* WatcherState
    edits, upsets,
    \* History variables.
    excused,    \* paths whose change was missed, dropped, skipped or overtaken
    failed      \* a rescan of the canary has failed

indexes == <<cache, search>>
counters == <<edits, upsets>>
vars == <<disk, indexes, watching, feed, batch, working, job, health, counters,
          excused, failed>>

Absent == 0
Unreadable == -1        \* the file exists and is not UTF-8
Content == 1..MaxEdits
Unread == -2            \* a job has not read the path

Indexer == {"watcher", "rescan", "reindex", "agent"}
Scanner == {"rescan", "reindex"}
Action == {"upsert", "delete"}
NoJob == [at |-> "idle", todo |-> {}, snap |-> [p \in Paths |-> Unread]]

TypeOK ==
    /\ disk \in [Paths -> Content \cup {Absent, Unreadable}]
    /\ cache \in [Paths -> Content \cup {Absent}]
    /\ search \in [Paths -> Content \cup {Absent}]
    /\ watching \in BOOLEAN
    /\ feed \in Seq(Paths \X Action)
    /\ batch \in [Paths -> Action \cup {"none"}]
    /\ working \in BOOLEAN
    /\ job \in [Indexer -> [at : {"idle", "read", "cache", "search"},
                            todo : SUBSET Paths,
                            snap : [Paths -> Content \cup {Absent, Unread}]]]
    /\ health \in {"healthy", "degraded"}
    /\ edits \in Content /\ upsets \in 0..MaxUpsets
    /\ excused \subseteq Paths
    /\ failed \in BOOLEAN

\* A job over a set of paths, about to read them.
Reading(paths) == [NoJob EXCEPT !.at = "read", !.todo = paths]

NoBatch == [p \in Paths |-> "none"]

StartupJobs == [i \in Indexer |-> IF i = "rescan" THEN Reading(Paths) ELSE NoJob]

\* The daemon starts: create_vault_state scans the vault.
Init ==
    /\ disk = [p \in Paths |-> IF p \in Found THEN 1 ELSE Absent]
    /\ cache = [p \in Paths |-> Absent]
    /\ search = [p \in Paths |-> Absent]
    /\ watching = FALSE
    /\ feed = <<>>
    /\ batch = NoBatch
    /\ working = FALSE
    /\ job = StartupJobs
    /\ health = "healthy"
    /\ edits = 1 /\ upsets = 0
    /\ excused = {}
    /\ failed = FALSE

-----------------------------------------------------------------------------
(* The files change.                                                       *)

\* Of the changed paths some are not reported.  Before the watcher is installed
\* none is; a scan that has not read the path yet will see the change.
Missed(paths, lost) ==
    /\ lost \subseteq paths
    /\ ~watching => lost = paths
    /\ upsets' = IF watching THEN upsets + Cardinality(lost) ELSE upsets
    /\ upsets' <= MaxUpsets
    /\ excused' = excused \cup IF watching THEN lost ELSE lost \ job["rescan"].todo

\* What the watcher is told of one of them.
Report(p, action, lost) == IF p \in lost THEN <<>> ELSE << <<p, action>> >>

Reported(p, action) ==
    \E lost \in SUBSET {p} : Missed({p}, lost) /\ feed' = feed \o Report(p, action, lost)

\* A note route (create, put, patch, append, managed section) or another program
\* writes a file.  Another program may leave what is not UTF-8.
WriteFile(p) ==
    /\ edits < MaxEdits
    /\ edits' = edits + 1
    /\ \E content \in {edits + 1, Unreadable} : disk' = [disk EXCEPT ![p] = content]
    /\ Reported(p, "upsert")
    /\ UNCHANGED <<indexes, watching, batch, working, job, health, failed>>

\* delete_note, or another program.
DeleteFile(p) ==
    /\ edits < MaxEdits
    /\ edits' = edits + 1
    /\ disk[p] # Absent
    /\ disk' = [disk EXCEPT ![p] = Absent]
    /\ Reported(p, "delete")
    /\ UNCHANGED <<indexes, watching, batch, working, job, health, failed>>

\* move_note, rename_note or another program: both names are reported as
\* modified.
MoveFile(p, q) ==
    /\ edits < MaxEdits
    /\ edits' = edits + 1
    /\ p # q /\ disk[p] # Absent
    /\ disk' = [disk EXCEPT ![p] = Absent, ![q] = disk[p]]
    /\ \E lost \in SUBSET {p, q} :
          /\ Missed({p, q}, lost)
          /\ feed' = feed \o Report(p, "upsert", lost) \o Report(q, "upsert", lost)
    /\ UNCHANGED <<indexes, watching, batch, working, job, health, failed>>

\* An agent's write (LocalOps): write_content, then refresh_indexes.
AgentWrites(p) ==
    /\ watching
    /\ edits < MaxEdits
    /\ edits' = edits + 1
    /\ job["agent"].at = "idle"
    /\ disk' = [disk EXCEPT ![p] = edits + 1]
    /\ Reported(p, "upsert")
    /\ job' = [job EXCEPT !["agent"] = Reading({p})]
    /\ UNCHANGED <<indexes, watching, batch, working, health, failed>>

-----------------------------------------------------------------------------
(* The watcher task.                                                       *)

\* Mutant: the first action of a path in a batch is kept.
RecordedFirst(pending, change) ==
    [pending EXCEPT ![change[1]] = IF @ = "none" THEN change[2] ELSE @]

\* record_event: a later action on a path replaces the earlier one.
Recorded(pending, change) == [pending EXCEPT ![change[1]] = change[2]]

\* receiver.recv, in the outer loop or within the debounce window.
Receive ==
    /\ watching /\ ~working
    /\ feed # <<>>
    /\ batch' = Recorded(batch, Head(feed))
    /\ feed' = Tail(feed)
    /\ UNCHANGED <<disk, indexes, watching, working, job, health, counters, excused, failed>>

\* The debounce window passed without an event.
ProcessPending ==
    /\ watching /\ ~working
    /\ batch # NoBatch
    /\ working' = TRUE
    /\ UNCHANGED <<disk, indexes, watching, feed, batch, job, health, counters,
                   excused, failed>>

\* handle_note_change takes a path, in any order: a removal, or an upsert of a
\* file that is gone, needs no reading.
HandleNoteChange(p) ==
    /\ working /\ job["watcher"].at = "idle"
    /\ batch[p] # "none"
    /\ batch' = [batch EXCEPT ![p] = "none"]
    /\ job' = [job EXCEPT !["watcher"] =
                  IF batch[p] = "delete" \/ disk[p] = Absent
                  THEN [NoJob EXCEPT !.at = "cache", !.snap[p] = Absent]
                  ELSE Reading({p})]
    /\ UNCHANGED <<disk, indexes, watching, feed, working, health, counters, excused, failed>>

BatchDone ==
    /\ working /\ job["watcher"].at = "idle"
    /\ batch = NoBatch
    /\ working' = FALSE
    /\ UNCHANGED <<disk, indexes, watching, feed, batch, job, health, counters,
                   excused, failed>>

\* An error on one path returns from process_pending: the rest of the batch is
\* dropped.
Aborted(paths) ==
    /\ batch' = NoBatch
    /\ working' = FALSE
    /\ excused' = excused \cup paths \cup {p \in Paths : batch[p] # "none"}

-----------------------------------------------------------------------------
(* The steps of a job.                                                     *)

Held(i) == {p \in Paths : job[i].snap[p] # Unread}

\* Mutant: a file that is not UTF-8 becomes a note.
ScannedRaw(p) == disk[p]

\* A scan passes over what it cannot read (ADR 0009).
Scanned(p) == IF disk[p] = Unreadable THEN Absent ELSE disk[p]

\* The reindex route may leave out the cache (search_only) or the full-text
\* index (cache_only).
AfterRead(i) == IF i = "reindex" THEN {"cache", "search"} ELSE {"cache"}
AfterCache(i) == {[job[i] EXCEPT !.at = "search"]}
                    \cup IF i = "reindex" THEN {NoJob} ELSE {}

ReadFile(i, p) ==
    /\ job[i].at = "read" /\ p \in job[i].todo
    /\ i \in Scanner \/ disk[p] \in Content
    /\ \E next \in IF job[i].todo # {p} THEN {"read"} ELSE AfterRead(i) :
          job' = [job EXCEPT ![i] =
                     [at |-> next, todo |-> @.todo \ {p},
                      snap |-> [@.snap EXCEPT ![p] = Scanned(p)]]]
    /\ UNCHANGED <<disk, indexes, watching, feed, batch, working, health, counters,
                   excused, failed>>

\* The watcher or an agent cannot read the file, or it has gone since.
ReadFails(i, p) ==
    /\ i \notin Scanner
    /\ job[i].at = "read" /\ p \in job[i].todo
    /\ disk[p] \notin Content
    /\ job' = [job EXCEPT ![i] = NoJob]
    /\ IF i = "watcher" THEN Aborted({p}) ELSE UNCHANGED <<batch, working, excused>>
    /\ UNCHANGED <<disk, indexes, watching, feed, health, counters, failed>>

\* What a job stores may be out of date by now.  The watcher is then told of the
\* newer change; after another job nothing makes up for it.
Overtaken(i) ==
    IF i = "watcher" THEN {} ELSE {p \in Held(i) : job[i].snap[p] # Scanned(p)}

Stored(index, i) ==
    [p \in Paths |-> IF p \in Held(i) THEN job[i].snap[p] ELSE index[p]]

\* index_all leaves out a note whose rows cannot be written, and goes on; the
\* cache has been cleared of it.
Skippable(i) == IF i \in Scanner THEN {p \in Held(i) : job[i].snap[p] # Absent} ELSE {}

Skips(skipped) ==
    /\ upsets' = upsets + Cardinality(skipped)
    /\ upsets' <= MaxUpsets

\* update_note, remove_note or reindex of the cache.
StoreCache(i) ==
    /\ job[i].at = "cache"
    /\ \E skipped \in SUBSET Skippable(i) :
          /\ Skips(skipped)
          /\ cache' = [p \in Paths |-> IF p \in skipped THEN Absent ELSE Stored(cache, i)[p]]
          /\ excused' = excused \cup Overtaken(i) \cup skipped
    /\ \E next \in AfterCache(i) : job' = [job EXCEPT ![i] = next]
    /\ UNCHANGED <<disk, search, watching, feed, batch, working, health, edits,
                   failed>>

\* Mutant: the health of before the rescan is not put back.
RestoredNot(i) == health

\* The canary shows "degraded" while it rescans and puts back what was there;
\* what was there is "degraded" once a rescan has failed.
Restored(i) ==
    IF i = "rescan" /\ ~failed THEN "healthy" ELSE health

\* The same for the full-text index; the job is over, and after the scan at
\* startup the watcher is installed.
StoreSearch(i) ==
    /\ job[i].at = "search"
    /\ search' = Stored(search, i)
    /\ job' = [job EXCEPT ![i] = NoJob]
    /\ health' = Restored(i)
    /\ watching' = (watching \/ i = "rescan")
    /\ excused' = excused \cup Overtaken(i)
    /\ UNCHANGED <<disk, cache, feed, batch, working, counters, failed>>

\* A write of an index fails, and with it the job: the write is rolled back,
\* the full-text index is not tried after the cache.
GivesUp(i) ==
    /\ job' = [job EXCEPT ![i] = NoJob]
    /\ IF i = "watcher" THEN Aborted(Held(i)) ELSE UNCHANGED <<batch, working, excused>>
    /\ failed' = (failed \/ (i = "rescan" /\ health = "degraded"))
    /\ UNCHANGED <<disk, indexes, watching, feed, health, edits>>

\* The full-text index has one writer at a time and does not wait for it: a job
\* that finds it taken by another one fails.
WriterBusy(i) ==
    /\ job[i].at = "search"
    /\ \E j \in Indexer \ {i} : job[j].at = "search"
    /\ GivesUp(i)
    /\ UNCHANGED upsets

\* A full disk, or a database locked by another program.  (If the scan at
\* startup cannot store what it read, the vault is not served.)
StoreFails(i) ==
    /\ watching
    /\ job[i].at \in {"cache", "search"}
    /\ upsets < MaxUpsets
    /\ upsets' = upsets + 1
    /\ GivesUp(i)

-----------------------------------------------------------------------------
(* Rescans and restarts.                                                   *)

\* count_md_files passes over every entry that begins with a dot.  The scans, the
\* watcher and the cache do not: they leave out only .notesmith and .obsidian.
Files == {p \in Paths \ Hidden : disk[p] # Absent}
Cached == {p \in Paths : cache[p] # Absent}

\* Mutant: only missing files are noticed.
DriftOneWay == Cardinality(Files) < Cardinality(Cached)

\* count_md_files against cached_note_count: only the numbers are compared.
Drift == Cardinality(Files) # Cardinality(Cached)

Scans(i) ==
    /\ watching
    /\ job[i].at = "idle"
    /\ Cardinality({j \in Scanner : job[j].at # "idle"}) < MaxScans
    /\ job' = [job EXCEPT ![i] = Reading(Paths)]

\* run_canary_check_once.
Canary ==
    /\ Scans("rescan")
    /\ Drift
    /\ health' = "degraded"
    /\ UNCHANGED <<disk, indexes, watching, feed, batch, working, counters, excused, failed>>

\* reindex_vault, the "Rebuild index" of the user.
ReindexVault ==
    /\ upsets < MaxUpsets
    /\ upsets' = upsets + 1
    /\ Scans("reindex")
    /\ UNCHANGED <<disk, indexes, watching, feed, batch, working, health, edits,
                   excused, failed>>

\* The daemon stops, at any point, and is started again.  Health is in memory.
Restart ==
    /\ upsets < MaxUpsets
    /\ upsets' = upsets + 1
    /\ watching' = FALSE
    /\ feed' = <<>>
    /\ batch' = NoBatch
    /\ working' = FALSE
    /\ job' = StartupJobs
    /\ health' = "healthy"
    /\ excused' = {}
    /\ failed' = FALSE
    /\ UNCHANGED <<disk, indexes, edits>>

Change ==
    \E p \in Paths :
        \/ WriteFile(p) \/ DeleteFile(p) \/ AgentWrites(p)
        \/ \E q \in Paths : MoveFile(p, q)

Watcher == Receive \/ ProcessPending \/ BatchDone \/ \E p \in Paths : HandleNoteChange(p)

Step(i) ==
    \/ StoreCache(i) \/ StoreSearch(i) \/ WriterBusy(i) \/ StoreFails(i)
    \/ \E p \in Paths : ReadFile(i, p) \/ ReadFails(i, p)

Jobs == \E i \in Indexer : Step(i)

Next == Change \/ Watcher \/ Canary \/ ReindexVault \/ Restart \/ Jobs

Spec == Init /\ [][Next]_vars

\* The watcher's task runs, the canary ticks for ever, and while there are jobs
\* one of them moves; nothing is assumed of which.
FairSpec ==
    /\ Spec
    /\ WF_vars(Watcher)
    /\ WF_vars(Canary)
    /\ WF_vars(Jobs)

-----------------------------------------------------------------------------
(* Properties.                                                             *)

\* Nothing is on its way that concerns a path.
Settled(p) ==
    /\ watching
    /\ \A n \in DOMAIN feed : feed[n][1] # p
    /\ batch[p] = "none"
    /\ \A i \in Indexer : p \notin job[i].todo \cup Held(i)

\* However edits, batches, scans and agents' writes interleave, once nothing is
\* on its way for a note, both indexes hold what its file says.  A change is
\* missed only if its report never came, its batch was given up after an error,
\* a scan could not write the note's rows, or a scan or an agent's refresh
\* stored what it read before the change (process_pending, index_all,
\* trigger_rescan, refresh_indexes).
IndexSettled ==
    \A p \in Paths :
        Settled(p) /\ p \notin excused
            => cache[p] = Scanned(p) /\ search[p] = Scanned(p)

\* A degraded watcher is being repaired, or a repair has failed.
HealthHonest ==
    health = "degraded" => failed \/ job["rescan"].at # "idle"

\* Missed creations and deletions are found: once files stop changing and writes
\* stop failing, the cache has as many notes as there are files, for ever, if
\* all files can be read and none is hidden (run_canary_check_once).  A hidden
\* note is cached and not counted: with one on disk the canary rescans at every
\* tick, or takes it for a visible note that the cache lacks.
CountsConverge ==
    <>[]((\A p \in Paths : disk[p] # Unreadable) /\ (\A p \in Hidden : disk[p] = Absent)
            => Cardinality(Files) = Cardinality(Cached))

=============================================================================
