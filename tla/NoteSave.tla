------------------------------ MODULE NoteSave ------------------------------
(***************************************************************************)
(* How a note typed in the editor reaches its file: the editor and its     *)
(* auto-save (NoteEditor.svelte, editor/auto-save.ts), the save queue that *)
(* retries what failed (save-queue.ts over offline-queue.ts), the route    *)
(* with its hash check (put_note, NativeVaultEngine.write) and the events  *)
(* that announce changes of the file back to the editor                    *)
(* (editor/external-change-dedup.ts).                                      *)
(*                                                                         *)
(* There is one note.  A content is a number, and is its own hash: texts   *)
(* that the save pipeline of the route makes equal are one content.  Every *)
(* request travels: it is sent, decided by the server, answered.           *)
(***************************************************************************)
EXTENDS Integers, Sequences, FiniteSets

CONSTANTS
    MaxContents,    \* BOUND: contents typed or written by others
    MaxFaults,      \* BOUND: requests and answers lost, requests refused
    MaxFlushes,     \* BOUND: reconnects, clicks on retry, saves by key
    MaxRetries      \* MAX_RETRIES

ASSUME SaveAssumption ==
    /\ MaxContents \in Nat \ {0}
    /\ MaxFaults \in Nat
    /\ MaxFlushes \in Nat
    /\ MaxRetries \in Nat \ {0}

VARIABLES
    file,       \* the content of the file
    news,       \* hashes of writes that the editor has yet to be told of
    text,       \* the text in the editor
    hash,       \* currentHash: None for null, Blank for the empty string
    dirty,      \* the editor's flag
    recent,     \* recentHashes of the dedup
    inflight,   \* its saveInFlight
    buffer,     \* its pending events, kept while inflight
    pending,    \* pendingContent of the auto-save, None for null
    timer,      \* its timer is set
    save,       \* the PUT of SaveQueue.save, NoPut when none is in flight
    record,     \* the record of the offline queue, NoRecord when it is empty
    timers,     \* retryTimers: ids whose timer is set
    retry,      \* the PUTs of retryQueuedSave
    flush,      \* the flush in progress: its copy of the record and its PUT
    shown,      \* saveState
    fresh,      \* contents used so far
    ids,        \* record ids used so far
    faults, flushes,
    \* History variables.
    written,    \* contents the file has had
    raced,      \* a record was removed in the place of an older copy of it
    abandoned,  \* the queue gave a record up before its retries were used
    declined,   \* the user chose the server's version
    owed        \* the content the queue has promised to save, None for none

editor == <<text, hash, dirty, recent, inflight, buffer, pending, timer>>
queue == <<record, timers, retry, flush, ids>>
history == <<raced, abandoned, declined, owed>>
vars == <<file, news, editor, save, queue, shown, fresh, faults, flushes,
          written, history>>

None == 0
Blank == -1
Contents == 1..MaxContents
NoPut == [content |-> None, expected |-> None, at |-> "none"]
NoRecord == [id |-> 0, content |-> None, tries |-> 0]
NoFlush == [id |-> 0, content |-> None, at |-> "none", put |-> NoPut]
Answers == {"ok", "conflict", "refused", "lost"}

Put == [content : Contents \cup {None}, expected : Contents \cup {None, Blank},
        at : {"none", "sent"} \cup Answers]
Record == [id : 0..MaxFaults, content : Contents \cup {None}, tries : 0..MaxFaults]

EditorOK ==
    /\ text \in Contents
    /\ hash \in Contents \cup {None, Blank}
    /\ dirty \in BOOLEAN
    /\ recent \subseteq Contents
    /\ inflight \in BOOLEAN
    /\ buffer \subseteq Contents
    /\ pending \in Contents \cup {None}
    /\ timer \in BOOLEAN

QueueOK ==
    /\ record \in Record
    /\ timers \subseteq 1..MaxFaults
    /\ retry \subseteq [record : Record, put : Put]
    /\ flush \in [id : 0..MaxFaults, content : Contents \cup {None},
                  at : {"none", "get", "put"}, put : Put]
    /\ ids \in 0..MaxFaults

TypeOK ==
    /\ EditorOK
    /\ QueueOK
    /\ file \in Contents
    /\ news \subseteq Contents
    /\ written \subseteq Contents
    /\ save \in Put
    /\ shown \in {"idle", "saving", "saved", "retrying", "failed"}
    /\ fresh \in Contents
    /\ faults \in 0..MaxFaults
    /\ flushes \in 0..MaxFlushes
    /\ raced \in BOOLEAN /\ abandoned \in BOOLEAN /\ declined \in BOOLEAN
    /\ owed \in Contents \cup {None}

\* The note has been loaded; its first content is on disk.
Init ==
    /\ file = 1 /\ written = {1}
    /\ news = {}
    /\ text = 1 /\ hash = 1 /\ dirty = FALSE
    /\ recent = {} /\ inflight = FALSE /\ buffer = {}
    /\ pending = None /\ timer = FALSE
    /\ save = NoPut
    /\ record = NoRecord /\ timers = {} /\ retry = {} /\ flush = NoFlush
    /\ shown = "idle"
    /\ fresh = 1 /\ ids = 0 /\ faults = 0 /\ flushes = 0
    /\ raced = FALSE /\ abandoned = FALSE /\ declined = FALSE /\ owed = None

NewContent == fresh < MaxContents /\ fresh' = fresh + 1
Fault == faults < MaxFaults /\ faults' = faults + 1

-----------------------------------------------------------------------------
(* The server.                                                             *)

\* A write of the file is announced by the route and by the watcher.
Writes(content) ==
    /\ file' = content
    /\ written' = written \cup {content}
    /\ news' = news \cup {content}
    /\ owed' = IF owed = content THEN None ELSE owed

\* put_note: the expected hash, when there is one, is compared first.
Conflicts(put) == put.expected # None /\ put.expected # file

\* Another client or program writes the file.
WrittenByOther ==
    /\ NewContent
    /\ Writes(fresh + 1)
    /\ UNCHANGED <<editor, save, queue, shown, faults, flushes, raced, abandoned, declined>>

\* What becomes of a PUT that was sent: the server decides and its answer
\* arrives, or the request or the answer is lost, or it is refused.
Decides(put, answer) ==
    /\ put.at = "sent"
    /\ \/ /\ Conflicts(put) /\ answer = "conflict"
          /\ UNCHANGED <<file, news, written, owed, faults>>
       \/ /\ ~Conflicts(put) /\ answer = "ok"
          /\ Writes(put.content) /\ UNCHANGED faults
       \/ /\ ~Conflicts(put) /\ answer = "lost"
          /\ Writes(put.content) /\ Fault
       \/ /\ answer \in {"lost", "refused"}
          /\ Fault /\ UNCHANGED <<file, news, written, owed>>

Sent(content, expected) == [content |-> content, expected |-> expected, at |-> "sent"]

SaveDecided ==
    \E answer \in Answers :
        /\ Decides(save, answer)
        /\ save' = [save EXCEPT !.at = answer]
        /\ UNCHANGED <<editor, queue, shown, fresh, flushes, raced, abandoned, declined>>

RetryDecided ==
    \E r \in retry, answer \in Answers :
        /\ Decides(r.put, answer)
        /\ retry' = (retry \ {r}) \cup {[r EXCEPT !.put.at = answer]}
        /\ UNCHANGED <<editor, save, record, timers, flush, ids, shown, fresh,
                       flushes, raced, abandoned, declined>>

FlushDecided ==
    \E answer \in Answers :
        /\ Decides(flush.put, answer)
        /\ flush' = [flush EXCEPT !.put.at = answer]
        /\ UNCHANGED <<editor, save, record, timers, retry, ids, shown, fresh,
                       flushes, raced, abandoned, declined>>

-----------------------------------------------------------------------------
(* The editor and its auto-save.                                           *)

\* A change of the document: schedule.
Type ==
    /\ NewContent
    /\ text' = fresh + 1
    /\ dirty' = TRUE
    /\ pending' = fresh + 1
    /\ timer' = TRUE
    /\ UNCHANGED <<file, news, hash, recent, inflight, buffer, save, queue, shown, faults,
                   flushes, written, history>>

\* Mutant: a save with nothing to save.
SavesAny(content, expected) == Sent(content, expected)

\* runSave, up to its PUT, with the hash the editor has now.
Saves(content, expected) ==
    IF content = None THEN NoPut ELSE Sent(content, expected)

\* runSave of the pending content: a save in flight is left to finish first.
RunSave(content) ==
    IF save = NoPut
    THEN /\ save' = Saves(content, hash)
         /\ pending' = None
         /\ inflight' = (inflight \/ content # None)
         /\ shown' = IF content = None THEN shown ELSE "saving"
    ELSE pending' = content /\ UNCHANGED <<save, inflight, shown>>

\* The delay passes.
TimerFires ==
    /\ timer
    /\ timer' = FALSE
    /\ RunSave(pending)
    /\ UNCHANGED <<file, news, text, hash, dirty, recent, buffer, queue, fresh,
                   faults, flushes, written, history>>

\* flush: the save key, a checkpoint or the banner's retry save the text now.
FlushSave ==
    /\ flushes < MaxFlushes
    /\ flushes' = flushes + 1
    /\ timer' = FALSE
    /\ RunSave(text)
    /\ UNCHANGED <<file, news, text, hash, dirty, recent, buffer, queue, fresh,
                   faults, written, history>>

\* loadNote: what was typed and not yet sent is dropped.
Loads ==
    /\ text' = file
    /\ hash' = file
    /\ dirty' = FALSE
    /\ recent' = {} /\ inflight' = FALSE /\ buffer' = {}
    /\ pending' = None /\ timer' = FALSE

\* The user leaves the note and returns, or presses Reload.
LoadNote ==
    /\ Loads
    /\ UNCHANGED <<file, news, save, queue, shown, fresh, faults, flushes,
                   written, history>>

\* The user presses Keep mine.
KeepMine ==
    /\ hash # None
    /\ hash' = None
    /\ UNCHANGED <<file, news, text, dirty, recent, inflight, buffer, pending, timer, save,
                   queue, shown, fresh, faults, flushes, written, history>>

\* isOwnEcho: the hash is the editor's, or one of its recent saves.
OwnEcho(h, own) == h \in own

\* An event of the file arrives: it waits for the save in flight, is dropped as
\* an echo, reloads a clean editor, or shows a banner over a dirty one.
ToldOfChange ==
    \E h \in news :
        /\ news' = news \ {h}
        /\ IF inflight
           THEN /\ buffer' = buffer \cup {h}
                /\ UNCHANGED <<text, hash, dirty, recent, inflight, pending, timer>>
           ELSE IF ~OwnEcho(h, recent \cup {hash}) /\ ~dirty
           THEN Loads
           ELSE UNCHANGED editor
        /\ UNCHANGED <<file, save, queue, shown, fresh, faults, flushes, written, history>>

\* onSaved(h), then the end of runSave: the editor counts as clean, and an event
\* that waited reloads it; otherwise what was typed meanwhile is saved next.
Saved(h) ==
    IF \E b \in buffer : ~OwnEcho(b, recent \cup {h})
    THEN Loads /\ save' = NoPut
    ELSE /\ hash' = h
         /\ dirty' = FALSE
         /\ recent' = recent \cup ({h} \ {Blank})
         /\ buffer' = {}
         /\ save' = Saves(pending, h)
         /\ inflight' = (pending # None)
         /\ pending' = None
         /\ UNCHANGED <<text, timer>>

Showing(state) == IF save' = NoPut THEN state ELSE "saving"

\* The PUT succeeded: what the queue holds for the note is out of date.
SaveSucceeds ==
    /\ save.at = "ok"
    /\ Saved(save.content)
    /\ record' = NoRecord
    /\ timers' = timers \ {record.id}
    /\ owed' = None
    /\ shown' = Showing("saved")
    /\ UNCHANGED <<file, news, retry, flush, ids, fresh, faults, flushes, written,
                   raced, abandoned, declined>>

\* enqueue: the note's record, if it exists, gets the new content.
Enqueued(content) ==
    [id |-> IF record = NoRecord THEN ids + 1 ELSE record.id,
     content |-> content, tries |-> 0]

\* It failed in a way worth retrying: queue the content, and tell the editor
\* that it is saved, under the hash it had, or an empty one.
SaveQueued ==
    /\ save.at = "lost"
    /\ record' = Enqueued(save.content)
    /\ ids' = IF record = NoRecord THEN ids + 1 ELSE ids
    /\ timers' = timers \cup {record'.id}
    /\ owed' = IF save.content \in written THEN None ELSE save.content
    /\ Saved(IF save.expected = None THEN Blank ELSE save.expected)
    /\ shown' = Showing("retrying")
    /\ abandoned' = FALSE
    /\ UNCHANGED <<file, news, retry, flush, fresh, faults, flushes, written,
                   raced, declined>>

\* Mutant: the content is not put back.
KeptNot(content) == pending

\* The content that failed is pending again, unless there is a newer one.
Kept(content) == IF pending = None THEN content ELSE pending

\* A conflict or a refusal: the banner, and the same save again at once.
SaveThrows ==
    /\ save.at \in {"conflict", "refused"}
    /\ save' = Saves(Kept(save.content), hash)
    /\ pending' = None
    /\ buffer' = {}
    /\ inflight' = (save' # NoPut)
    /\ shown' = Showing(IF save.at = "conflict" THEN "idle" ELSE "failed")
    /\ UNCHANGED <<file, news, text, hash, dirty, recent, timer, queue, fresh,
                   faults, flushes, written, history>>

-----------------------------------------------------------------------------
(* The save queue.                                                         *)

\* A retry timer fires: a copy of the record is sent, with no hash.
RetryFires ==
    \E id \in timers :
        /\ timers' = timers \ {id}
        /\ IF record.id = id
           THEN /\ retry' = retry \cup {[record |-> record, put |-> Sent(record.content, None)]}
                /\ shown' = "retrying"
           ELSE UNCHANGED <<retry, shown>>
        /\ UNCHANGED <<file, news, editor, save, record, flush, ids, fresh, faults,
                       flushes, written, history>>

\* dequeue(id), after the copy that was read under this id has been written.
Dequeued(id, content) ==
    /\ record' = IF record.id = id THEN NoRecord ELSE record
    /\ raced' = (raced \/ (record.id = id /\ record.content # content))

RetrySucceeds ==
    \E r \in retry :
        /\ r.put.at = "ok"
        /\ retry' = retry \ {r}
        /\ Dequeued(r.record.id, r.record.content)
        /\ shown' = "saved"
        /\ UNCHANGED <<file, news, editor, save, timers, flush, ids, fresh, faults,
                       flushes, written, abandoned, declined, owed>>

\* Mutant: a retry that failed is the last.
AgainNever(tries) == FALSE

\* Whether a record that failed this many times is retried.
Again(tries) == tries < MaxRetries

\* Refused: it stays in the queue.  Lost: try again, up to MaxRetries times.
RetryFails ==
    \E r \in retry :
        /\ r.put.at \in {"refused", "lost"}
        /\ retry' = retry \ {r}
        /\ LET tries == r.record.tries + 1
               again == r.put.at = "lost" /\ Again(tries)
           IN  /\ record' = IF r.put.at = "lost" /\ record.id = r.record.id
                            THEN [record EXCEPT !.tries = tries] ELSE record
               /\ timers' = IF again THEN timers \cup {r.record.id} ELSE timers
               /\ shown' = IF again THEN shown ELSE "failed"
        /\ abandoned' = (abandoned \/ r.put.at = "refused")
        /\ UNCHANGED <<file, news, editor, save, flush, ids, fresh, faults, flushes,
                       written, raced, declined, owed>>

\* retryAll, flushOnReconnect: timers off, counts back to zero; then the record
\* is sent, unless a flush is in progress.
FlushStarts ==
    /\ flushes < MaxFlushes
    /\ flushes' = flushes + 1
    /\ record' = [record EXCEPT !.tries = 0]
    /\ timers' = timers \ {record.id}
    /\ abandoned' = (abandoned \/ (flush # NoFlush /\ flush.id # record.id))
    /\ IF flush # NoFlush THEN UNCHANGED <<flush, shown>>
       ELSE IF record = NoRecord THEN shown' = "idle" /\ UNCHANGED flush
       ELSE /\ shown' = "saving"
            /\ flush' = [id |-> record.id, content |-> record.content,
                         at |-> "get", put |-> NoPut]
    /\ UNCHANGED <<file, news, editor, save, retry, ids, fresh, faults, written,
                   raced, declined, owed>>

\* getNote answers: the copy is sent under the hash of the file now, unless the
\* file is newer and the user keeps it.  A timer set since the flush began was
\* cancelled before getNote was called, or was set after that.
FlushSends ==
    /\ flush.at = "get"
    /\ timers' \in {timers, timers \ {flush.id}}
    /\ \/ /\ flush' = [flush EXCEPT !.at = "put", !.put = Sent(flush.content, file)]
          /\ UNCHANGED <<record, shown, declined, owed>>
       \/ /\ record' = IF record.id = flush.id THEN NoRecord ELSE record
          /\ flush' = NoFlush
          /\ shown' = IF record' = NoRecord THEN "idle" ELSE "retrying"
          /\ declined' = TRUE
          /\ owed' = None
    /\ UNCHANGED <<file, news, editor, save, retry, ids, fresh, faults, flushes,
                   written, raced, abandoned>>

\* listNotes or getNote fails: the flush ends with the record in the queue.
FlushFails ==
    /\ flush.at = "get"
    /\ Fault
    /\ flush' = NoFlush
    /\ abandoned' = TRUE
    /\ UNCHANGED <<file, news, editor, save, record, timers, retry, ids, shown,
                   fresh, flushes, written, raced, declined, owed>>

FlushEnds ==
    /\ flush.put.at \in Answers
    /\ flush' = NoFlush
    /\ LET answer == flush.put.at
       IN  /\ IF answer = "ok" THEN Dequeued(flush.id, flush.content)
              ELSE /\ record' = IF answer = "lost" /\ record.id = flush.id
                                THEN [record EXCEPT !.tries = 0] ELSE record
                   /\ UNCHANGED raced
           /\ abandoned' = (abandoned \/ answer \in {"conflict", "refused"})
           /\ timers' = IF answer = "lost" THEN timers \cup {flush.id} ELSE timers
           /\ shown' = CASE answer = "ok" -> IF record' = NoRecord THEN "saved" ELSE "retrying"
                         [] answer = "lost" -> "retrying"
                         [] OTHER -> "failed"
    /\ UNCHANGED <<file, news, editor, save, retry, ids, fresh, faults, flushes,
                   written, declined, owed>>

\* setState: "saved" is shown for a while.
SavedFades ==
    /\ shown = "saved"
    /\ shown' = "idle"
    /\ UNCHANGED <<file, news, editor, save, queue, fresh, faults, flushes, written,
                   history>>

Next ==
    \/ WrittenByOther \/ SaveDecided \/ RetryDecided \/ FlushDecided
    \/ Type \/ TimerFires \/ FlushSave \/ LoadNote \/ KeepMine \/ ToldOfChange
    \/ SaveSucceeds \/ SaveQueued \/ SaveThrows
    \/ RetryFires \/ RetrySucceeds \/ RetryFails
    \/ FlushStarts \/ FlushSends \/ FlushFails \/ FlushEnds \/ SavedFades

Spec == Init /\ [][Next]_vars

-----------------------------------------------------------------------------
(* Properties.                                                             *)

\* Contents on their way to the file.
Underway ==
    {pending, save.content, record.content, flush.content}
        \cup {r.record.content : r \in retry}

\* What the editor shows is never nowhere else: it has been in the file, or it
\* is waiting to be sent, in flight or in the queue, however saves, retries,
\* flushes, reloads and faults interleave.  The ways out are the user's choice
\* of the server's version and a record removed in the place of an older copy.
ShownKept == text \in written \cup Underway \/ raced \/ declined

\* A record in the queue always has a retry to come, a timer, a retry in flight
\* or a flush, until its retries are used up, however enqueues under its id,
\* cancelled timers and late answers interleave.  The queue gives a record up
\* only when the server refuses it, or a flush fails or is started over one.
RetryArmed ==
    \/ record = NoRecord
    \/ record.id \in timers
    \/ \E r \in retry : r.record.id = record.id
    \/ flush.id = record.id
    \/ record.tries >= MaxRetries
    \/ abandoned

\* docs/daemon-ux-resilience.md: "If save fails: ... changes queued in
\* IndexedDB", "Key outcome: User never silently loses work": a content that
\* was queued stays in the queue until it, or a later save, is written.
QueuedSaveKept == owed # None => record.content = owed

=============================================================================
