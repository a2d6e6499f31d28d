---------------------------- MODULE NoteSaveProofs ----------------------------
(***************************************************************************)
(* Safety proofs for NoteSave, for every number of contents, faults,       *)
(* flushes and retries.                                                    *)
(***************************************************************************)
EXTENDS NoteSave, TLAPS

(***************************************************************************)
(* What a PUT carries is what the queue, or the auto-save, holds for it,   *)
(* and a PUT that succeeded has been written.                              *)
(***************************************************************************)
PutsTrue ==
    /\ file \in written
    /\ save.at = "none" => save = NoPut
    /\ save.at # "none" => save.content \in Contents
    /\ save.at = "ok" => save.content \in written
    /\ record = NoRecord \/ (record.id >= 1 /\ record.content \in Contents)
    /\ \A r \in retry :
          /\ r.record.id >= 1
          /\ r.record.content \in Contents
          /\ r.put.content = r.record.content
          /\ r.put.at = "ok" => r.record.content \in written
    /\ flush = NoFlush \/ (flush.id >= 1 /\ flush.content \in Contents)
    /\ flush.put.at # "none" => flush.put.content = flush.content
    /\ flush.put.at # "none" => flush # NoFlush
    /\ flush.put.at = "ok" => flush.content \in written

\* Every record and every retry of one has been paid for by a fault.
Counted ==
    /\ IF save.at = "lost" THEN ids + 1 <= faults ELSE ids <= faults
    /\ record.tries <= faults
    /\ \A r \in retry :
          IF r.put.at = "lost" THEN r.record.tries + 1 <= faults
          ELSE r.record.tries <= faults

(***************************************************************************)
(* ShownKept is not inductive: a save that succeeds empties the queue, so  *)
(* what the editor shows must not be there alone while a save is in        *)
(* flight.  It is pending or being sent, and in the queue only afterwards. *)
(***************************************************************************)
Whereabouts ==
    /\ pending = None \/ pending = text
    /\ \/ text \in written
       \/ text = pending
       \/ text = save.content
       \/ save = NoPut /\ (text = record.content \/ raced \/ declined)

IInv == TypeOK /\ PutsTrue /\ Counted /\ Whereabouts /\ RetryArmed

LEMMA InitIInv == Init => IInv
  <1> SUFFICES ASSUME Init
               PROVE  IInv
    OBVIOUS
  <1> USE SaveAssumption DEF Init, Contents, None, Blank, NoPut, NoRecord, NoFlush, Answers, Put, Record
  <1>1. 1 \in Contents
    OBVIOUS
  <1>2. dirty \in BOOLEAN /\ inflight \in BOOLEAN /\ timer \in BOOLEAN
    OBVIOUS
  <1>3. raced \in BOOLEAN /\ abandoned \in BOOLEAN /\ declined \in BOOLEAN
    OBVIOUS
  <1>4. EditorOK
    BY <1>1, <1>2 DEF EditorOK
  <1>5. QueueOK
    BY DEF QueueOK
  <1>6. TypeOK
    BY <1>1, <1>3, <1>4, <1>5 DEF TypeOK
  <1> QED
    BY <1>6 DEF IInv, PutsTrue, Counted, Whereabouts, RetryArmed

LEMMA StepIInv == IInv /\ [Next]_vars => IInv'
  <1> SUFFICES ASSUME IInv, [Next]_vars
               PROVE  IInv'
    OBVIOUS
  <1> USE SaveAssumption DEF Contents, None, Blank, NoPut, NoRecord, NoFlush, Answers, Put, Record
  <1>1. CASE WrittenByOther
    <2>1. EditorOK'
      BY <1>1 DEF IInv, TypeOK, EditorOK, QueueOK, PutsTrue, Counted, WrittenByOther, NewContent, Writes, editor, queue, history
    <2>2. QueueOK'
      BY <1>1 DEF IInv, TypeOK, EditorOK, QueueOK, PutsTrue, Counted, WrittenByOther, NewContent, Writes, editor, queue, history
    <2>3. TypeOK'
      BY <1>1, <2>1, <2>2 DEF IInv, TypeOK, PutsTrue, QueueOK, EditorOK, WrittenByOther, NewContent, Writes, editor, queue, history
    <2>4. PutsTrue'
      BY <1>1 DEF IInv, TypeOK, EditorOK, QueueOK, PutsTrue, Counted, WrittenByOther, NewContent, Writes, editor, queue, history
    <2>5. Counted'
      BY <1>1 DEF IInv, TypeOK, EditorOK, QueueOK, PutsTrue, Counted, WrittenByOther, NewContent, Writes, editor, queue, history
    <2>6. Whereabouts'
      BY <1>1 DEF IInv, TypeOK, EditorOK, QueueOK, PutsTrue, Counted, Whereabouts, WrittenByOther, NewContent, Writes, editor, queue, history
    <2>7. RetryArmed'
      BY <1>1 DEF IInv, TypeOK, EditorOK, QueueOK, PutsTrue, Counted, RetryArmed, WrittenByOther, NewContent, Writes, editor, queue, history
    <2> QED
      BY <2>3, <2>4, <2>5, <2>6, <2>7 DEF IInv
  <1>2. CASE SaveDecided
    <2>1. EditorOK'
      BY <1>2 DEF IInv, TypeOK, EditorOK, QueueOK, PutsTrue, Counted, SaveDecided, Decides, Writes, Fault, Conflicts, editor, queue, history
    <2>2. QueueOK'
      BY <1>2 DEF IInv, TypeOK, EditorOK, QueueOK, PutsTrue, Counted, SaveDecided, Decides, Writes, Fault, Conflicts, editor, queue, history
    <2>3. TypeOK'
      BY <1>2, <2>1, <2>2 DEF IInv, TypeOK, PutsTrue, QueueOK, EditorOK, SaveDecided, Decides, Writes, Fault, Conflicts, editor, queue, history
    <2>4. PutsTrue'
      BY <1>2 DEF IInv, TypeOK, EditorOK, QueueOK, PutsTrue, Counted, SaveDecided, Decides, Writes, Fault, Conflicts, editor, queue, history
    <2>5. Counted'
      BY <1>2 DEF IInv, TypeOK, EditorOK, QueueOK, PutsTrue, Counted, SaveDecided, Decides, Writes, Fault, Conflicts, editor, queue, history
    <2>6. Whereabouts'
      BY <1>2 DEF IInv, TypeOK, EditorOK, QueueOK, PutsTrue, Counted, Whereabouts, SaveDecided, Decides, Writes, Fault, Conflicts, editor, queue, history
    <2>7. RetryArmed'
      BY <1>2 DEF IInv, TypeOK, EditorOK, QueueOK, PutsTrue, Counted, RetryArmed, SaveDecided, Decides, Writes, Fault, Conflicts, editor, queue, history
    <2> QED
      BY <2>3, <2>4, <2>5, <2>6, <2>7 DEF IInv
  <1>3. CASE RetryDecided
    <2>1. EditorOK'
      BY <1>3 DEF IInv, TypeOK, EditorOK, QueueOK, PutsTrue, Counted, RetryDecided, Decides, Writes, Fault, Conflicts, editor, queue, history
    <2>2. QueueOK'
      BY <1>3 DEF IInv, TypeOK, EditorOK, QueueOK, PutsTrue, Counted, RetryDecided, Decides, Writes, Fault, Conflicts, editor, queue, history
    <2>3. TypeOK'
      BY <1>3, <2>1, <2>2 DEF IInv, TypeOK, PutsTrue, QueueOK, EditorOK, RetryDecided, Decides, Writes, Fault, Conflicts, editor, queue, history
    <2>4. PutsTrue'
      BY <1>3 DEF IInv, TypeOK, EditorOK, QueueOK, PutsTrue, Counted, RetryDecided, Decides, Writes, Fault, Conflicts, editor, queue, history
    <2>5. Counted'
      BY <1>3 DEF IInv, TypeOK, EditorOK, QueueOK, PutsTrue, Counted, RetryDecided, Decides, Writes, Fault, Conflicts, editor, queue, history
    <2>6. Whereabouts'
      BY <1>3 DEF IInv, TypeOK, EditorOK, QueueOK, PutsTrue, Counted, Whereabouts, RetryDecided, Decides, Writes, Fault, Conflicts, editor, queue, history
    <2>7. RetryArmed'
      <3>1. PICK r \in retry, answer \in Answers :
                retry' = (retry \ {r}) \cup {[r EXCEPT !.put.at = answer]}
        BY <1>3 DEF RetryDecided
      <3>2. /\ record' = record /\ timers' = timers /\ flush' = flush
            /\ abandoned' = abandoned
        BY <1>3 DEF RetryDecided, queue
      <3>3. [r EXCEPT !.put.at = answer].record = r.record
        BY DEF IInv, TypeOK, QueueOK
      <3>4. \A q \in retry : \E p \in retry' : p.record = q.record
        BY <3>1, <3>3
      <3> QED
        BY <3>2, <3>4 DEF IInv, RetryArmed
    <2> QED
      BY <2>3, <2>4, <2>5, <2>6, <2>7 DEF IInv
  <1>4. CASE FlushDecided
    <2>1. EditorOK'
      BY <1>4 DEF IInv, TypeOK, EditorOK, QueueOK, PutsTrue, Counted, FlushDecided, Decides, Writes, Fault, Conflicts, editor, queue, history
    <2>2. QueueOK'
      BY <1>4 DEF IInv, TypeOK, EditorOK, QueueOK, PutsTrue, Counted, FlushDecided, Decides, Writes, Fault, Conflicts, editor, queue, history
    <2>3. TypeOK'
      BY <1>4, <2>1, <2>2 DEF IInv, TypeOK, PutsTrue, QueueOK, EditorOK, FlushDecided, Decides, Writes, Fault, Conflicts, editor, queue, history
    <2>4. PutsTrue'
      BY <1>4 DEF IInv, TypeOK, EditorOK, QueueOK, PutsTrue, Counted, FlushDecided, Decides, Writes, Fault, Conflicts, editor, queue, history
    <2>5. Counted'
      BY <1>4 DEF IInv, TypeOK, EditorOK, QueueOK, PutsTrue, Counted, FlushDecided, Decides, Writes, Fault, Conflicts, editor, queue, history
    <2>6. Whereabouts'
      BY <1>4 DEF IInv, TypeOK, EditorOK, QueueOK, PutsTrue, Counted, Whereabouts, FlushDecided, Decides, Writes, Fault, Conflicts, editor, queue, history
    <2>7. RetryArmed'
      BY <1>4 DEF IInv, TypeOK, EditorOK, QueueOK, PutsTrue, Counted, RetryArmed, FlushDecided, Decides, Writes, Fault, Conflicts, editor, queue, history
    <2> QED
      BY <2>3, <2>4, <2>5, <2>6, <2>7 DEF IInv
  <1>5. CASE Type
    <2>1. EditorOK'
      BY <1>5 DEF IInv, TypeOK, EditorOK, QueueOK, PutsTrue, Counted, Type, NewContent, editor, queue, history
    <2>2. QueueOK'
      BY <1>5 DEF IInv, TypeOK, EditorOK, QueueOK, PutsTrue, Counted, Type, NewContent, editor, queue, history
    <2>3. TypeOK'
      BY <1>5, <2>1, <2>2 DEF IInv, TypeOK, PutsTrue, QueueOK, EditorOK, Type, NewContent, editor, queue, history
    <2>4. PutsTrue'
      BY <1>5 DEF IInv, TypeOK, EditorOK, QueueOK, PutsTrue, Counted, Type, NewContent, editor, queue, history
    <2>5. Counted'
      BY <1>5 DEF IInv, TypeOK, EditorOK, QueueOK, PutsTrue, Counted, Type, NewContent, editor, queue, history
    <2>6. Whereabouts'
      BY <1>5 DEF IInv, TypeOK, EditorOK, QueueOK, PutsTrue, Counted, Whereabouts, Type, NewContent, editor, queue, history
    <2>7. RetryArmed'
      BY <1>5 DEF IInv, TypeOK, EditorOK, QueueOK, PutsTrue, Counted, RetryArmed, Type, NewContent, editor, queue, history
    <2> QED
      BY <2>3, <2>4, <2>5, <2>6, <2>7 DEF IInv
  <1>6. CASE TimerFires
    <2>1. EditorOK'
      BY <1>6 DEF IInv, TypeOK, EditorOK, QueueOK, PutsTrue, Counted, TimerFires, RunSave, Saves, Sent, editor, queue, history
    <2>2. QueueOK'
      BY <1>6 DEF IInv, TypeOK, EditorOK, QueueOK, PutsTrue, Counted, TimerFires, RunSave, Saves, Sent, editor, queue, history
    <2>3. TypeOK'
      BY <1>6, <2>1, <2>2 DEF IInv, TypeOK, PutsTrue, QueueOK, EditorOK, TimerFires, RunSave, Saves, Sent, editor, queue, history
    <2>4. PutsTrue'
      BY <1>6 DEF IInv, TypeOK, EditorOK, QueueOK, PutsTrue, Counted, TimerFires, RunSave, Saves, Sent, editor, queue, history
    <2>5. Counted'
      BY <1>6 DEF IInv, TypeOK, EditorOK, QueueOK, PutsTrue, Counted, TimerFires, RunSave, Saves, Sent, editor, queue, history
    <2>6. Whereabouts'
      BY <1>6 DEF IInv, TypeOK, EditorOK, QueueOK, PutsTrue, Counted, Whereabouts, TimerFires, RunSave, Saves, Sent, editor, queue, history
    <2>7. RetryArmed'
      BY <1>6 DEF IInv, TypeOK, EditorOK, QueueOK, PutsTrue, Counted, RetryArmed, TimerFires, RunSave, Saves, Sent, editor, queue, history
    <2> QED
      BY <2>3, <2>4, <2>5, <2>6, <2>7 DEF IInv
  <1>7. CASE FlushSave
    <2>1. EditorOK'
      BY <1>7 DEF IInv, TypeOK, EditorOK, QueueOK, PutsTrue, Counted, FlushSave, RunSave, Saves, Sent, editor, queue, history
    <2>2. QueueOK'
      BY <1>7 DEF IInv, TypeOK, EditorOK, QueueOK, PutsTrue, Counted, FlushSave, RunSave, Saves, Sent, editor, queue, history
    <2>3. TypeOK'
      BY <1>7, <2>1, <2>2 DEF IInv, TypeOK, PutsTrue, QueueOK, EditorOK, FlushSave, RunSave, Saves, Sent, editor, queue, history
    <2>4. PutsTrue'
      BY <1>7 DEF IInv, TypeOK, EditorOK, QueueOK, PutsTrue, Counted, FlushSave, RunSave, Saves, Sent, editor, queue, history
    <2>5. Counted'
      BY <1>7 DEF IInv, TypeOK, EditorOK, QueueOK, PutsTrue, Counted, FlushSave, RunSave, Saves, Sent, editor, queue, history
    <2>6. Whereabouts'
      BY <1>7 DEF IInv, TypeOK, EditorOK, QueueOK, PutsTrue, Counted, Whereabouts, FlushSave, RunSave, Saves, Sent, editor, queue, history
    <2>7. RetryArmed'
      BY <1>7 DEF IInv, TypeOK, EditorOK, QueueOK, PutsTrue, Counted, RetryArmed, FlushSave, RunSave, Saves, Sent, editor, queue, history
    <2> QED
      BY <2>3, <2>4, <2>5, <2>6, <2>7 DEF IInv
  <1>8. CASE LoadNote
    <2>1. EditorOK'
      BY <1>8 DEF IInv, TypeOK, EditorOK, QueueOK, PutsTrue, Counted, LoadNote, Loads, editor, queue, history
    <2>2. QueueOK'
      BY <1>8 DEF IInv, TypeOK, EditorOK, QueueOK, PutsTrue, Counted, LoadNote, Loads, editor, queue, history
    <2>3. TypeOK'
      BY <1>8, <2>1, <2>2 DEF IInv, TypeOK, PutsTrue, QueueOK, EditorOK, LoadNote, Loads, editor, queue, history
    <2>4. PutsTrue'
      BY <1>8 DEF IInv, TypeOK, EditorOK, QueueOK, PutsTrue, Counted, LoadNote, Loads, editor, queue, history
    <2>5. Counted'
      BY <1>8 DEF IInv, TypeOK, EditorOK, QueueOK, PutsTrue, Counted, LoadNote, Loads, editor, queue, history
    <2>6. Whereabouts'
      BY <1>8 DEF IInv, TypeOK, EditorOK, QueueOK, PutsTrue, Counted, Whereabouts, LoadNote, Loads, editor, queue, history
    <2>7. RetryArmed'
      BY <1>8 DEF IInv, TypeOK, EditorOK, QueueOK, PutsTrue, Counted, RetryArmed, LoadNote, Loads, editor, queue, history
    <2> QED
      BY <2>3, <2>4, <2>5, <2>6, <2>7 DEF IInv
  <1>9. CASE KeepMine
    <2>1. EditorOK'
      BY <1>9 DEF IInv, TypeOK, EditorOK, QueueOK, PutsTrue, Counted, KeepMine, editor, queue, history
    <2>2. QueueOK'
      BY <1>9 DEF IInv, TypeOK, EditorOK, QueueOK, PutsTrue, Counted, KeepMine, editor, queue, history
    <2>3. TypeOK'
      BY <1>9, <2>1, <2>2 DEF IInv, TypeOK, PutsTrue, QueueOK, EditorOK, KeepMine, editor, queue, history
    <2>4. PutsTrue'
      BY <1>9 DEF IInv, TypeOK, EditorOK, QueueOK, PutsTrue, Counted, KeepMine, editor, queue, history
    <2>5. Counted'
      BY <1>9 DEF IInv, TypeOK, EditorOK, QueueOK, PutsTrue, Counted, KeepMine, editor, queue, history
    <2>6. Whereabouts'
      BY <1>9 DEF IInv, TypeOK, EditorOK, QueueOK, PutsTrue, Counted, Whereabouts, KeepMine, editor, queue, history
    <2>7. RetryArmed'
      BY <1>9 DEF IInv, TypeOK, EditorOK, QueueOK, PutsTrue, Counted, RetryArmed, KeepMine, editor, queue, history
    <2> QED
      BY <2>3, <2>4, <2>5, <2>6, <2>7 DEF IInv
  <1>10. CASE ToldOfChange
    <2>1. EditorOK'
      BY <1>10 DEF IInv, TypeOK, EditorOK, QueueOK, PutsTrue, Counted, ToldOfChange, Loads, OwnEcho, editor, queue, history
    <2>2. QueueOK'
      BY <1>10 DEF IInv, TypeOK, EditorOK, QueueOK, PutsTrue, Counted, ToldOfChange, Loads, OwnEcho, editor, queue, history
    <2>3. TypeOK'
      BY <1>10, <2>1, <2>2 DEF IInv, TypeOK, PutsTrue, QueueOK, EditorOK, ToldOfChange, Loads, OwnEcho, editor, queue, history
    <2>4. PutsTrue'
      BY <1>10 DEF IInv, TypeOK, EditorOK, QueueOK, PutsTrue, Counted, ToldOfChange, Loads, OwnEcho, editor, queue, history
    <2>5. Counted'
      BY <1>10 DEF IInv, TypeOK, EditorOK, QueueOK, PutsTrue, Counted, ToldOfChange, Loads, OwnEcho, editor, queue, history
    <2>6. Whereabouts'
      BY <1>10 DEF IInv, TypeOK, EditorOK, QueueOK, PutsTrue, Counted, Whereabouts, ToldOfChange, Loads, OwnEcho, editor, queue, history
    <2>7. RetryArmed'
      BY <1>10 DEF IInv, TypeOK, EditorOK, QueueOK, PutsTrue, Counted, RetryArmed, ToldOfChange, Loads, OwnEcho, editor, queue, history
    <2> QED
      BY <2>3, <2>4, <2>5, <2>6, <2>7 DEF IInv
  <1>11. CASE SaveSucceeds
    <2>1. EditorOK'
      BY <1>11 DEF IInv, TypeOK, EditorOK, QueueOK, PutsTrue, Counted, SaveSucceeds, Saved, Loads, OwnEcho, Saves, Sent, Showing, editor, queue, history
    <2>2. QueueOK'
      <3>1. /\ record' = NoRecord /\ timers' \subseteq timers
            /\ retry' = retry /\ flush' = flush /\ ids' = ids
        BY <1>11 DEF SaveSucceeds, queue
      <3>2. NoRecord \in Record
        OBVIOUS
      <3> QED
        BY <3>1, <3>2 DEF IInv, TypeOK, QueueOK
    <2>3. TypeOK'
      BY <1>11, <2>1, <2>2 DEF IInv, TypeOK, PutsTrue, QueueOK, EditorOK, SaveSucceeds, Saved, Loads, OwnEcho, Saves, Sent, Showing, editor, queue, history
    <2>4. PutsTrue'
      BY <1>11 DEF IInv, TypeOK, EditorOK, QueueOK, PutsTrue, Counted, SaveSucceeds, Saved, Loads, OwnEcho, Saves, Sent, Showing, editor, queue, history
    <2>5. Counted'
      BY <1>11 DEF IInv, TypeOK, EditorOK, QueueOK, PutsTrue, Counted, SaveSucceeds, Saved, Loads, OwnEcho, Saves, Sent, Showing, editor, queue, history
    <2>6. Whereabouts'
      BY <1>11 DEF IInv, TypeOK, EditorOK, QueueOK, PutsTrue, Counted, Whereabouts, SaveSucceeds, Saved, Loads, OwnEcho, Saves, Sent, Showing, editor, queue, history
    <2>7. RetryArmed'
      BY <1>11 DEF IInv, TypeOK, EditorOK, QueueOK, PutsTrue, Counted, RetryArmed, SaveSucceeds, Saved, Loads, OwnEcho, Saves, Sent, Showing, editor, queue, history
    <2> QED
      BY <2>3, <2>4, <2>5, <2>6, <2>7 DEF IInv
  <1>12. CASE SaveQueued
    <2>1. EditorOK'
      BY <1>12 DEF IInv, TypeOK, EditorOK, QueueOK, PutsTrue, Counted, SaveQueued, Saved, Loads, OwnEcho, Saves, Sent, Showing, Enqueued, editor, queue, history
    <2>2. QueueOK'
      <3>1. save.content \in Contents /\ ids + 1 <= faults /\ faults <= MaxFaults
        BY <1>12 DEF IInv, TypeOK, PutsTrue, Counted, SaveQueued
      <3>2. /\ record' = Enqueued(save.content)
            /\ ids' = IF record = NoRecord THEN ids + 1 ELSE ids
            /\ timers' = timers \cup {record'.id}
            /\ retry' = retry /\ flush' = flush
        BY <1>12 DEF SaveQueued, queue
      <3>3. record' \in Record /\ ids' \in 0..MaxFaults /\ record'.id \in 1..MaxFaults
        BY <3>1, <3>2 DEF IInv, TypeOK, QueueOK, PutsTrue, Enqueued
      <3>4. timers' \subseteq 1..MaxFaults
        BY <3>2, <3>3 DEF IInv, TypeOK, QueueOK
      <3> QED
        BY <3>2, <3>3, <3>4 DEF IInv, TypeOK, QueueOK
    <2>3. TypeOK'
      <3>1. save' \in Put
        BY <1>12 DEF IInv, TypeOK, EditorOK, PutsTrue, SaveQueued, Saved, Loads, OwnEcho, Saves,
           Sent
      <3>2. shown' \in {"idle", "saving", "saved", "retrying", "failed"}
        BY <1>12 DEF SaveQueued, Showing
      <3>3. owed' \in Contents \cup {None}
        BY <1>12 DEF IInv, TypeOK, PutsTrue, SaveQueued
      <3>4. /\ file' = file /\ news' = news /\ written' = written /\ fresh' = fresh
            /\ faults' = faults /\ flushes' = flushes
            /\ raced' = raced /\ abandoned' = FALSE /\ declined' = declined
        BY <1>12 DEF SaveQueued
      <3> QED
        BY <2>1, <2>2, <3>1, <3>2, <3>3, <3>4 DEF IInv, TypeOK
    <2>4. PutsTrue'
      BY <1>12 DEF IInv, TypeOK, EditorOK, QueueOK, PutsTrue, Counted, SaveQueued, Saved, Loads, OwnEcho, Saves, Sent, Showing, Enqueued, editor, queue, history
    <2>5. Counted'
      BY <1>12 DEF IInv, TypeOK, EditorOK, QueueOK, PutsTrue, Counted, SaveQueued, Saved, Loads, OwnEcho, Saves, Sent, Showing, Enqueued, editor, queue, history
    <2>6. Whereabouts'
      BY <1>12 DEF IInv, TypeOK, EditorOK, QueueOK, PutsTrue, Counted, Whereabouts, SaveQueued, Saved, Loads, OwnEcho, Saves, Sent, Showing, Enqueued, editor, queue, history
    <2>7. RetryArmed'
      BY <1>12 DEF IInv, TypeOK, EditorOK, QueueOK, PutsTrue, Counted, RetryArmed, SaveQueued, Saved, Loads, OwnEcho, Saves, Sent, Showing, Enqueued, editor, queue, history
    <2> QED
      BY <2>3, <2>4, <2>5, <2>6, <2>7 DEF IInv
  <1>13. CASE SaveThrows
    <2>1. EditorOK'
      BY <1>13 DEF IInv, TypeOK, EditorOK, QueueOK, PutsTrue, Counted, SaveThrows, Saves, Sent, Showing, Kept, editor, queue, history
    <2>2. QueueOK'
      BY <1>13 DEF IInv, TypeOK, EditorOK, QueueOK, PutsTrue, Counted, SaveThrows, Saves, Sent, Showing, Kept, editor, queue, history
    <2>3. TypeOK'
      BY <1>13, <2>1, <2>2 DEF IInv, TypeOK, PutsTrue, QueueOK, EditorOK, SaveThrows, Saves, Sent, Showing, Kept, editor, queue, history
    <2>4. PutsTrue'
      BY <1>13 DEF IInv, TypeOK, EditorOK, QueueOK, PutsTrue, Counted, SaveThrows, Saves, Sent, Showing, Kept, editor, queue, history
    <2>5. Counted'
      BY <1>13 DEF IInv, TypeOK, EditorOK, QueueOK, PutsTrue, Counted, SaveThrows, Saves, Sent, Showing, Kept, editor, queue, history
    <2>6. Whereabouts'
      BY <1>13 DEF IInv, TypeOK, EditorOK, QueueOK, PutsTrue, Counted, Whereabouts, SaveThrows, Saves, Sent, Showing, Kept, editor, queue, history
    <2>7. RetryArmed'
      BY <1>13 DEF IInv, TypeOK, EditorOK, QueueOK, PutsTrue, Counted, RetryArmed, SaveThrows, Saves, Sent, Showing, Kept, editor, queue, history
    <2> QED
      BY <2>3, <2>4, <2>5, <2>6, <2>7 DEF IInv
  <1>14. CASE RetryFires
    <2>1. EditorOK'
      BY <1>14 DEF IInv, TypeOK, EditorOK, QueueOK, PutsTrue, Counted, RetryFires, Sent, editor, queue, history
    <2>2. QueueOK'
      BY <1>14 DEF IInv, TypeOK, EditorOK, QueueOK, PutsTrue, Counted, RetryFires, Sent, editor, queue, history
    <2>3. TypeOK'
      BY <1>14, <2>1, <2>2 DEF IInv, TypeOK, PutsTrue, QueueOK, EditorOK, RetryFires, Sent, editor, queue, history
    <2>4. PutsTrue'
      BY <1>14 DEF IInv, TypeOK, EditorOK, QueueOK, PutsTrue, Counted, RetryFires, Sent, editor, queue, history
    <2>5. Counted'
      BY <1>14 DEF IInv, TypeOK, EditorOK, QueueOK, PutsTrue, Counted, RetryFires, Sent, editor, queue, history
    <2>6. Whereabouts'
      BY <1>14 DEF IInv, TypeOK, EditorOK, QueueOK, PutsTrue, Counted, Whereabouts, RetryFires, Sent, editor, queue, history
    <2>7. RetryArmed'
      <3>1. PICK id \in timers :
                /\ timers' = timers \ {id}
                /\ IF record.id = id
                   THEN retry' = retry \cup {[record |-> record,
                                               put |-> Sent(record.content, None)]}
                   ELSE retry' = retry
        BY <1>14 DEF RetryFires
      <3>2. record' = record /\ flush' = flush /\ abandoned' = abandoned
        BY <1>14 DEF RetryFires, history
      <3>3. \A q \in retry : q \in retry'
        BY <3>1
      <3>4. CASE record.id = id
        <4> DEFINE q == [record |-> record, put |-> Sent(record.content, None)]
        <4>1. q \in retry' /\ q.record = record
          BY <3>1, <3>4
        <4> QED
          BY <3>2, <4>1 DEF RetryArmed
      <3>5. CASE record.id # id
        BY <3>1, <3>2, <3>3, <3>5 DEF IInv, RetryArmed
      <3> QED
        BY <3>4, <3>5
    <2> QED
      BY <2>3, <2>4, <2>5, <2>6, <2>7 DEF IInv
  <1>15. CASE RetrySucceeds
    <2>1. EditorOK'
      BY <1>15 DEF IInv, TypeOK, EditorOK, QueueOK, PutsTrue, Counted, RetrySucceeds, Dequeued, editor, queue, history
    <2>2. QueueOK'
      BY <1>15 DEF IInv, TypeOK, EditorOK, QueueOK, PutsTrue, Counted, RetrySucceeds, Dequeued, editor, queue, history
    <2>3. TypeOK'
      BY <1>15, <2>1, <2>2 DEF IInv, TypeOK, PutsTrue, QueueOK, EditorOK, RetrySucceeds, Dequeued, editor, queue, history
    <2>4. PutsTrue'
      BY <1>15 DEF IInv, TypeOK, EditorOK, QueueOK, PutsTrue, Counted, RetrySucceeds, Dequeued, editor, queue, history
    <2>5. Counted'
      BY <1>15 DEF IInv, TypeOK, EditorOK, QueueOK, PutsTrue, Counted, RetrySucceeds, Dequeued, editor, queue, history
    <2>6. Whereabouts'
      <3>1. PICK r \in retry : r.put.at = "ok" /\ Dequeued(r.record.id, r.record.content)
        BY <1>15 DEF RetrySucceeds
      <3>2. /\ written' = written /\ save' = save /\ declined' = declined
            /\ text' = text /\ pending' = pending
        BY <1>15 DEF RetrySucceeds, editor
      <3>3. r.record.content \in written
        BY <3>1 DEF IInv, PutsTrue
      <3>4. CASE record.id = r.record.id /\ record.content # r.record.content
        BY <3>1, <3>2, <3>4 DEF IInv, Whereabouts, Dequeued
      <3>5. CASE record.id = r.record.id => record.content = r.record.content
        <4>1. raced => raced'
          BY <3>1 DEF Dequeued
        <4>2. record' = record \/ record.content \in written
          BY <3>1, <3>3, <3>5 DEF Dequeued
        <4> QED
          BY <3>2, <4>1, <4>2 DEF IInv, Whereabouts
      <3> QED
        BY <3>4, <3>5
    <2>7. RetryArmed'
      BY <1>15 DEF IInv, TypeOK, EditorOK, QueueOK, PutsTrue, Counted, RetryArmed, RetrySucceeds, Dequeued, editor, queue, history
    <2> QED
      BY <2>3, <2>4, <2>5, <2>6, <2>7 DEF IInv
  <1>16. CASE RetryFails
    <2>1. EditorOK'
      BY <1>16 DEF IInv, TypeOK, EditorOK, QueueOK, PutsTrue, Counted, RetryFails, Again, editor, queue, history
    <2>2. QueueOK'
      BY <1>16 DEF IInv, TypeOK, EditorOK, QueueOK, PutsTrue, Counted, RetryFails, Again, editor, queue, history
    <2>3. TypeOK'
      BY <1>16, <2>1, <2>2 DEF IInv, TypeOK, PutsTrue, QueueOK, EditorOK, RetryFails, Again, editor, queue, history
    <2>4. PutsTrue'
      BY <1>16 DEF IInv, TypeOK, EditorOK, QueueOK, PutsTrue, Counted, RetryFails, Again, editor, queue, history
    <2>5. Counted'
      BY <1>16 DEF IInv, TypeOK, EditorOK, QueueOK, PutsTrue, Counted, RetryFails, Again, editor, queue, history
    <2>6. Whereabouts'
      BY <1>16 DEF IInv, TypeOK, EditorOK, QueueOK, PutsTrue, Counted, Whereabouts, RetryFails, Again, editor, queue, history
    <2>7. RetryArmed'
      <3>1. PICK r \in retry :
                /\ r.put.at \in {"refused", "lost"}
                /\ retry' = retry \ {r}
                /\ record' = IF r.put.at = "lost" /\ record.id = r.record.id
                             THEN [record EXCEPT !.tries = r.record.tries + 1] ELSE record
                /\ timers' = IF r.put.at = "lost" /\ Again(r.record.tries + 1)
                             THEN timers \cup {r.record.id} ELSE timers
                /\ abandoned' = (abandoned \/ r.put.at = "refused")
        BY <1>16 DEF RetryFails
      <3>2. flush' = flush
        BY <1>16 DEF RetryFails
      <3>3. CASE r.put.at = "refused"
        BY <3>1, <3>3 DEF RetryArmed
      <3>4. CASE r.put.at = "lost" /\ record.id = r.record.id
        BY <3>1, <3>4 DEF IInv, TypeOK, QueueOK, RetryArmed, Again
      <3>5. CASE r.put.at = "lost" /\ record.id # r.record.id
        <4>1. record' = record /\ timers \subseteq timers' /\ (abandoned => abandoned')
          BY <3>1, <3>5
        <4>2. \A q \in retry : q.record.id = record.id => q \in retry'
          BY <3>1, <3>5
        <4> QED
          BY <3>2, <4>1, <4>2 DEF IInv, RetryArmed
      <3> QED
        BY <3>1, <3>3, <3>4, <3>5
    <2> QED
      BY <2>3, <2>4, <2>5, <2>6, <2>7 DEF IInv
  <1>17. CASE FlushStarts
    <2>1. EditorOK'
      BY <1>17 DEF IInv, TypeOK, EditorOK, QueueOK, PutsTrue, Counted, FlushStarts, editor, queue, history
    <2>2. QueueOK'
      BY <1>17 DEF IInv, TypeOK, EditorOK, QueueOK, PutsTrue, Counted, FlushStarts, editor, queue, history
    <2>3. TypeOK'
      BY <1>17, <2>1, <2>2 DEF IInv, TypeOK, PutsTrue, QueueOK, EditorOK, FlushStarts, editor, queue, history
    <2>4. PutsTrue'
      BY <1>17 DEF IInv, TypeOK, EditorOK, QueueOK, PutsTrue, Counted, FlushStarts, editor, queue, history
    <2>5. Counted'
      BY <1>17 DEF IInv, TypeOK, EditorOK, QueueOK, PutsTrue, Counted, FlushStarts, editor, queue, history
    <2>6. Whereabouts'
      BY <1>17 DEF IInv, TypeOK, EditorOK, QueueOK, PutsTrue, Counted, Whereabouts, FlushStarts, editor, queue, history
    <2>7. RetryArmed'
      <3>1. record' = [record EXCEPT !.tries = 0] /\ record'.id = record.id
        BY <1>17 DEF IInv, TypeOK, QueueOK, FlushStarts
      <3>2. CASE record = NoRecord
        BY <3>1, <3>2 DEF RetryArmed
      <3>3. CASE record # NoRecord /\ flush = NoFlush
        BY <1>17, <3>1, <3>3 DEF FlushStarts, RetryArmed
      <3>4. CASE flush # NoFlush
        BY <1>17, <3>1, <3>4 DEF FlushStarts, RetryArmed
      <3> QED
        BY <3>2, <3>3, <3>4
    <2> QED
      BY <2>3, <2>4, <2>5, <2>6, <2>7 DEF IInv
  <1>18. CASE FlushSends
    <2>1. EditorOK'
      BY <1>18 DEF IInv, TypeOK, EditorOK, QueueOK, PutsTrue, Counted, FlushSends, Sent, editor, queue, history
    <2>2. QueueOK'
      <3>1. flush.at = "get" /\ flush # NoFlush
        BY <1>18 DEF FlushSends
      <3>2. CASE flush' = [flush EXCEPT !.at = "put", !.put = Sent(flush.content, file)]
                 /\ UNCHANGED <<record, shown, declined, owed>>
        <4>1. Sent(flush.content, file) \in Put
          BY <3>1 DEF IInv, TypeOK, QueueOK, PutsTrue, Sent
        <4> QED
          BY <1>18, <3>2, <4>1 DEF IInv, TypeOK, QueueOK, FlushSends
      <3>3. CASE /\ record' = IF record.id = flush.id THEN NoRecord ELSE record
                 /\ flush' = NoFlush
                 /\ shown' = IF record' = NoRecord THEN "idle" ELSE "retrying"
                 /\ declined' = TRUE
                 /\ owed' = None
        BY <1>18, <3>3 DEF IInv, TypeOK, QueueOK, FlushSends
      <3> QED
        BY <1>18, <3>2, <3>3 DEF FlushSends
    <2>3. TypeOK'
      <3>1. flush.at = "get" /\ flush # NoFlush
        BY <1>18 DEF FlushSends
      <3>2. CASE flush' = [flush EXCEPT !.at = "put", !.put = Sent(flush.content, file)]
                 /\ UNCHANGED <<record, shown, declined, owed>>
        BY <1>18, <2>1, <2>2, <3>2 DEF IInv, TypeOK, FlushSends
      <3>3. CASE /\ record' = IF record.id = flush.id THEN NoRecord ELSE record
                 /\ flush' = NoFlush
                 /\ shown' = IF record' = NoRecord THEN "idle" ELSE "retrying"
                 /\ declined' = TRUE
                 /\ owed' = None
        BY <1>18, <2>1, <2>2, <3>3 DEF IInv, TypeOK, FlushSends
      <3> QED
        BY <1>18, <3>2, <3>3 DEF FlushSends
    <2>4. PutsTrue'
      <3>1. flush.at = "get" /\ flush # NoFlush
        BY <1>18 DEF FlushSends
      <3>2. CASE flush' = [flush EXCEPT !.at = "put", !.put = Sent(flush.content, file)]
                 /\ UNCHANGED <<record, shown, declined, owed>>
        BY <1>18, <3>1, <3>2 DEF IInv, TypeOK, QueueOK, PutsTrue, FlushSends, Sent
      <3>3. CASE /\ record' = IF record.id = flush.id THEN NoRecord ELSE record
                 /\ flush' = NoFlush
                 /\ shown' = IF record' = NoRecord THEN "idle" ELSE "retrying"
                 /\ declined' = TRUE
                 /\ owed' = None
        BY <1>18, <3>3 DEF IInv, TypeOK, QueueOK, PutsTrue, FlushSends
      <3> QED
        BY <1>18, <3>2, <3>3 DEF FlushSends
    <2>5. Counted'
      BY <1>18 DEF IInv, TypeOK, EditorOK, QueueOK, PutsTrue, Counted, FlushSends, Sent, editor, queue, history
    <2>6. Whereabouts'
      BY <1>18 DEF IInv, TypeOK, EditorOK, QueueOK, PutsTrue, Counted, Whereabouts, FlushSends, Sent, editor, queue, history
    <2>7. RetryArmed'
      BY <1>18 DEF IInv, TypeOK, EditorOK, QueueOK, PutsTrue, Counted, RetryArmed, FlushSends, Sent, editor, queue, history
    <2> QED
      BY <2>3, <2>4, <2>5, <2>6, <2>7 DEF IInv
  <1>19. CASE FlushFails
    <2>1. EditorOK'
      BY <1>19 DEF IInv, TypeOK, EditorOK, QueueOK, PutsTrue, Counted, FlushFails, Fault, editor, queue, history
    <2>2. QueueOK'
      BY <1>19 DEF IInv, TypeOK, EditorOK, QueueOK, PutsTrue, Counted, FlushFails, Fault, editor, queue, history
    <2>3. TypeOK'
      BY <1>19, <2>1, <2>2 DEF IInv, TypeOK, PutsTrue, QueueOK, EditorOK, FlushFails, Fault, editor, queue, history
    <2>4. PutsTrue'
      BY <1>19 DEF IInv, TypeOK, EditorOK, QueueOK, PutsTrue, Counted, FlushFails, Fault, editor, queue, history
    <2>5. Counted'
      BY <1>19 DEF IInv, TypeOK, EditorOK, QueueOK, PutsTrue, Counted, FlushFails, Fault, editor, queue, history
    <2>6. Whereabouts'
      BY <1>19 DEF IInv, TypeOK, EditorOK, QueueOK, PutsTrue, Counted, Whereabouts, FlushFails, Fault, editor, queue, history
    <2>7. RetryArmed'
      BY <1>19 DEF IInv, TypeOK, EditorOK, QueueOK, PutsTrue, Counted, RetryArmed, FlushFails, Fault, editor, queue, history
    <2> QED
      BY <2>3, <2>4, <2>5, <2>6, <2>7 DEF IInv
  <1>20. CASE FlushEnds
    <2>1. EditorOK'
      BY <1>20 DEF IInv, TypeOK, EditorOK, QueueOK, PutsTrue, Counted, FlushEnds, Dequeued, editor, queue, history
    <2>2. QueueOK'
      BY <1>20 DEF IInv, TypeOK, EditorOK, QueueOK, PutsTrue, Counted, FlushEnds, Dequeued, editor, queue, history
    <2>3. TypeOK'
      BY <1>20, <2>1, <2>2 DEF IInv, TypeOK, PutsTrue, QueueOK, EditorOK, FlushEnds, Dequeued, editor, queue, history
    <2>4. PutsTrue'
      BY <1>20 DEF IInv, TypeOK, EditorOK, QueueOK, PutsTrue, Counted, FlushEnds, Dequeued, editor, queue, history
    <2>5. Counted'
      BY <1>20 DEF IInv, TypeOK, EditorOK, QueueOK, PutsTrue, Counted, FlushEnds, Dequeued, editor, queue, history
    <2>6. Whereabouts'
      BY <1>20 DEF IInv, TypeOK, EditorOK, QueueOK, PutsTrue, Counted, Whereabouts, FlushEnds, Dequeued, editor, queue, history
    <2>7. RetryArmed'
      BY <1>20 DEF IInv, TypeOK, EditorOK, QueueOK, PutsTrue, Counted, RetryArmed, FlushEnds, Dequeued, editor, queue, history
    <2> QED
      BY <2>3, <2>4, <2>5, <2>6, <2>7 DEF IInv
  <1>21. CASE SavedFades
    <2>1. EditorOK'
      BY <1>21 DEF IInv, TypeOK, EditorOK, QueueOK, PutsTrue, Counted, SavedFades, editor, queue, history
    <2>2. QueueOK'
      BY <1>21 DEF IInv, TypeOK, EditorOK, QueueOK, PutsTrue, Counted, SavedFades, editor, queue, history
    <2>3. TypeOK'
      BY <1>21, <2>1, <2>2 DEF IInv, TypeOK, PutsTrue, QueueOK, EditorOK, SavedFades, editor, queue, history
    <2>4. PutsTrue'
      BY <1>21 DEF IInv, TypeOK, EditorOK, QueueOK, PutsTrue, Counted, SavedFades, editor, queue, history
    <2>5. Counted'
      BY <1>21 DEF IInv, TypeOK, EditorOK, QueueOK, PutsTrue, Counted, SavedFades, editor, queue, history
    <2>6. Whereabouts'
      BY <1>21 DEF IInv, TypeOK, EditorOK, QueueOK, PutsTrue, Counted, Whereabouts, SavedFades, editor, queue, history
    <2>7. RetryArmed'
      BY <1>21 DEF IInv, TypeOK, EditorOK, QueueOK, PutsTrue, Counted, RetryArmed, SavedFades, editor, queue, history
    <2> QED
      BY <2>3, <2>4, <2>5, <2>6, <2>7 DEF IInv
  <1>22. CASE UNCHANGED vars
    BY <1>22 DEF IInv, EditorOK, QueueOK, TypeOK, PutsTrue, Counted, Whereabouts, RetryArmed, vars, editor, queue, history
  <1> QED
    BY <1>1, <1>2, <1>3, <1>4, <1>5, <1>6, <1>7, <1>8, <1>9, <1>10, <1>11, <1>12, <1>13, <1>14, <1>15, <1>16, <1>17, <1>18, <1>19, <1>20, <1>21, <1>22 DEF Next

LEMMA SpecIInv == Spec => []IInv
  BY InitIInv, StepIInv, PTL DEF Spec

\* No interleaving of saves, retries, flushes and reloads takes a hash, a
\* record, a PUT or a count out of its type.
THEOREM TypeCorrect == Spec => []TypeOK
  <1>1. IInv => TypeOK
    BY DEF IInv
  <1> QED
    BY <1>1, SpecIInv, PTL

\* The text in the editor has been in the file, or some part of the save path
\* still holds it, however many saves are lost, refused, retried and flushed.
THEOREM ShownTextKept == Spec => []ShownKept
  <1>1. IInv => ShownKept
    BY DEF IInv, Whereabouts, ShownKept, Underway
  <1> QED
    BY <1>1, SpecIInv, PTL

\* A queued save keeps a retry to come until its retries are used up, for every
\* order of enqueues, cancelled timers and late answers.
THEOREM QueuedSaveRetried == Spec => []RetryArmed
  <1>1. IInv => RetryArmed
    BY DEF IInv
  <1> QED
    BY <1>1, SpecIInv, PTL

=============================================================================
