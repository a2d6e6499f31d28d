----------------------------- MODULE EventStream -----------------------------
(***************************************************************************)
(* The daemon's change notifications: events.rs numbers an event, keeps it *)
(* in a ring buffer and broadcasts it; routes/events.rs serves them to a   *)
(* client as Server-Sent Events, replaying the buffer after the client's   *)
(* cursor; ui/app/src/lib/sse.ts is the client, which reconnects with the  *)
(* last id it has seen and reloads its notes (app-shell-core.ts) when it   *)
(* does.                                                                   *)
(*                                                                         *)
(* The notes a client loads come from the SQLite cache (list_notes), and   *)
(* the routes that change a note do not touch it: they write the file and  *)
(* emit.  The cache is brought up to date by the vault's file watcher,     *)
(* which emits an event of its own once it has.  A route's event therefore *)
(* promises nothing about what a reload shows, the watcher's does.         *)
(* What the watcher and the canary leave out of the cache is the subject   *)
(* of VaultIndex.                                                          *)
(*                                                                         *)
(* Emitters and connection handlers run on different threads.  They share  *)
(* the id counter, the buffer's lock and the channel, but no lock is held  *)
(* from one of these to the next.                                          *)
(***************************************************************************)
EXTENDS Integers, Sequences, FiniteSets

CONSTANTS
    None,
    Emitter,            \* threads that emit events
    Watcher,            \* the one among them that watches the clients' vault
    Client,             \* clients, all of one vault
    BufferCapacity,     \* EVENT_BUFFER_CAPACITY
    ChannelCapacity,    \* EVENT_CHANNEL_CAPACITY
    MaxEvents,          \* BOUND: events, and changes indexed, of one life
                        \* of the daemon
    MaxDrops,           \* BOUND: connections lost
    MaxRestarts         \* BOUND: shutdowns followed by a restart

Id == 1..MaxEvents

\* matters: matches_vault_stream lets it through (the client's vault, _system).
\* named: its type is one of the client's NAMED_EVENT_TYPES (note.clipped,
\* periodic.created and the job events are not).
\* change: for the watcher's note.updated and note.deleted, which change of the
\* cache it is about; 0 for every other event.
Event ==
    {event \in [id : Id, matters : BOOLEAN, named : BOOLEAN,
                change : 0..MaxEvents] :
        event.change # 0 => event.matters /\ event.named}

ASSUME EventStreamAssumption ==
    /\ BufferCapacity \in Nat \ {0}
    /\ ChannelCapacity \in Nat \ {0}
    /\ MaxEvents \in Nat
    /\ MaxDrops \in Nat
    /\ MaxRestarts \in Nat
    /\ None \notin Id
    /\ None \notin Event
    /\ Watcher \in Emitter
    /\ IsFiniteSet(Client)

VARIABLES
    next_id,        \* EventBuffer.next_id
    buffer,         \* EventBuffer.events
    held,           \* the event each emitter is emitting, or None
    emitted,        \* how far it is: "numbered" or "buffered"
    sent,           \* what the channel was sent; it keeps the last of these
    indexed,        \* changes the watcher has stored in the cache
    announced,      \* how many of these it is done with
    shutdown,       \* the value of the shutdown watch channel
    connections,    \* sse_connection_count
    phase,          \* where each client's connection is
    first_open,     \* isFirstOpen of connectSSE
    resync_due,     \* performResync has been called and not finished
    last_event_id,  \* lastEventId of connectSSE
    replay,         \* replayed events not yet streamed
    rx,             \* position of the connection's Receiver in sent
    drops, restarts,
    \* History variables.
    cursor,         \* the last_event_id the connection was opened with
    received,       \* the events each client's streams brought
    loaded,         \* how many changes of the cache its notes reflect
    resynced,       \* the client reloaded its notes on this connection
    silent,         \* changes stored for which no event was emitted
    lagged          \* the connection skipped events of a full channel

daemon == <<next_id, buffer, held, emitted, sent>>
index == <<indexed, announced, silent>>
streams == <<connections, phase, replay, rx, cursor, lagged>>
shell == <<first_open, resync_due, last_event_id, received, loaded, resynced>>
bounds == <<drops, restarts>>
vars == <<daemon, index, shutdown, streams, shell, bounds>>

Phase == {"loading", "connecting", "replayed", "opening", "streaming", "retry"}
Connected == {"opening", "streaming"}

TypeOK ==
    /\ next_id \in 1..(MaxEvents + 1)
    /\ buffer \in Seq(Event) /\ Len(buffer) <= BufferCapacity
    /\ held \in [Emitter -> Event \cup {None}]
    /\ emitted \in [Emitter -> {"numbered", "buffered"}]
    /\ sent \in Seq(Event)
    /\ indexed \in 0..MaxEvents
    /\ announced \in 0..MaxEvents
    /\ silent \subseteq 1..MaxEvents
    /\ shutdown \in BOOLEAN
    /\ connections \in Nat
    /\ phase \in [Client -> Phase]
    /\ first_open \in [Client -> BOOLEAN]
    /\ resync_due \in [Client -> BOOLEAN]
    /\ last_event_id \in [Client -> Id \cup {None}]
    /\ replay \in [Client -> Seq(Event)]
    /\ rx \in [Client -> Nat \ {0}]
    /\ drops \in 0..MaxDrops
    /\ restarts \in 0..MaxRestarts
    /\ cursor \in [Client -> Id \cup {None}]
    /\ received \in [Client -> SUBSET Event]
    /\ loaded \in [Client -> 0..MaxEvents]
    /\ resynced \in [Client -> BOOLEAN]
    /\ lagged \in [Client -> BOOLEAN]

Init ==
    /\ next_id = 1
    /\ buffer = <<>>
    /\ held = [e \in Emitter |-> None]
    /\ emitted = [e \in Emitter |-> "numbered"]
    /\ sent = <<>>
    /\ indexed = 0
    /\ announced = 0
    /\ silent = {}
    /\ shutdown = FALSE
    /\ connections = 0
    /\ phase = [c \in Client |-> "loading"]
    /\ first_open = [c \in Client |-> TRUE]
    /\ resync_due = [c \in Client |-> FALSE]
    /\ last_event_id = [c \in Client |-> None]
    /\ replay = [c \in Client |-> <<>>]
    /\ rx = [c \in Client |-> 1]
    /\ drops = 0
    /\ restarts = 0
    /\ cursor = [c \in Client |-> None]
    /\ received = [c \in Client |-> {}]
    /\ loaded = [c \in Client |-> 0]
    /\ resynced = [c \in Client |-> FALSE]
    /\ lagged = [c \in Client |-> FALSE]

-----------------------------------------------------------------------------
(* emit, and the watcher's change of the cache before it.                  *)

\* handle_note_change: the cache has the change now ...
Index ==
    /\ held[Watcher] = None
    /\ announced = indexed
    /\ indexed < MaxEvents
    /\ indexed' = indexed + 1
    /\ UNCHANGED <<daemon, announced, silent, shutdown, streams, shell, bounds>>

\* ... but the search index fails, and the handler returns before its emit.
IndexFails ==
    /\ announced < indexed
    /\ announced' = indexed
    /\ silent' = silent \cup {indexed}
    /\ UNCHANGED <<daemon, indexed, shutdown, streams, shell, bounds>>

\* What an emitter may emit next: the watcher the event of the change it has
\* stored, any other thread any event about the vault or about another one.
Emits(e) ==
    IF e = Watcher
    THEN {event \in Event : announced < indexed /\ event.change = indexed}
    ELSE {event \in Event : event.change = 0}

\* push: fetch_add on the counter ...
TakeId(e) ==
    /\ held[e] = None
    /\ next_id <= MaxEvents
    /\ \E event \in Emits(e) :
          /\ event.id = next_id
          /\ held' = [held EXCEPT ![e] = event]
    /\ emitted' = [emitted EXCEPT ![e] = "numbered"]
    /\ next_id' = next_id + 1
    /\ announced' = IF e = Watcher THEN indexed ELSE announced
    /\ UNCHANGED <<buffer, sent, indexed, silent, shutdown, streams, shell,
                   bounds>>

\* Mutant: the ring holds one event too many.
PushLate(e) ==
    LET kept == IF Len(buffer) > BufferCapacity THEN Tail(buffer) ELSE buffer
    IN  /\ held[e] # None
        /\ emitted[e] = "numbered"
        /\ buffer' = Append(kept, held[e])
        /\ emitted' = [emitted EXCEPT ![e] = "buffered"]
        /\ UNCHANGED <<next_id, held, sent, index, shutdown, streams, shell, bounds>>

\* ... then, under the buffer's lock, evict the oldest and append.
Push(e) ==
    LET kept == IF Len(buffer) >= BufferCapacity THEN Tail(buffer) ELSE buffer
    IN  /\ held[e] # None
        /\ emitted[e] = "numbered"
        /\ buffer' = Append(kept, held[e])
        /\ emitted' = [emitted EXCEPT ![e] = "buffered"]
        /\ UNCHANGED <<next_id, held, sent, index, shutdown, streams, shell, bounds>>

Send(e) ==
    /\ held[e] # None
    /\ emitted[e] = "buffered"
    /\ sent' = Append(sent, held[e])
    /\ held' = [held EXCEPT ![e] = None]
    /\ emitted' = [emitted EXCEPT ![e] = "numbered"]
    /\ UNCHANGED <<next_id, buffer, index, shutdown, streams, shell, bounds>>

-----------------------------------------------------------------------------
(* vault_events: one connection.                                           *)

\* The buffered events after last_id that the vault's filter lets through, in
\* the order of the buffer: since[n] are those among its first n events.
events_since(last_id) ==
    LET passes(event) == event.id > last_id /\ event.matters
        since[n \in 0..Len(buffer)] ==
            IF n = 0 THEN <<>>
            ELSE IF passes(buffer[n]) THEN Append(since[n - 1], buffer[n])
            ELSE since[n - 1]
    IN  since[Len(buffer)]

replay_events(last_id) == IF last_id = None THEN <<>> ELSE events_since(last_id)

\* The request arrives and the buffer is read.
Connect(c) ==
    /\ phase[c] = "connecting"
    /\ ~ shutdown
    /\ phase' = [phase EXCEPT ![c] = "replayed"]
    /\ cursor' = [cursor EXCEPT ![c] = last_event_id[c]]
    /\ replay' = [replay EXCEPT ![c] = replay_events(last_event_id[c])]
    /\ UNCHANGED <<daemon, index, shutdown, connections, rx, lagged, shell, bounds>>

\* Only now does the connection listen: it gets what is sent from here on.
Subscribe(c) ==
    /\ phase[c] = "replayed"
    /\ phase' = [phase EXCEPT ![c] = "opening"]
    /\ rx' = [rx EXCEPT ![c] = Len(sent) + 1]
    /\ lagged' = [lagged EXCEPT ![c] = FALSE]
    /\ connections' = connections + 1
    /\ UNCHANGED <<daemon, index, shutdown, cursor, replay, shell, bounds>>

\* The EventSource has a listener for the named types only: handleMessage keeps
\* the id as the cursor and passes the event on.
Handle(c, event) ==
    /\ last_event_id' = IF event.named
                        THEN [last_event_id EXCEPT ![c] = event.id]
                        ELSE last_event_id
    /\ received' = [received EXCEPT ![c] = @ \cup {event}]
    /\ UNCHANGED <<first_open, resync_due, loaded, resynced>>

StreamReplay(c) ==
    /\ phase[c] = "streaming"
    /\ replay[c] # <<>>
    /\ replay' = [replay EXCEPT ![c] = Tail(@)]
    /\ Handle(c, Head(replay[c]))
    /\ UNCHANGED <<daemon, index, shutdown, connections, phase, rx, cursor, lagged,
                   bounds>>

\* The channel keeps the last ChannelCapacity events it was sent.
Overrun(c) == Len(sent) - rx[c] + 1 > ChannelCapacity

Receive(c) ==
    LET event == sent[rx[c]]
    IN  /\ phase[c] = "streaming"
        /\ replay[c] = <<>>
        /\ rx[c] <= Len(sent)
        /\ ~ Overrun(c)
        /\ rx' = [rx EXCEPT ![c] = @ + 1]
        /\ IF event.matters THEN Handle(c, event) ELSE UNCHANGED shell
        /\ UNCHANGED <<daemon, index, shutdown, connections, phase, replay, cursor,
                       lagged, bounds>>

\* RecvError::Lagged: go on with the oldest event the channel still has.
Lag(c) ==
    /\ phase[c] = "streaming"
    /\ replay[c] = <<>>
    /\ Overrun(c)
    /\ rx' = [rx EXCEPT ![c] = Len(sent) - ChannelCapacity + 1]
    /\ lagged' = [lagged EXCEPT ![c] = TRUE]
    /\ UNCHANGED <<daemon, index, shutdown, connections, phase, replay, cursor, shell,
                   bounds>>

\* The stream is over: its SseConnectionGuard is dropped, and the client's
\* onerror schedules another attempt.
Disconnect(c) ==
    /\ phase' = [phase EXCEPT ![c] = "retry"]
    /\ connections' = connections - 1
    /\ replay' = [replay EXCEPT ![c] = <<>>]
    /\ UNCHANGED <<rx, cursor, lagged>>

\* Mutant: the signal is only looked at when an event wakes the stream.
EndOfStreamOnEvent(c) ==
    /\ phase[c] \in Connected
    /\ shutdown
    /\ replay[c] = <<>>
    /\ rx[c] <= Len(sent)
    /\ Disconnect(c)
    /\ UNCHANGED <<daemon, index, shutdown, shell, bounds>>

\* shutdown_rx.changed(), polled once the replay is over.
EndOfStream(c) ==
    /\ phase[c] \in Connected
    /\ shutdown
    /\ replay[c] = <<>>
    /\ Disconnect(c)
    /\ UNCHANGED <<daemon, index, shutdown, shell, bounds>>

ConnectionLost(c) ==
    /\ phase[c] \in Connected
    /\ drops < MaxDrops
    /\ drops' = drops + 1
    /\ Disconnect(c)
    /\ UNCHANGED <<daemon, index, shutdown, shell, restarts>>

-----------------------------------------------------------------------------
(* The client (connectSSE, performResync).                                 *)

\* GET notes reads the cache, with whatever the watcher has stored by now.
list_notes == indexed

\* init: load the notes, then connect.
LoadNotes(c) ==
    /\ phase[c] = "loading"
    /\ ~ shutdown
    /\ phase' = [phase EXCEPT ![c] = "connecting"]
    /\ loaded' = [loaded EXCEPT ![c] = list_notes]
    /\ UNCHANGED <<daemon, index, shutdown, connections, replay, rx, cursor, lagged,
                   first_open, resync_due, last_event_id, received, resynced,
                   bounds>>

\* Mutant: a client that reconnects with a cursor takes the replay for a resync.
OpenTrustsReplay(c) ==
    /\ phase[c] = "opening"
    /\ phase' = [phase EXCEPT ![c] = "streaming"]
    /\ resync_due' = resync_due
    /\ first_open' = [first_open EXCEPT ![c] = FALSE]
    /\ resynced' = [resynced EXCEPT ![c] = last_event_id[c] # None]
    /\ UNCHANGED <<daemon, index, shutdown, connections, replay, rx, cursor, lagged,
                   last_event_id, received, loaded, bounds>>

\* onopen: every time but the first, ask for a resync.
Open(c) ==
    /\ phase[c] = "opening"
    /\ phase' = [phase EXCEPT ![c] = "streaming"]
    /\ resync_due' = [resync_due EXCEPT ![c] = ~ first_open[c]]
    /\ first_open' = [first_open EXCEPT ![c] = FALSE]
    /\ resynced' = [resynced EXCEPT ![c] = FALSE]
    /\ UNCHANGED <<daemon, index, shutdown, connections, replay, rx, cursor, lagged,
                   last_event_id, received, loaded, bounds>>

\* performResync reloads the notes, or gives up without a word.
Resync(c) ==
    /\ resync_due[c]
    /\ resync_due' = [resync_due EXCEPT ![c] = FALSE]
    /\ \/ /\ ~ shutdown
          /\ loaded' = [loaded EXCEPT ![c] = list_notes]
          /\ resynced' = [resynced EXCEPT ![c] = TRUE]
       \/ UNCHANGED <<loaded, resynced>>
    /\ UNCHANGED <<daemon, index, shutdown, streams, first_open, last_event_id, received,
                   bounds>>

\* The timer set by onerror.
Retry(c) ==
    /\ phase[c] = "retry"
    /\ phase' = [phase EXCEPT ![c] = "connecting"]
    /\ UNCHANGED <<daemon, index, shutdown, connections, replay, rx, cursor, lagged,
                   shell, bounds>>

-----------------------------------------------------------------------------
(* The daemon's life.                                                      *)

\* POST /api/admin/shutdown (its shutting_down events are emitted like any
\* other): no connection is accepted from now on.
Shutdown ==
    /\ ~ shutdown
    /\ shutdown' = TRUE
    /\ UNCHANGED <<daemon, index, streams, shell, bounds>>

\* Once the streams are over the process exits; the next one indexes the vault
\* before it serves and counts from 1.  The changes and the history variables
\* are those of this life.
Restart ==
    /\ shutdown
    /\ connections = 0
    /\ \A c \in Client : phase[c] # "replayed"
    /\ restarts < MaxRestarts
    /\ restarts' = restarts + 1
    /\ shutdown' = FALSE
    /\ next_id' = 1
    /\ buffer' = <<>>
    /\ held' = [e \in Emitter |-> None]
    /\ emitted' = [e \in Emitter |-> "numbered"]
    /\ sent' = <<>>
    /\ indexed' = 0
    /\ announced' = 0
    /\ silent' = {}
    /\ received' = [c \in Client |-> {}]
    /\ loaded' = [c \in Client |-> 0]
    /\ UNCHANGED <<streams, first_open, resync_due, last_event_id, resynced,
                   drops>>

-----------------------------------------------------------------------------
Emit(e) == TakeId(e) \/ Push(e) \/ Send(e)

Serve(c) ==
    \/ Connect(c)
    \/ Subscribe(c)
    \/ StreamReplay(c)
    \/ Receive(c)
    \/ Lag(c)

Shell(c) == LoadNotes(c) \/ Open(c) \/ Resync(c) \/ Retry(c)

Next ==
    \/ \E e \in Emitter : Emit(e)
    \/ Index \/ IndexFails
    \/ \E c \in Client :
          Serve(c) \/ Shell(c) \/ EndOfStream(c) \/ ConnectionLost(c)
    \/ Shutdown
    \/ Restart

Spec == Init /\ [][Next]_vars

(***************************************************************************)
(* Fairness: tokio polls the connection tasks and wakes them on the watch  *)
(* channel, and the browser dispatches what it has received.  select!      *)
(* picks among ready branches at random, so a branch that stays ready is   *)
(* taken in the end: EndOfStream has a fairness condition of its own.      *)
(***************************************************************************)
Fairness ==
    \A c \in Client :
        /\ WF_vars(Serve(c))
        /\ WF_vars(Shell(c))
        /\ WF_vars(EndOfStream(c))

FairSpec == Spec /\ Fairness

-----------------------------------------------------------------------------
(* Properties.                                                             *)

Replaying(c, event) == \E i \in 1..Len(replay[c]) : replay[c][i] = event

\* The client has the event, or it will by the replay.
Accounted(c, event) == event \in received[c] \/ Replaying(c, event)

\* The watcher's event about the n-th change has come, will be replayed, or has
\* not been sent or not been come to yet.
Brought(c, n) ==
    \E event \in Event :
        /\ event.change = n
        /\ \/ Accounted(c, event)
           \/ held[Watcher] = event
           \/ \E i \in rx[c]..Len(sent) : sent[i] = event

\* Once a reconnected client has resynced, no change that reached the cache
\* passes it by: its notes show the change, or the watcher's event about it has
\* come, is being replayed or is on its way.  The window between the replay and
\* the subscription, events numbered out of order, an evicted buffer, a cursor
\* an unnamed event left behind and the ids of a restarted daemon lose nothing,
\* because the reload follows the subscription and the watcher stores a change
\* before it announces it.  (Not so for a channel that overran, see Lag, and a
\* change whose handler failed, see IndexFails.)
ResyncCovers ==
    \A c \in Client :
        phase[c] = "streaming" /\ resynced[c] /\ ~ lagged[c] =>
            \A n \in 1..indexed :
                n <= loaded[c] \/ n > announced \/ Brought(c, n) \/ n \in silent

\* "Returns buffered events with IDs greater than this value before the live
\* stream resumes" (docs/http-api.md): on a connection with a cursor, an event
\* after it that is in the buffer has been replayed or is still to come live.
ReplayComplete ==
    \A c \in Client :
        phase[c] = "streaming" /\ cursor[c] # None /\ ~ lagged[c] =>
            \A i \in 1..(rx[c] - 1) :
                /\ sent[i].matters
                /\ sent[i].id > cursor[c]
                /\ \E k \in 1..Len(buffer) : buffer[k] = sent[i]
                => Accounted(c, sent[i])

\* After a shutdown request every open stream ends, also one that was accepted
\* while the signal was sent or is busy replaying: the daemon can exit.
StreamsDrain == shutdown ~> (connections = 0)

=============================================================================
