-------------------------- MODULE EventStreamProofs --------------------------
(***************************************************************************)
(* Theorems about EventStream: what a replay contains, and what a client   *)
(* that reconnects knows once it has reloaded, for any number of emitters  *)
(* and clients, any capacities and any number of restarts.                 *)
(***************************************************************************)
EXTENDS EventStream, TLAPS, WellFoundedInduction, FiniteSetTheorems

\* Every non-empty set of numbers has a least member: what induction over the
\* events of a buffer rests on.
LEMMA LeastNumber ==
    ASSUME NEW T \in SUBSET Nat, T # {}
    PROVE  \E n \in T : \A m \in T : n <= m
<1>1. IsWellFoundedOn(OpToRel(<, Nat), Nat)
  BY NatLessThanWellFounded
<1>2. PICK n \in T : \A m \in T : ~ (<<m, n>> \in OpToRel(<, Nat))
  BY <1>1, WFMin, Zenon
<1>3. \A m \in T : ~ (m < n)
  BY <1>2 DEF OpToRel
<1> QED
  BY <1>3

\* What the filter lets through.
Passes(event, last_id) == event.id > last_id /\ event.matters

\* One step of the filter.
Kept(g, n, last_id) ==
    IF n = 0 THEN <<>>
    ELSE IF Passes(buffer[n], last_id) THEN Append(g[n - 1], buffer[n])
    ELSE g[n - 1]

\* The recursive definition of events_since has a solution.
LEMMA SinceExists ==
    ASSUME NEW last_id, NEW n \in Nat
    PROVE  \E g : g = [i \in 0..n |-> Kept(g, i, last_id)]
<1> DEFINE Has(m) == \E g : g = [i \in 0..m |-> Kept(g, i, last_id)]
           T == {m \in Nat : ~ Has(m)}
<1> SUFFICES ASSUME T # {} PROVE FALSE
  OBVIOUS
<1>1. PICK m \in T : \A k \in T : m <= k
  BY LeastNumber
<1>2. Has(0)
  <2> DEFINE g == [i \in 0..0 |-> <<>>]
  <2>1. g = [i \in 0..0 |-> Kept(g, i, last_id)]
    BY DEF Kept
  <2> QED
    BY <2>1
<1>3. m \in Nat /\ m # 0 /\ ~ Has(m)
  BY <1>2
<1>4. Has(m - 1)
  <2>1. m - 1 \in Nat /\ ~ (m <= m - 1)
    BY <1>3
  <2> QED
    BY <1>1, <2>1
<1>5. PICK g : g = [i \in 0..(m - 1) |-> Kept(g, i, last_id)]
  BY <1>4
<1> DEFINE h == [i \in 0..m |-> IF i < m THEN g[i] ELSE Kept(g, m, last_id)]
<1>6. ASSUME NEW i \in 0..m PROVE h[i] = Kept(h, i, last_id)
  <2>1. i # 0 => h[i - 1] = g[i - 1]
    BY <1>3
  <2>2. Kept(h, i, last_id) = Kept(g, i, last_id)
    BY <2>1 DEF Kept
  <2>3. h[i] = Kept(g, i, last_id)
    BY <1>3, <1>5
  <2> QED
    BY <2>2, <2>3
<1>7. h = [i \in 0..m |-> Kept(h, i, last_id)]
  BY <1>6
<1> QED
  BY <1>3, <1>7

\* The sequence replayed is the first n events of the buffer without those that
\* do not pass, in their order: from[k] is the place its k-th event comes from.
Filters(replayed, n, last_id) ==
    \E from \in [1..Len(replayed) -> 1..n] :
        /\ \A k \in 1..Len(replayed) :
              /\ replayed[k] = buffer[from[k]]
              /\ Passes(buffer[from[k]], last_id)
        /\ \A j, k \in 1..Len(replayed) : j < k => from[j] < from[k]
        /\ \A i \in 1..n : Passes(buffer[i], last_id) =>
              \E k \in 1..Len(replayed) : from[k] = i

\* One more event passes.
LEMMA FiltersMore ==
    ASSUME NEW last_id, NEW t \in Seq(Event), NEW n \in Nat, n # 0,
           Filters(t, n - 1, last_id), buffer[n] \in Event,
           Passes(buffer[n], last_id)
    PROVE  Filters(Append(t, buffer[n]), n, last_id)
<1> DEFINE L == Len(t)
           u == Append(t, buffer[n])
<1>1. PICK from \in [1..L -> 1..(n - 1)] :
          /\ \A k \in 1..L : t[k] = buffer[from[k]] /\ Passes(buffer[from[k]], last_id)
          /\ \A j, k \in 1..L : j < k => from[j] < from[k]
          /\ \A i \in 1..(n - 1) : Passes(buffer[i], last_id) =>
                \E k \in 1..L : from[k] = i
  BY DEF Filters
<1>2. /\ L \in Nat /\ Len(u) = L + 1 /\ u[L + 1] = buffer[n]
      /\ \A k \in 1..L : u[k] = t[k]
  OBVIOUS
<1> DEFINE more == [k \in 1..(L + 1) |-> IF k <= L THEN from[k] ELSE n]
<1> HIDE DEF L, u
<1>3. /\ more[L + 1] = n
      /\ \A k \in 1..L : more[k] = from[k] /\ from[k] \in 1..(n - 1)
      /\ \A k \in 1..(L + 1) : k \in 1..L \/ k = L + 1
  BY <1>1, <1>2
<1>4. more \in [1..(L + 1) -> 1..n]
  BY <1>1, <1>2
<1> HIDE DEF more
<1>5. \A k \in 1..(L + 1) : u[k] = buffer[more[k]] /\ Passes(buffer[more[k]], last_id)
  BY <1>1, <1>2, <1>3
<1>6. ASSUME NEW j \in 1..(L + 1), NEW k \in 1..(L + 1), j < k
      PROVE  more[j] < more[k]
  <2>1. j \in 1..L /\ more[j] = from[j] /\ from[j] \in 1..(n - 1)
    BY <1>2, <1>3, <1>6
  <2>2. CASE k \in 1..L
    <3>1. more[k] = from[k] /\ from[j] < from[k]
      BY <1>1, <1>3, <1>6, <2>1, <2>2
    <3> QED
      BY <2>1, <3>1
  <2>3. CASE k = L + 1
    BY <1>3, <2>1, <2>3
  <2> QED
    BY <1>3, <2>2, <2>3
<1>7. \A i \in 1..n : Passes(buffer[i], last_id) => \E k \in 1..(L + 1) : more[k] = i
  <2> SUFFICES ASSUME NEW i \in 1..n, Passes(buffer[i], last_id)
               PROVE  \E k \in 1..(L + 1) : more[k] = i
    OBVIOUS
  <2>1. CASE i = n
    BY <1>2, <1>3, <2>1
  <2>2. CASE i # n
    <3>1. PICK k \in 1..L : from[k] = i
      BY <1>1, <2>2
    <3> QED
      BY <1>2, <1>3, <3>1
  <2> QED
    BY <2>1, <2>2
<1>8. Filters(u, n, last_id)
  <2>1. Len(u) = L + 1
    BY <1>2
  <2>2. more \in [1..Len(u) -> 1..n]
    BY <2>1, <1>4
  <2>3. \A k \in 1..Len(u) :
            u[k] = buffer[more[k]] /\ Passes(buffer[more[k]], last_id)
    BY <2>1, <1>5
  <2>4. \A j, k \in 1..Len(u) : j < k => more[j] < more[k]
    BY <2>1, <1>6
  <2>5. \A i \in 1..n : Passes(buffer[i], last_id) =>
            \E k \in 1..Len(u) : more[k] = i
    BY <2>1, <1>7
  <2> QED
    BY ONLY <2>2, <2>3, <2>4, <2>5 DEF Filters
<1> QED
  BY <1>8 DEF u

\* One more event does not pass.
LEMMA FiltersSame ==
    ASSUME NEW last_id, NEW t \in Seq(Event), NEW n \in Nat, n # 0,
           Filters(t, n - 1, last_id), ~ Passes(buffer[n], last_id)
    PROVE  Filters(t, n, last_id)
<1>1. PICK from \in [1..Len(t) -> 1..(n - 1)] :
          /\ \A k \in 1..Len(t) :
                t[k] = buffer[from[k]] /\ Passes(buffer[from[k]], last_id)
          /\ \A j, k \in 1..Len(t) : j < k => from[j] < from[k]
          /\ \A i \in 1..(n - 1) : Passes(buffer[i], last_id) =>
                \E k \in 1..Len(t) : from[k] = i
  BY DEF Filters
<1>2. from \in [1..Len(t) -> 1..n]
  BY <1>1
<1>3. \A i \in 1..n : Passes(buffer[i], last_id) => i \in 1..(n - 1)
  OBVIOUS
<1> QED
  BY <1>1, <1>2, <1>3 DEF Filters

\* The replay has exactly the buffered events after the cursor that are for the
\* client's vault, each once and in the order of the buffer:
\* EventBuffer::events_since invents, repeats, reorders and drops nothing,
\* whatever was evicted and whichever life of the daemon the cursor is from.
THEOREM EventsSinceCorrect ==
    ASSUME TypeOK, NEW last_id \in Int
    PROVE  /\ events_since(last_id) \in Seq(Event)
           /\ Filters(events_since(last_id), Len(buffer), last_id)
<1> DEFINE N == Len(buffer)
           since == CHOOSE g : g = [n \in 0..N |-> Kept(g, n, last_id)]
           Good(n) == since[n] \in Seq(Event) /\ Filters(since[n], n, last_id)
           T == {n \in 0..N : ~ Good(n)}
<1>0. N \in Nat /\ buffer \in Seq(Event)
  BY DEF TypeOK
<1>1. events_since(last_id) = since[N]
  BY DEF events_since, Kept, Passes
<1>2. since = [n \in 0..N |-> Kept(since, n, last_id)]
  BY <1>0, SinceExists
<1> HIDE DEF since
<1>3. T = {}
  <2> SUFFICES ASSUME T # {} PROVE FALSE
    OBVIOUS
  <2>1. T \in SUBSET Nat
    BY <1>0
  <2>2. PICK n \in T : \A m \in T : n <= m
    BY <2>1, LeastNumber
  <2>3. n \in 0..N /\ ~ Good(n)
    OBVIOUS
  <2>4. since[0] = <<>>
    BY <1>0, <1>2 DEF Kept
  <2>5. Filters(<<>>, 0, last_id)
    <3> DEFINE none == [k \in 1..0 |-> 0]
    <3>1. none \in [1..0 -> 1..0] /\ Len(<<>>) = 0
      OBVIOUS
    <3>2. \A k \in 1..0 : FALSE
      OBVIOUS
    <3> HIDE DEF none
    <3> QED
      BY <3>1, <3>2, Zenon DEF Filters
  <2>6. n # 0
    <3>1. Good(0)
      BY <2>4, <2>5
    <3> QED
      BY <2>3, <3>1
  <2>7. n - 1 \in 0..N /\ ~ (n <= n - 1) /\ n \in Nat
    BY <1>0, <2>3, <2>6
  <2>8. Good(n - 1)
    BY <2>2, <2>7
  <2>9. buffer[n] \in Event
    BY <1>0, <2>3, <2>6
  <2>10. since[n] = IF Passes(buffer[n], last_id) THEN Append(since[n - 1], buffer[n])
                    ELSE since[n - 1]
    BY <1>2, <2>3, <2>6 DEF Kept
  <2>11. CASE Passes(buffer[n], last_id)
    BY <2>3, <2>6, <2>7, <2>8, <2>9, <2>10, <2>11, FiltersMore
  <2>12. CASE ~ Passes(buffer[n], last_id)
    BY <2>3, <2>6, <2>7, <2>8, <2>10, <2>12, FiltersSame
  <2> QED
    BY <2>11, <2>12
<1>4. Good(N)
  BY <1>0, <1>3
<1> QED
  BY <1>1, <1>4

-----------------------------------------------------------------------------
(***************************************************************************)
(* The invariant.  connections counts the open streams, which is why a     *)
(* restart finds none; the watcher has stored at most one change it is not *)
(* done with; and a receiver is at most one place behind the end of the    *)
(* channel.                                                                *)
(***************************************************************************)
OpenStreams == {c \in Client : phase[c] \in Connected}

Counted == connections = Cardinality(OpenStreams)

OneAtATime == announced <= indexed /\ indexed <= announced + 1

Placed == \A c \in OpenStreams : rx[c] <= Len(sent) + 1

LEMMA OpenStreamsFinite ==
    /\ IsFiniteSet(OpenStreams)
    /\ Cardinality(OpenStreams) \in Nat
  BY EventStreamAssumption, FS_Subset, FS_CardinalityType DEF OpenStreams

LEMMA InitType == Init => TypeOK /\ Counted /\ OneAtATime /\ Placed
<1> SUFFICES ASSUME Init PROVE TypeOK /\ Counted /\ OneAtATime /\ Placed
  OBVIOUS
<1>1. TypeOK
  <2>1. /\ next_id \in 1..(MaxEvents + 1) /\ connections \in Nat
        /\ drops \in 0..MaxDrops /\ restarts \in 0..MaxRestarts
        /\ buffer \in Seq(Event) /\ Len(buffer) <= BufferCapacity
        /\ sent \in Seq(Event)
    BY EventStreamAssumption DEF Init
  <2>2. /\ replay \in [Client -> Seq(Event)]
        /\ rx \in [Client -> Nat \ {0}]
        /\ loaded \in [Client -> 0..MaxEvents]
        /\ received \in [Client -> SUBSET Event]
        /\ indexed \in 0..MaxEvents /\ announced \in 0..MaxEvents
        /\ silent \subseteq 1..MaxEvents
    BY EventStreamAssumption DEF Init
  <2> QED
    BY <2>1, <2>2 DEF Init, TypeOK, Phase
<1>2. OpenStreams = {}
  BY DEF Init, OpenStreams, Connected
<1>3. Counted
  BY <1>2, FS_EmptySet DEF Init, Counted
<1>4. OneAtATime /\ Placed
  BY <1>2 DEF Init, OneAtATime, Placed
<1> QED
  BY <1>1, <1>3, <1>4

\* A stream that is opened is counted.
LEMMA StreamOpened ==
    ASSUME TypeOK, Counted, NEW c \in Client, phase[c] \notin Connected,
           NEW ph \in Connected, phase' = [phase EXCEPT ![c] = ph],
           connections' = connections + 1
    PROVE  Counted' /\ connections' \in Nat
<1>1. OpenStreams' = OpenStreams \cup {c} /\ c \notin OpenStreams
  BY DEF OpenStreams, TypeOK
<1>2. Cardinality(OpenStreams \cup {c}) = Cardinality(OpenStreams) + 1
  BY <1>1, OpenStreamsFinite, FS_AddElement
<1> QED
  BY <1>1, <1>2, OpenStreamsFinite DEF Counted

\* A stream that ends is no longer counted, and it had been.
LEMMA StreamClosed ==
    ASSUME TypeOK, Counted, NEW c \in Client, phase[c] \in Connected,
           NEW ph, ph \notin Connected, phase' = [phase EXCEPT ![c] = ph],
           connections' = connections - 1
    PROVE  Counted' /\ connections' \in Nat /\ OpenStreams' \subseteq OpenStreams
<1>1. OpenStreams' = OpenStreams \ {c} /\ c \in OpenStreams
  BY DEF OpenStreams, TypeOK
<1>2. Cardinality(OpenStreams \ {c}) = Cardinality(OpenStreams) - 1
  BY <1>1, OpenStreamsFinite, FS_RemoveElement
<1>3. Cardinality(OpenStreams \ {c}) \in Nat
  BY OpenStreamsFinite, FS_Subset, FS_CardinalityType
<1> QED
  BY <1>1, <1>2, <1>3 DEF Counted

\* A step that opens and closes no stream.
LEMMA StreamsStay ==
    ASSUME TypeOK, Counted, connections' = connections,
           \A c \in Client : phase'[c] \in Connected <=> phase[c] \in Connected
    PROVE  Counted' /\ OpenStreams' = OpenStreams
<1>1. OpenStreams' = OpenStreams
  BY DEF OpenStreams
<1> QED
  BY <1>1 DEF Counted

Basic == TypeOK /\ Counted /\ OneAtATime /\ Placed

LEMMA EmitStep ==
    ASSUME Basic, NEW e \in Emitter, Emit(e)
    PROVE  Basic'
<1> USE DEF index, streams, shell, bounds
<1>0. TypeOK /\ Counted /\ OneAtATime /\ Placed
  BY DEF Basic
<1>1. UNCHANGED <<connections, phase, rx>>
  BY DEF Emit, TakeId, Push, Send
<1>2. Counted' /\ OpenStreams' = OpenStreams
  BY <1>0, <1>1, StreamsStay
<1>3. held[e] # None => held[e] \in Event
  BY <1>0 DEF TypeOK
<1>4. CASE TakeId(e)
  <2>1. PICK event \in Event : held' = [held EXCEPT ![e] = event]
    BY <1>4 DEF TakeId, Emits
  <2>2. announced' \in {announced, indexed} /\ indexed' = indexed
    BY <1>4 DEF TakeId
  <2>3. TypeOK'
    <3>1. next_id' \in 1..(MaxEvents + 1)
      BY <1>0, <1>4, EventStreamAssumption DEF TakeId, TypeOK
    <3> QED
      BY <1>0, <1>4, <2>1, <2>2, <3>1 DEF TakeId, TypeOK
  <2>4. OneAtATime'
    <3>1. indexed \in Int /\ announced \in Int
      BY <1>0 DEF TypeOK
    <3>2. announced <= indexed /\ indexed <= announced + 1
      BY <1>0 DEF OneAtATime
    <3>3. announced' = announced \/ announced' = indexed
      BY <2>2
    <3>4. announced' <= indexed /\ indexed <= announced' + 1
      BY ONLY <3>1, <3>2, <3>3
    <3> QED
      BY <2>2, <3>4 DEF OneAtATime
  <2>5. Placed'
    BY <1>0, <1>2, <1>4 DEF TakeId, Placed
  <2> QED
    BY <1>2, <2>3, <2>4, <2>5 DEF Basic
<1>5. CASE Push(e)
  <2> DEFINE kept == IF Len(buffer) >= BufferCapacity THEN Tail(buffer) ELSE buffer
  <2>1. kept \in Seq(Event) /\ Len(kept) < BufferCapacity
    BY <1>0, EventStreamAssumption DEF TypeOK
  <2>2. buffer' = Append(kept, held[e]) /\ held[e] \in Event
    BY <1>3, <1>5 DEF Push
  <2> HIDE DEF kept
  <2>3. buffer' \in Seq(Event) /\ Len(buffer') <= BufferCapacity
    BY <2>1, <2>2, EventStreamAssumption
  <2>4. TypeOK'
    BY <1>0, <1>5, <2>3 DEF Push, TypeOK
  <2>5. OneAtATime' /\ Placed'
    BY <1>0, <1>2, <1>5 DEF Push, OneAtATime, Placed
  <2> QED
    BY <1>2, <2>4, <2>5 DEF Basic
<1>6. CASE Send(e)
  <2>1. held[e] \in Event /\ sent' = Append(sent, held[e]) /\ sent \in Seq(Event)
    BY <1>0, <1>3, <1>6 DEF Send, TypeOK
  <2>2. /\ sent' \in Seq(Event)
        /\ Len(sent') = Len(sent) + 1
        /\ \A i \in 1..Len(sent') :
              \/ sent'[i] = sent[i] /\ i \in 1..Len(sent)
              \/ sent'[i] = held[e]
    BY <2>1
  <2>3. TypeOK'
    BY <1>0, <1>6, <2>2 DEF Send, TypeOK
  <2>4. OneAtATime'
    BY <1>0, <1>6 DEF Send, OneAtATime
  <2>5. Placed'
    BY <1>0, <1>1, <1>2, <2>1, <2>2 DEF Placed, TypeOK, OpenStreams
  <2> QED
    BY <1>2, <2>3, <2>4, <2>5 DEF Basic
<1> QED
  BY <1>4, <1>5, <1>6 DEF Emit

\* The watcher's steps before it emits.
LEMMA IndexStep ==
    ASSUME Basic, Index \/ IndexFails
    PROVE  Basic'
<1> USE DEF daemon, streams, shell, bounds
<1>0. TypeOK /\ Counted /\ OneAtATime /\ Placed
  BY DEF Basic
<1>1. UNCHANGED <<daemon, shutdown, streams, shell, bounds>>
  BY DEF Index, IndexFails
<1>2. Counted' /\ OpenStreams' = OpenStreams
  BY <1>0, <1>1, StreamsStay
<1>3. /\ indexed' \in 0..MaxEvents /\ announced' \in 0..MaxEvents
      /\ OneAtATime'
  BY <1>0, EventStreamAssumption DEF Index, IndexFails, TypeOK, OneAtATime
<1>4. silent' \subseteq 1..MaxEvents
  <2>1. CASE Index
    BY <1>0, <2>1 DEF Index, TypeOK
  <2>2. CASE IndexFails
    <3>1. indexed \in 1..MaxEvents
      BY <1>0, <2>2, EventStreamAssumption DEF IndexFails, TypeOK
    <3> QED
      BY <1>0, <2>2, <3>1 DEF IndexFails, TypeOK
  <2> QED
    BY <2>1, <2>2
<1>5. TypeOK'
  BY <1>0, <1>1, <1>3, <1>4 DEF TypeOK
<1>6. Placed'
  BY <1>0, <1>1, <1>2 DEF Placed
<1> QED
  BY <1>2, <1>3, <1>5, <1>6 DEF Basic

\* An event that reaches the client is remembered, and moves the cursor if it is
\* named.
LEMMA HandleType ==
    ASSUME TypeOK, NEW c \in Client, NEW event \in Event, Handle(c, event)
    PROVE  /\ last_event_id' \in [Client -> Id \cup {None}]
           /\ received' \in [Client -> SUBSET Event]
           /\ received'[c] = received[c] \cup {event}
           /\ \A d \in Client : d # c => received'[d] = received[d]
<1>1. event.id \in Id
  BY DEF Event
<1>2. last_event_id' \in [Client -> Id \cup {None}]
  BY <1>1 DEF Handle, TypeOK
<1>3. received[c] \cup {event} \in SUBSET Event
  BY DEF TypeOK
<1> QED
  BY <1>2, <1>3 DEF Handle, TypeOK

LEMMA ServeStep ==
    ASSUME Basic, NEW c \in Client, Serve(c)
    PROVE  Basic'
<1> USE DEF daemon, index, streams, shell, bounds
<1>0. TypeOK /\ Counted /\ OneAtATime /\ Placed
  BY DEF Basic
<1>1. UNCHANGED <<daemon, index>>
  BY DEF Serve, Connect, Subscribe, StreamReplay, Receive, Lag
<1>2. OneAtATime'
  BY <1>0, <1>1 DEF OneAtATime
<1>3. CASE Connect(c)
  <2>1. replay_events(last_event_id[c]) \in Seq(Event)
    <3>1. CASE last_event_id[c] = None
      BY <3>1 DEF replay_events
    <3>2. CASE last_event_id[c] # None
      <4>1. last_event_id[c] \in Int
        BY <1>0, <3>2, EventStreamAssumption DEF TypeOK, Id
      <4> QED
        BY <1>0, <3>2, <4>1, EventsSinceCorrect DEF replay_events
    <3> QED
      BY <3>1, <3>2
  <2>2. TypeOK'
    BY <1>0, <1>3, <2>1 DEF Connect, TypeOK, Phase
  <2>3. Counted' /\ OpenStreams' = OpenStreams
    BY <1>0, <1>3, StreamsStay DEF Connect, TypeOK, Connected
  <2> QED
    BY <1>0, <1>2, <1>3, <2>2, <2>3 DEF Basic, Connect, Placed
<1>4. CASE Subscribe(c)
  <2>1. Counted' /\ connections' \in Nat
    BY <1>0, <1>4, StreamOpened DEF Subscribe, Connected
  <2>2. Len(sent) \in Nat
    BY <1>0 DEF TypeOK
  <2>3. TypeOK'
    BY <1>0, <1>4, <2>1, <2>2 DEF Subscribe, TypeOK, Phase
  <2>4. Placed'
    BY <1>0, <1>4, <2>2 DEF Subscribe, Placed, OpenStreams, TypeOK
  <2> QED
    BY <1>2, <2>1, <2>3, <2>4 DEF Basic
<1>5. CASE StreamReplay(c)
  <2>1. replay[c] \in Seq(Event) /\ replay[c] # <<>>
    BY <1>0, <1>5 DEF StreamReplay, TypeOK
  <2>2. Head(replay[c]) \in Event /\ Tail(replay[c]) \in Seq(Event)
    BY <2>1
  <2>3. Handle(c, Head(replay[c])) /\ replay' = [replay EXCEPT ![c] = Tail(@)]
    BY <1>5 DEF StreamReplay
  <2>4. TypeOK'
    <3>1. /\ last_event_id' \in [Client -> Id \cup {None}]
          /\ received' \in [Client -> SUBSET Event]
      BY <1>0, <2>2, <2>3, HandleType
    <3>2. replay' \in [Client -> Seq(Event)]
      BY <1>0, <2>2, <2>3 DEF TypeOK
    <3> QED
      BY <1>0, <1>5, <3>1, <3>2 DEF StreamReplay, Handle, TypeOK
  <2>5. Counted' /\ OpenStreams' = OpenStreams
    BY <1>0, <1>5, StreamsStay DEF StreamReplay
  <2> QED
    BY <1>0, <1>2, <1>5, <2>4, <2>5 DEF Basic, StreamReplay, Placed
<1>6. CASE Receive(c)
  <2>1. rx[c] \in 1..Len(sent) /\ rx[c] + 1 \in Nat \ {0} /\ sent[rx[c]] \in Event
    BY <1>0, <1>6 DEF Receive, TypeOK
  <2>2. TypeOK'
    <3>1. /\ last_event_id' \in [Client -> Id \cup {None}]
          /\ received' \in [Client -> SUBSET Event]
          /\ UNCHANGED <<first_open, resync_due, loaded, resynced>>
      <4>1. CASE Handle(c, sent[rx[c]])
        BY <1>0, <2>1, <4>1, HandleType DEF Handle
      <4>2. CASE UNCHANGED shell
        BY <1>0, <4>2 DEF TypeOK
      <4> QED
        BY <1>6, <4>1, <4>2 DEF Receive
    <3>2. rx' \in [Client -> Nat \ {0}]
      BY <1>0, <1>6, <2>1 DEF Receive, TypeOK
    <3> QED
      BY <1>0, <1>6, <3>1, <3>2 DEF Receive, TypeOK
  <2>3. Counted' /\ OpenStreams' = OpenStreams
    BY <1>0, <1>6, StreamsStay DEF Receive
  <2>4. Placed'
    BY <1>0, <1>6, <2>1, <2>3 DEF Receive, Placed, OpenStreams, TypeOK
  <2> QED
    BY <1>2, <2>2, <2>3, <2>4 DEF Basic
<1>7. CASE Lag(c)
  <2>1. /\ Len(sent) - ChannelCapacity + 1 \in Nat \ {0}
        /\ Len(sent) - ChannelCapacity + 1 <= Len(sent) + 1
    BY <1>0, <1>7, EventStreamAssumption DEF Lag, Overrun, TypeOK
  <2>2. TypeOK'
    BY <1>0, <1>7, <2>1 DEF Lag, TypeOK
  <2>3. Counted' /\ OpenStreams' = OpenStreams
    BY <1>0, <1>7, StreamsStay DEF Lag
  <2>4. Placed'
    BY <1>0, <1>7, <2>1, <2>3 DEF Lag, Placed, OpenStreams, TypeOK
  <2> QED
    BY <1>2, <2>2, <2>3, <2>4 DEF Basic
<1> QED
  BY <1>3, <1>4, <1>5, <1>6, <1>7 DEF Serve

LEMMA ShellStep ==
    ASSUME Basic, NEW c \in Client, Shell(c)
    PROVE  Basic'
<1> USE DEF daemon, index, streams, shell, bounds
<1>0. TypeOK /\ Counted /\ OneAtATime /\ Placed
  BY DEF Basic
<1>1. UNCHANGED <<daemon, index, connections, rx>>
  BY DEF Shell, LoadNotes, Open, Resync, Retry
<1>2. Counted' /\ OpenStreams' = OpenStreams
  <2>1. \A d \in Client : phase'[d] \in Connected <=> phase[d] \in Connected
    BY <1>0 DEF Shell, LoadNotes, Open, Resync, Retry, TypeOK, Connected
  <2> QED
    BY <1>0, <1>1, <2>1, StreamsStay
<1>3. OneAtATime' /\ Placed'
  BY <1>0, <1>1, <1>2 DEF OneAtATime, Placed
<1>4. list_notes \in 0..MaxEvents
  BY <1>0 DEF TypeOK, list_notes
<1>5. TypeOK'
  <2>1. CASE LoadNotes(c)
    BY <1>0, <1>4, <2>1 DEF LoadNotes, TypeOK, Phase
  <2>2. CASE Open(c)
    <3>1. resync_due' \in [Client -> BOOLEAN]
      BY <1>0, <2>2, Zenon DEF Open, TypeOK
    <3> QED
      BY <1>0, <2>2, <3>1 DEF Open, TypeOK, Phase
  <2>3. CASE Resync(c)
    BY <1>0, <1>4, <2>3 DEF Resync, TypeOK
  <2>4. CASE Retry(c)
    BY <1>0, <2>4 DEF Retry, TypeOK, Phase
  <2> QED
    BY <2>1, <2>2, <2>3, <2>4 DEF Shell
<1> QED
  BY <1>2, <1>3, <1>5 DEF Basic

\* The end of a stream, whether the daemon or the network ends it.
LEMMA EndStep ==
    ASSUME Basic, NEW c \in Client, EndOfStream(c) \/ ConnectionLost(c)
    PROVE  Basic'
<1> USE DEF daemon, index, streams, shell, bounds
<1>0. TypeOK /\ Counted /\ OneAtATime /\ Placed
  BY DEF Basic
<1>1. phase[c] \in Connected /\ Disconnect(c) /\ UNCHANGED <<daemon, index, shutdown, shell>>
  BY DEF EndOfStream, ConnectionLost
<1>2. Counted' /\ connections' \in Nat /\ OpenStreams' \subseteq OpenStreams
  <2>1. "retry" \notin Connected
    BY DEF Connected
  <2> QED
    BY <1>0, <1>1, <2>1, StreamClosed DEF Disconnect
<1>3. drops' \in 0..MaxDrops /\ restarts' \in 0..MaxRestarts
  BY <1>0, EventStreamAssumption DEF EndOfStream, ConnectionLost, TypeOK
<1>4. TypeOK'
  BY <1>0, <1>1, <1>2, <1>3 DEF Disconnect, TypeOK, Phase
<1>5. OneAtATime' /\ Placed'
  BY <1>0, <1>1, <1>2 DEF OneAtATime, Placed, Disconnect
<1> QED
  BY <1>2, <1>4, <1>5 DEF Basic

LEMMA LifeStep ==
    ASSUME Basic, Shutdown \/ Restart
    PROVE  Basic'
<1> USE DEF daemon, index, streams, shell, bounds
<1>0. TypeOK /\ Counted /\ OneAtATime /\ Placed
  BY DEF Basic
<1>1. Counted' /\ OpenStreams' = OpenStreams
  BY <1>0, StreamsStay DEF Shutdown, Restart
<1>2. CASE Shutdown
  BY <1>0, <1>1, <1>2 DEF Basic, Shutdown, TypeOK, OneAtATime, Placed
<1>3. CASE Restart
  <2>1. OpenStreams = {}
    BY <1>0, <1>3, OpenStreamsFinite, FS_EmptySet DEF Restart, Counted
  <2>2. TypeOK'
    <3>1. /\ next_id' \in 1..(MaxEvents + 1) /\ restarts' \in 0..MaxRestarts
          /\ buffer' \in Seq(Event) /\ Len(buffer') <= BufferCapacity
          /\ sent' \in Seq(Event)
          /\ loaded' \in [Client -> 0..MaxEvents]
          /\ indexed' \in 0..MaxEvents /\ announced' \in 0..MaxEvents
          /\ silent' \subseteq 1..MaxEvents
          /\ received' \in [Client -> SUBSET Event]
      BY <1>0, <1>3, EventStreamAssumption DEF Restart, TypeOK
    <3> QED
      BY <1>0, <1>3, <3>1 DEF Restart, TypeOK
  <2>3. OneAtATime' /\ Placed'
    BY <1>1, <1>3, <2>1 DEF Restart, OneAtATime, Placed
  <2> QED
    BY <1>1, <2>2, <2>3 DEF Basic
<1> QED
  BY <1>2, <1>3

LEMMA BasicStep ==
    ASSUME Basic, [Next]_vars
    PROVE  Basic'
<1>1. CASE UNCHANGED vars
  BY <1>1 DEF vars, daemon, index, streams, shell, bounds, Basic, TypeOK, Counted,
              OneAtATime, Placed, OpenStreams
<1> QED
  BY <1>1, EmitStep, IndexStep, ServeStep, ShellStep, EndStep, LifeStep DEF Next

\* Every reachable state of the emitters, the buffer, the channel and the
\* clients is well-typed: the ring never exceeds its capacity, whatever number
\* of threads push, and the count of connections never goes below zero.
THEOREM TypeCorrect == Spec => []TypeOK
<1>1. Init => Basic
  BY InitType DEF Basic
<1>2. Basic /\ [Next]_vars => Basic'
  BY BasicStep
<1>3. Basic => TypeOK
  BY DEF Basic
<1> QED
  BY <1>1, <1>2, <1>3, PTL DEF Spec

-----------------------------------------------------------------------------
(* The resync.                                                             *)

Reaches(c, n) ==
    n <= loaded[c] \/ n > announced \/ Brought(c, n) \/ n \in silent

Covered(c) ==
    phase[c] = "streaming" /\ resynced[c] /\ ~ lagged[c] =>
        \A n \in 1..indexed : Reaches(c, n)

\* Nothing that the client's coverage depends on changes.
LEMMA CoveredKept ==
    ASSUME NEW c \in Client, Covered(c),
           phase'[c] = "streaming" => phase[c] = "streaming",
           rx'[c] = rx[c], lagged'[c] = lagged[c], replay'[c] = replay[c],
           resynced'[c] = resynced[c], loaded'[c] = loaded[c],
           received'[c] = received[c],
           UNCHANGED <<sent, held, indexed, announced, silent>>
    PROVE  Covered(c)'
  BY DEF Covered, Reaches, Brought, Accounted, Replaying

\* A client that is not streaming, or not resynced, or lagged, claims nothing.
LEMMA NotCovering ==
    ASSUME NEW c \in Client,
           phase'[c] # "streaming" \/ ~ resynced'[c] \/ lagged'[c]
    PROVE  Covered(c)'
  BY DEF Covered

\* The steps of the emitters: a change is stored, then held by the watcher, then
\* in the channel after the client's place, or it is silent.
LEMMA CoveredByEmitter ==
    ASSUME Basic, NEW c \in Client, Covered(c),
           NEW e \in Emitter, Emit(e) \/ Index \/ IndexFails
    PROVE  Covered(c)'
<1> USE DEF index, streams, shell, bounds
<1>0. TypeOK /\ OneAtATime /\ Placed
  BY DEF Basic
<1>1. UNCHANGED <<streams, shell>>
  BY DEF Emit, TakeId, Push, Send, Index, IndexFails, daemon
<1> SUFFICES ASSUME phase[c] = "streaming", resynced[c], ~ lagged[c],
                    NEW n \in 1..indexed'
             PROVE  Reaches(c, n)'
  BY <1>1 DEF Covered
<1>2. n \in 1..indexed => Reaches(c, n)
  BY DEF Covered
<1>3. indexed \in Int /\ announced \in Int /\ Len(sent) \in Nat /\ rx[c] \in Nat
  BY <1>0 DEF TypeOK
<1>4. CASE Index
  <2>1. /\ indexed' = indexed + 1
        /\ UNCHANGED <<held, sent, announced, silent>>
    BY <1>4 DEF Index, daemon
  <2>2. CASE n \in 1..indexed
    BY <1>1, <1>2, <2>1, <2>2 DEF Reaches, Brought, Accounted, Replaying
  <2>3. CASE n \notin 1..indexed
    BY <1>0, <1>3, <2>1, <2>3 DEF Reaches, OneAtATime
  <2> QED
    BY <2>2, <2>3
<1>5. CASE IndexFails
  <2>1. /\ indexed' = indexed /\ announced' = indexed
        /\ silent' = silent \cup {indexed}
        /\ UNCHANGED <<held, sent>>
    BY <1>5 DEF IndexFails, daemon
  <2>2. CASE n > announced
    <3>1. n = indexed
      BY <1>0, <1>3, <2>1, <2>2 DEF OneAtATime
    <3> QED
      BY <2>1, <3>1 DEF Reaches
  <2>3. CASE ~ (n > announced)
    BY <1>1, <1>2, <2>1, <2>3 DEF Reaches, Brought, Accounted, Replaying
  <2> QED
    BY <2>2, <2>3
<1>6. CASE TakeId(e)
  <2>1. PICK event \in Emits(e) : held' = [held EXCEPT ![e] = event]
    BY <1>6 DEF TakeId
  <2>2. /\ event \in Event
        /\ held[e] = None
        /\ announced' = IF e = Watcher THEN indexed ELSE announced
        /\ UNCHANGED <<sent, indexed, silent>>
    BY <1>6, <2>1 DEF TakeId, Emits
  <2>3. CASE n <= announced
    <3>1. \A x \in Event : held[Watcher] = x => held'[Watcher] = x
      BY <1>0, <2>1, <2>2, EventStreamAssumption DEF TypeOK
    <3>2. ~ (n > announced)
      BY <1>3, <2>3
    <3> QED
      BY <1>1, <1>2, <2>2, <3>1, <3>2 DEF Reaches, Brought, Accounted, Replaying
  <2>4. CASE n > announced /\ e # Watcher
    BY <2>2, <2>4 DEF Reaches
  <2>5. CASE n > announced /\ e = Watcher
    <3>1. event.change = indexed
      BY <2>1, <2>5 DEF Emits
    <3>2. n = indexed
      BY <1>0, <1>3, <2>2, <2>5 DEF OneAtATime
    <3>3. held'[Watcher] = event
      BY <1>0, <2>1, <2>5 DEF TypeOK
    <3> QED
      BY <2>2, <3>1, <3>2, <3>3 DEF Reaches, Brought
  <2> QED
    BY <1>3, <2>3, <2>4, <2>5
<1>7. CASE Push(e)
  BY <1>1, <1>2, <1>7 DEF Push, Reaches, Brought, Accounted, Replaying
<1>8. CASE Send(e)
  <2>1. /\ sent' = Append(sent, held[e]) /\ held' = [held EXCEPT ![e] = None]
        /\ UNCHANGED index
    BY <1>8 DEF Send
  <2>2. held[e] \in Event /\ sent \in Seq(Event)
    BY <1>0, <1>8 DEF Send, TypeOK
  <2>3. /\ Len(sent') = Len(sent) + 1 /\ sent'[Len(sent) + 1] = held[e]
        /\ \A i \in 1..Len(sent) : sent'[i] = sent[i]
    BY <2>1, <2>2
  <2>4. rx[c] \in 1..(Len(sent) + 1) /\ rx'[c] = rx[c]
    BY <1>0, <1>1 DEF Placed, OpenStreams, Connected, TypeOK
  <2>5. ASSUME Brought(c, n) PROVE Brought(c, n)'
    <3>1. PICK event \in Event :
             /\ event.change = n
             /\ \/ Accounted(c, event)
                \/ held[Watcher] = event
                \/ \E i \in rx[c]..Len(sent) : sent[i] = event
      BY <2>5 DEF Brought
    <3>2. CASE Accounted(c, event)
      BY <1>1, <3>1, <3>2 DEF Brought, Accounted, Replaying
    <3>3. CASE held[Watcher] = event /\ e # Watcher
      <4>1. held'[Watcher] = event
        BY <1>0, <2>1, <3>3, EventStreamAssumption DEF TypeOK
      <4> QED
        BY <3>1, <4>1 DEF Brought
    <3>4. CASE held[Watcher] = event /\ e = Watcher
      <4>1. Len(sent) + 1 \in rx'[c]..Len(sent')
        BY <1>3, <2>3, <2>4
      <4> QED
        BY <2>3, <3>1, <3>4, <4>1 DEF Brought
    <3>5. CASE \E i \in rx[c]..Len(sent) : sent[i] = event
      <4>1. PICK i \in rx[c]..Len(sent) : sent[i] = event
        BY <3>5
      <4>2. i \in rx'[c]..Len(sent') /\ sent'[i] = event
        BY <1>3, <2>3, <2>4, <4>1
      <4> QED
        BY <3>1, <4>2 DEF Brought
    <3> QED
      BY <3>1, <3>2, <3>3, <3>4, <3>5
  <2> QED
    BY <1>1, <1>2, <2>1, <2>5 DEF Reaches
<1> QED
  BY <1>4, <1>5, <1>6, <1>7, <1>8 DEF Emit

LEMMA CoveredByServe ==
    ASSUME Basic, NEW c \in Client, Covered(c), Serve(c)
    PROVE  Covered(c)'
<1> USE DEF daemon, index, streams, shell, bounds
<1>0. TypeOK /\ Placed
  BY DEF Basic
<1>1. CASE Connect(c) \/ Subscribe(c)
  BY <1>0, <1>1, NotCovering DEF Connect, Subscribe, TypeOK
<1>2. CASE StreamReplay(c)
  <2>1. replay[c] \in Seq(Event) /\ replay[c] # <<>>
    BY <1>0, <1>2 DEF StreamReplay, TypeOK
  <2>2. received'[c] = received[c] \cup {Head(replay[c])} /\ replay'[c] = Tail(replay[c])
    <3>1. Head(replay[c]) \in Event
      BY <2>1
    <3> QED
      BY <1>0, <1>2, <3>1, HandleType DEF StreamReplay, TypeOK
  <2>3. ASSUME NEW event, Replaying(c, event)
        PROVE  event \in received'[c] \/ Replaying(c, event)'
    <3>1. PICK k \in 1..Len(replay[c]) : replay[c][k] = event
      BY <2>3 DEF Replaying
    <3>2. CASE k = 1
      BY <2>1, <2>2, <3>1, <3>2
    <3>3. CASE k # 1
      <4>1. k - 1 \in 1..Len(Tail(replay[c])) /\ Tail(replay[c])[k - 1] = replay[c][k]
        BY <2>1, <3>1, <3>3
      <4> QED
        BY <2>2, <3>1, <4>1 DEF Replaying
    <3> QED
      BY <3>2, <3>3
  <2>4. \A event : Accounted(c, event) => Accounted(c, event)'
    BY <2>2, <2>3 DEF Accounted
  <2>5. UNCHANGED <<phase, resynced, lagged, rx, sent, held, loaded, index>>
    BY <1>2 DEF StreamReplay, Handle
  <2>6. \A n : Brought(c, n) => Brought(c, n)'
    BY <2>4, <2>5 DEF Brought
  <2> QED
    BY <2>5, <2>6 DEF Covered, Reaches
<1>3. CASE Receive(c)
  <2>1. /\ rx[c] \in 1..Len(sent) /\ rx'[c] = rx[c] + 1 /\ sent[rx[c]] \in Event
        /\ UNCHANGED <<phase, resynced, lagged, sent, held, loaded, replay, index>>
    BY <1>0, <1>3 DEF Receive, Handle, TypeOK
  <2>2. /\ received[c] \subseteq received'[c]
        /\ sent[rx[c]].matters => sent[rx[c]] \in received'[c]
    <3>1. CASE sent[rx[c]].matters
      BY <1>0, <1>3, <2>1, <3>1, HandleType DEF Receive
    <3>2. CASE ~ sent[rx[c]].matters
      BY <1>3, <3>2 DEF Receive
    <3> QED
      BY <3>1, <3>2
  <2>3. ASSUME NEW n \in 1..indexed, Brought(c, n) PROVE Brought(c, n)'
    <3>1. PICK event \in Event :
             /\ event.change = n
             /\ \/ Accounted(c, event)
                \/ held[Watcher] = event
                \/ \E i \in rx[c]..Len(sent) : sent[i] = event
      BY <2>3 DEF Brought
    <3>2. CASE Accounted(c, event) \/ held[Watcher] = event
      BY <2>1, <2>2, <3>1, <3>2 DEF Brought, Accounted, Replaying
    <3>3. CASE \E i \in rx[c]..Len(sent) : sent[i] = event
      <4>1. PICK i \in rx[c]..Len(sent) : sent[i] = event
        BY <3>3
      <4>2. CASE i = rx[c]
        <5>1. event.matters
          BY <1>0, <2>3, <3>1 DEF Event, TypeOK
        <5> QED
          BY <2>2, <3>1, <4>1, <4>2, <5>1 DEF Brought, Accounted
      <4>3. CASE i # rx[c]
        <5>1. i \in rx'[c]..Len(sent')
          BY <2>1, <4>1, <4>3
        <5> QED
          BY <2>1, <3>1, <4>1, <5>1 DEF Brought
      <4> QED
        BY <4>2, <4>3
    <3> QED
      BY <3>1, <3>2, <3>3
  <2> QED
    BY <2>1, <2>3 DEF Covered, Reaches
<1>4. CASE Lag(c)
  BY <1>0, <1>4, NotCovering DEF Lag, TypeOK
<1> QED
  BY <1>1, <1>2, <1>3, <1>4 DEF Serve

LEMMA CoveredByShell ==
    ASSUME Basic, NEW c \in Client, Covered(c), Shell(c)
    PROVE  Covered(c)'
<1> USE DEF daemon, index, streams, shell, bounds
<1>0. TypeOK
  BY DEF Basic
<1>1. CASE LoadNotes(c) \/ Open(c) \/ Retry(c)
  BY <1>0, <1>1, NotCovering DEF LoadNotes, Open, Retry, TypeOK
<1>2. CASE Resync(c)
  <2>1. CASE UNCHANGED <<loaded, resynced>>
    BY <1>2, <2>1, CoveredKept DEF Resync
  <2>2. CASE loaded' = [loaded EXCEPT ![c] = list_notes]
    <3>1. indexed' = indexed /\ loaded'[c] = indexed /\ indexed \in Int
      BY <1>0, <1>2, <2>2 DEF Resync, TypeOK, list_notes
    <3>2. \A n \in 1..indexed' : n <= loaded'[c]
      BY <3>1
    <3> QED
      BY <3>2 DEF Covered, Reaches
  <2> QED
    BY <1>2, <2>1, <2>2 DEF Resync
<1> QED
  BY <1>1, <1>2 DEF Shell

LEMMA CoveredStep ==
    ASSUME Basic, NEW c \in Client, Covered(c), [Next]_vars
    PROVE  Covered(c)'
<1> USE DEF daemon, index, streams, shell, bounds
<1>0. TypeOK /\ Counted
  BY DEF Basic
<1>1. CASE UNCHANGED vars
  BY <1>1, CoveredKept DEF vars
<1>2. ASSUME NEW e \in Emitter, Emit(e) \/ Index \/ IndexFails
      PROVE  Covered(c)'
  BY <1>2, CoveredByEmitter
<1>3. ASSUME NEW d \in Client, Serve(d) \/ Shell(d)
      PROVE  Covered(c)'
  <2>1. CASE d = c
    BY <1>3, <2>1, CoveredByServe, CoveredByShell
  <2>2. CASE d # c
    <3>1. /\ phase'[c] = phase[c] /\ rx'[c] = rx[c] /\ lagged'[c] = lagged[c]
          /\ replay'[c] = replay[c] /\ resynced'[c] = resynced[c]
          /\ loaded'[c] = loaded[c] /\ received'[c] = received[c]
          /\ UNCHANGED <<sent, held, index>>
      <4>1. CASE Serve(d)
        BY <1>0, <2>2, <4>1 DEF Serve, Connect, Subscribe, StreamReplay, Receive,
                                Lag, Handle, TypeOK
      <4>2. CASE Shell(d)
        BY <1>0, <2>2, <4>2 DEF Shell, LoadNotes, Open, Resync, Retry, TypeOK
      <4> QED
        BY <1>3, <4>1, <4>2
    <3> QED
      BY <3>1, CoveredKept
  <2> QED
    BY <2>1, <2>2
<1>4. ASSUME NEW d \in Client, EndOfStream(d) \/ ConnectionLost(d)
      PROVE  Covered(c)'
  <2>1. Disconnect(d) /\ UNCHANGED <<daemon, index, shell>>
    BY <1>4 DEF EndOfStream, ConnectionLost
  <2>2. CASE d = c
    BY <1>0, <2>1, <2>2, NotCovering DEF Disconnect, TypeOK
  <2>3. CASE d # c
    BY <1>0, <2>1, <2>3, CoveredKept DEF Disconnect, TypeOK
  <2> QED
    BY <2>2, <2>3
<1>5. CASE Shutdown
  BY <1>5, CoveredKept DEF Shutdown
<1>6. CASE Restart
  <2>1. c \notin OpenStreams
    BY <1>0, <1>6, OpenStreamsFinite, FS_EmptySet DEF Restart, Counted
  <2> QED
    BY <1>6, <2>1, NotCovering DEF Restart, OpenStreams, Connected
<1> QED
  BY <1>1, <1>2, <1>3, <1>4, <1>5, <1>6, EventStreamAssumption DEF Next

\* For any number of emitters, clients, events, lost connections and restarts
\* and any capacities: no change that reached the cache passes a reconnected
\* client by that has resynced and has not lagged, although what it reloads is
\* the cache and not the files.
THEOREM ResyncIsEnough == Spec => []ResyncCovers
<1> DEFINE Inv == Basic /\ \A c \in Client : Covered(c)
<1>1. Init => Inv
  BY InitType DEF Basic, Init, Covered
<1>2. Inv /\ [Next]_vars => Inv'
  <2> SUFFICES ASSUME Inv, [Next]_vars PROVE Inv'
    OBVIOUS
  <2>1. Basic'
    BY BasicStep
  <2>2. \A c \in Client : Covered(c)'
    BY CoveredStep
  <2> QED
    BY <2>1, <2>2
<1>3. Inv => ResyncCovers
  BY DEF Covered, Reaches, ResyncCovers
<1> QED
  BY <1>1, <1>2, <1>3, PTL DEF Spec

=============================================================================
