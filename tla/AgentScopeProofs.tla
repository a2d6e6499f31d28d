--------------------------- MODULE AgentScopeProofs ---------------------------
(***************************************************************************)
(* The scope switch of the chat panel: the run that takes the store's      *)
(* prompts has the scope that the switch shows.                            *)
(***************************************************************************)
EXTENDS AgentChatProofs

(***************************************************************************)
(* ScopeFollows is about the moments when no call is in flight.  What holds*)
(* in between: the entry of a session leads to a run whose handshake is    *)
(* over; a scope call serves a session that is already bound; and while    *)
(* one is in flight for the store's session, it is the only one, it builds *)
(* the scope that is shown and the entry it will replace is finished.      *)
(***************************************************************************)
EntryOpen(s) ==
    sessions[s] # NoRun => run[sessions[s]].phase \in {"live", "ended"}

ScopeCall(r) ==
    call[r].kind = "scope" =>
        /\ run[r].phase # "unused"
        /\ run[r].sid \in Runs
        /\ run[run[r].sid].phase # "unused"
        /\ call[run[r].sid].kind # "start"

\* A run that will take no further prompt.
Stopping(rec) ==
    rec.phase = "ended" \/ (rec.phase = "live" /\ "stop" \in ToSet(rec.cmds))

Gone == sessions[sessionId] = NoRun \/ Stopping(run[sessions[sessionId]])

Rebuilding(r) == call[r].kind = "scope" /\ run[r].sid = sessionId

Following ==
    /\ \A r \in Runs : Rebuilding(r) => Gone /\ run[r].ro = readOnly
    /\ \A r, q \in Runs : Rebuilding(r) /\ Rebuilding(q) => r = q
    /\ Gone \/ (\E r \in Runs : Rebuilding(r)) \/ run[sessions[sessionId]].ro = readOnly

ScopeInv ==
    /\ \A s \in Runs : EntryOpen(s) /\ ScopeCall(s)
    /\ sessionId # 0 => call[sessionId].kind # "start" /\ (raced \/ Following)

-----------------------------------------------------------------------------
(* A run grows older.                                                      *)

\* From a to b a run keeps its session and its scope, does not go back to its
\* handshake, and does not take back a Stop.
Aged(a, b) ==
    /\ a.phase # "unused" => b.phase # "unused" /\ b.ro = a.ro /\ b.sid = a.sid
    /\ a.phase \in {"live", "ended"} => b.phase \in {"live", "ended"}
    /\ Stopping(a) => Stopping(b)

Ages == \A p \in Runs : Aged(run[p], run'[p])

LEMMA AgedSame ==
    ASSUME NEW a, NEW b, b.phase = a.phase, b.ro = a.ro, b.sid = a.sid,
           b.cmds = a.cmds
    PROVE  Aged(a, b)
  BY DEF Aged, Stopping

\* A command that is not a Stop is taken, or one is appended.
LEMMA AgedTaken ==
    ASSUME NEW a \in GoodRun, NEW b, b.phase = a.phase, b.ro = a.ro,
           b.sid = a.sid, a.cmds # <<>>, Head(a.cmds) # "stop",
           b.cmds = Tail(a.cmds)
    PROVE  Aged(a, b)
  <1>1. ASSUME "stop" \in ToSet(a.cmds)
        PROVE  "stop" \in ToSet(b.cmds)
    <2>1. a.cmds \in Seq(Command)
      BY DEF GoodRun
    <2>2. PICK i \in 1..Len(a.cmds) : a.cmds[i] = "stop"
      BY <1>1, <2>1 DEF ToSet
    <2>3. i # 1
      BY <2>1, <2>2
    <2>4. i - 1 \in 1..Len(b.cmds) /\ b.cmds[i - 1] = "stop"
      BY <2>1, <2>2, <2>3
    <2>5. DOMAIN b.cmds = 1..Len(b.cmds)
      BY <2>1
    <2> QED
      BY <2>4, <2>5 DEF ToSet
  <1> QED
    BY <1>1 DEF Aged, Stopping

LEMMA SentStop ==
    ASSUME NEW cmds \in Seq(Command), NEW c \in Command
    PROVE  /\ "stop" \in ToSet(cmds) => "stop" \in ToSet(Append(cmds, c))
           /\ "stop" \in ToSet(Append(cmds, "stop"))
  <1>1. \A x \in Command : DOMAIN Append(cmds, x) = 1..(Len(cmds) + 1)
    OBVIOUS
  <1>2. Append(cmds, "stop")[Len(cmds) + 1] = "stop"
    BY DEF Command
  <1>3. \A i \in 1..Len(cmds) : Append(cmds, c)[i] = cmds[i] /\ i \in 1..(Len(cmds) + 1)
    OBVIOUS
  <1>4. DOMAIN cmds = 1..Len(cmds) /\ Len(cmds) + 1 \in 1..(Len(cmds) + 1)
    OBVIOUS
  <1>5. "stop" \in Command
    BY DEF Command
  <1>6. "stop" \in ToSet(Append(cmds, "stop"))
    BY <1>1, <1>2, <1>4, <1>5 DEF ToSet
  <1>7. ASSUME "stop" \in ToSet(cmds)
        PROVE  "stop" \in ToSet(Append(cmds, c))
    <2>1. PICK i \in 1..Len(cmds) : cmds[i] = "stop"
      BY <1>4, <1>7 DEF ToSet
    <2> QED
      BY <1>1, <1>3, <2>1 DEF ToSet
  <1> QED
    BY <1>6, <1>7

LEMMA AgesAll ==
    ASSUME RunsOK, NEW r \in Runs, NEW rec, Aged(run[r], rec),
           run' = [run EXCEPT ![r] = rec]
    PROVE  Ages
  <1>1. \A p \in Runs : run'[p] = IF p = r THEN rec ELSE run[p]
    BY DEF RunsOK
  <1> QED
    BY <1>1, AgedSame DEF Ages

LEMMA AgesNot ==
    ASSUME run' = run
    PROVE  Ages
  BY AgedSame DEF Ages

\* A command of the bridge: a Stop that is sent is not lost.
LEMMA SentAged ==
    ASSUME RunsOK, NEW s \in Runs, sessions[s] \in Runs, NEW c \in Command
    PROVE  /\ Sent(s, c) \in [Runs -> GoodRun]
           /\ \A p \in Runs : Aged(run[p], Sent(s, c)[p])
           /\ run[sessions[s]].phase \in {"live", "ended"} =>
                  Stopping(Sent(s, "stop")[sessions[s]])
  <1> DEFINE q == sessions[s]
             rec(x) == [run[q] EXCEPT !.cmds = Append(run[q].cmds, x)]
  <1>0. run[q] \in GoodRun /\ run[q].cmds \in Seq(Command) /\ "stop" \in Command
    BY DEF RunsOK, GoodRun, Command
  <1>1. CASE Accepts(s)
    <2>1. \A x \in Command : Sent(s, x) = [run EXCEPT ![q] = rec(x)]
      BY <1>1 DEF Sent, RunsOK
    <2>2. \A x \in Command :
              /\ rec(x) \in GoodRun
              /\ rec(x).phase = run[q].phase /\ rec(x).ro = run[q].ro
              /\ rec(x).sid = run[q].sid
              /\ rec(x).cmds = Append(run[q].cmds, x)
      <3>1. \A x \in Command : Append(run[q].cmds, x) \in Seq(Command)
        BY <1>0
      <3> QED
        BY <1>0, <3>1 DEF GoodRun
    <2>3. Aged(run[q], rec(c)) /\ (run[q].phase = "live" => Stopping(rec("stop")))
      <3>1. Stopping(run[q]) => Stopping(rec(c))
        BY <1>0, <2>2, SentStop DEF Stopping
      <3> HIDE DEF rec
      <3> QED
        BY <1>0, <2>2, <3>1, SentStop DEF Aged, Stopping
    <2> HIDE DEF rec
    <2>4. \A x \in Command : \A p \in Runs : Sent(s, x)[p] = IF p = q THEN rec(x) ELSE run[p]
      BY <2>1 DEF RunsOK
    <2>5. Sent(s, c) \in [Runs -> GoodRun]
      BY <2>1, <2>2 DEF RunsOK
    <2> QED
      BY <1>0, <1>1, <2>3, <2>4, <2>5, AgedSame DEF Accepts, Live
  <1>2. CASE ~ Accepts(s)
    <2>1. \A x \in Command : Sent(s, x) = run
      BY <1>2 DEF Sent, RunsOK, GoodRun
    <2>2. run[q].phase # "live"
      BY <1>2, AgentAssumption DEF Accepts, Live, NoRun, Runs
    <2> QED
      BY <1>0, <2>1, <2>2, AgedSame DEF RunsOK, Stopping
  <1> QED
    BY <1>1, <1>2

\* The handshake is over, or fails, or the session ends.
LEMMA AgedOpened ==
    ASSUME NEW a \in GoodRun, a.phase \in Handshake, NEW b,
           b.phase \in Phase \ {"unused"}, b.ro = a.ro, b.sid = a.sid
    PROVE  Aged(a, b)
  BY DEF Aged, Stopping, Handshake

LEMMA AgedEnded ==
    ASSUME NEW a \in GoodRun, a.phase # "unused"
    PROVE  Aged(a, Ended(a))
  <1>1. Ended(a).phase = "ended" /\ Ended(a).ro = a.ro /\ Ended(a).sid = a.sid
    BY DEF Ended, GoodRun
  <1> QED
    BY <1>1 DEF Aged, Stopping

LEMMA AgedFresh ==
    ASSUME NEW a, NEW b, a.phase = "unused"
    PROVE  Aged(a, b)
  BY DEF Aged, Stopping

LEMMA ProgressAges ==
    ASSUME RunsOK, NEW r \in Runs, Progress(r) \/ Notifies(r)
    PROVE  Ages
  <1> DEFINE a == run[r]
  <1>0. a \in GoodRun
    BY DEF RunsOK
  <1>1. CASE LoadFails(r)
    <2> DEFINE b == [a EXCEPT !.phase = "new", !.resume = 0]
    <2>1. run' = [run EXCEPT ![r] = b] /\ a.phase \in Handshake
      BY <1>1 DEF LoadFails, Answered, RunsOK, Handshake
    <2>2. b.phase = "new" /\ b.ro = a.ro /\ b.sid = a.sid
      BY <1>0 DEF GoodRun
    <2> HIDE DEF b
    <2> QED
      BY <1>0, <2>1, <2>2, AgedOpened, AgesAll DEF Phase, Handshake
  <1>2. CASE DriverTakes(r) \/ TurnDone(r) \/ ModelSet(r) \/ PumpModelLost(r) \/ Notifies(r)
    <2>1. PICK b : /\ run' = [run EXCEPT ![r] = b]
                   /\ \/ b = [a EXCEPT !.driver = Head(a.todo), !.todo = Tail(a.todo)]
                      \/ b = [a EXCEPT !.driver = "idle", !.out = Append(a.out, "done")]
                      \/ b = [a EXCEPT !.driver = "idle", !.pump = "select"]
                      \/ b = [a EXCEPT !.pump = "select"]
                      \/ \E e : b = [a EXCEPT !.out = Append(a.out, e)]
      <3>1. CASE DriverTakes(r)
        BY <3>1 DEF DriverTakes, RunsOK
      <3>2. CASE TurnDone(r)
        BY <3>2 DEF TurnDone, RunsOK
      <3>3. CASE ModelSet(r)
        BY <3>3 DEF ModelSet, RunsOK
      <3>4. CASE PumpModelLost(r)
        BY <3>4 DEF PumpModelLost, RunsOK
      <3>5. CASE Notifies(r)
        BY <3>5 DEF Notifies, RunsOK
      <3> QED
        BY <1>2, <3>1, <3>2, <3>3, <3>4, <3>5
    <2>2. b.phase = a.phase /\ b.ro = a.ro /\ b.sid = a.sid /\ b.cmds = a.cmds
      BY <1>0, <2>1 DEF GoodRun
    <2> QED
      BY <2>1, <2>2, AgedSame, AgesAll
  <1>3. CASE PumpPrompt(r) \/ PumpModel(r)
    <2>1. PICK b, work, pump : /\ run' = [run EXCEPT ![r] = b]
                   /\ b = [a EXCEPT !.cmds = Tail(a.cmds), !.pump = pump, !.todo = work]
      <3>1. CASE PumpPrompt(r)
        <4> DEFINE work == IF a.driver = "closed" THEN a.todo ELSE Append(a.todo, "prompt")
        <4>1. run' = [run EXCEPT ![r] = [a EXCEPT !.cmds = Tail(a.cmds), !.todo = work]]
          BY <3>1 DEF PumpPrompt, RunsOK
        <4>2. [a EXCEPT !.cmds = Tail(a.cmds), !.todo = work] =
              [a EXCEPT !.cmds = Tail(a.cmds), !.pump = a.pump, !.todo = work]
          BY <1>0 DEF GoodRun
        <4> QED
          BY <4>1, <4>2
      <3>2. CASE PumpModel(r) /\ a.driver = "closed"
        <4>1. run' = [run EXCEPT ![r] = [a EXCEPT !.cmds = Tail(a.cmds)]]
          BY <3>2 DEF PumpModel, RunsOK
        <4>2. [a EXCEPT !.cmds = Tail(a.cmds)] =
              [a EXCEPT !.cmds = Tail(a.cmds), !.pump = a.pump, !.todo = a.todo]
          BY <1>0 DEF GoodRun
        <4> QED
          BY <4>1, <4>2
      <3>3. CASE PumpModel(r) /\ a.driver # "closed"
        <4>1. run' = [run EXCEPT ![r] = [a EXCEPT !.cmds = Tail(a.cmds), !.pump = "model",
                                                  !.todo = Append(a.todo, "model")]]
          BY <3>3 DEF PumpModel, RunsOK
        <4> QED
          BY <4>1
      <3> QED
        BY <1>3, <3>1, <3>2, <3>3
    <2>2. /\ b.phase = a.phase /\ b.ro = a.ro /\ b.sid = a.sid
          /\ b.cmds = Tail(a.cmds)
      BY <1>0, <2>1 DEF GoodRun
    <2>3. a.cmds # <<>> /\ Head(a.cmds) # "stop"
      BY <1>3 DEF PumpPrompt, PumpModel
    <2> QED
      BY <1>0, <2>1, <2>2, <2>3, AgedTaken, AgesAll
  <1>4. CASE PumpEnds(r)
    <2>1. run' = [run EXCEPT ![r] = Ended(a)] /\ a.phase # "unused"
      BY <1>4 DEF PumpEnds, Live
    <2> QED
      BY <1>0, <2>1, AgedEnded, AgesAll
  <1> QED
    BY <1>1, <1>2, <1>3, <1>4 DEF Progress

LEMMA BreaksAges ==
    ASSUME RunsOK, NEW r \in Runs, Breaks(r) \/ EventArrives(r)
    PROVE  Ages
  <1> DEFINE a == run[r]
  <1>0. a \in GoodRun
    BY DEF RunsOK
  <1>1. PICK b : /\ run' = [run EXCEPT ![r] = b]
                 /\ \/ \E list : b = Closed(a, list)
                    \/ b = [a EXCEPT !.out = Tail(a.out)]
    <2>1. CASE TurnFails(r) \/ ConnectionLost(r)
      BY <2>1 DEF TurnFails, ConnectionLost
    <2>2. CASE EventArrives(r)
      BY <2>2 DEF EventArrives, PumpEvent, RunsOK
    <2> QED
      BY <2>1, <2>2 DEF Breaks
  <1>2. b.phase = a.phase /\ b.ro = a.ro /\ b.sid = a.sid /\ b.cmds = a.cmds
    BY <1>0, <1>1 DEF Closed, GoodRun
  <1> QED
    BY <1>1, <1>2, AgedSame, AgesAll

LEMMA StartsFresh ==
    ASSUME IInv, NEW r \in Runs, Starts(r)
    PROVE  run[r].phase = "unused" /\ \A p \in Runs : p # r => run'[p] = run[p]
  BY DEF Starts, agent_start, FreshRun, IInv, RunsOK

LEMMA StartsAges ==
    ASSUME IInv, NEW r \in Runs, Starts(r)
    PROVE  Ages
  <1>1. ASSUME NEW p \in Runs
        PROVE  Aged(run[p], run'[p])
    <2>1. CASE p = r
      BY <2>1, StartsFresh, AgedFresh
    <2>2. CASE p # r
      BY <2>2, StartsFresh, AgedSame
    <2> QED
      BY <2>1, <2>2
  <1> QED
    BY <1>1 DEF Ages

LEMMA RebuildAges ==
    ASSUME IInv, NEW s \in Runs, sessions[s] \in Runs, NEW ro \in BOOLEAN,
           NEW r \in Runs, StopAndRebuild(s, ro, r)
    PROVE  /\ Ages
           /\ run[r].phase = "unused"
           /\ run'[r].phase = "new" /\ run'[r].sid = s /\ run'[r].ro = ro
           /\ run[sessions[s]].phase \in {"live", "ended"} =>
                  Stopping(run'[sessions[s]])
  <1> DEFINE seed == run[sessions[s]].seed
             rec == Built(s, ro, seed)
  <1>1. "stop" \in Command /\ RunsOK
    BY DEF Command, IInv
  <1>2. run' = [Sent(s, "stop") EXCEPT ![r] = rec] /\ run[r].phase = "unused"
    BY DEF StopAndRebuild, FreshRun
  <1>3. /\ Sent(s, "stop") \in [Runs -> GoodRun]
        /\ \A p \in Runs : Aged(run[p], Sent(s, "stop")[p])
        /\ run[sessions[s]].phase \in {"live", "ended"} =>
               Stopping(Sent(s, "stop")[sessions[s]])
    BY <1>1, SentAged
  <1>4. rec.phase = "new" /\ rec.sid = s /\ rec.ro = ro
    BY DEF Built, Unused
  <1> HIDE DEF rec
  <1>5. \A p \in Runs : run'[p] = IF p = r THEN rec ELSE Sent(s, "stop")[p]
    BY <1>2, <1>3
  <1>6. \A p \in Runs : Aged(run[p], run'[p])
    BY <1>2, <1>3, <1>5, AgedFresh
  <1> QED
    BY <1>2, <1>3, <1>4, <1>5, <1>6 DEF Ages

LEMMA ReconcileAges ==
    ASSUME IInv, NEW r \in Runs, StartReconciles(r)
    PROVE  /\ Ages
           /\ Stopping(run'[r]) /\ run'[r].phase = "live"
           /\ \E q \in Runs :
                 /\ q # r
                 /\ run[q].phase = "unused" /\ run'[q].phase = "new"
                 /\ run'[q].sid = run[r].sid /\ run'[q].ro = readOnly
                 /\ call' = [call EXCEPT ![r] = NoCall,
                                ![q] = [kind |-> "scope", generation |-> 0]]
  <1> DEFINE old == [run[r] EXCEPT !.phase = "live", !.resume = 0,
                                   !.cmds = <<"stop">>]
             rec == Built(run[r].sid, readOnly, run[r].seed)
  <1>1. PICK q \in Runs :
            /\ FreshRun(q)
            /\ run' = [run EXCEPT
                  ![r].phase = "live", ![r].resume = 0,
                  ![r].cmds = <<"stop">>, ![q] = rec]
            /\ call' = [call EXCEPT ![r] = NoCall,
                           ![q] = [kind |-> "scope", generation |-> 0]]
    BY DEF StartReconciles
  <1>2. /\ run[r] \in GoodRun /\ run[r].phase \in Handshake
        /\ run[q].phase = "unused" /\ q # r
    BY <1>1 DEF RunsOK, StartReconciles, Answered, FreshRun, Handshake, IInv
  <1>3. run' = [[run EXCEPT ![r] = old] EXCEPT ![q] = rec]
    BY <1>1, <1>2 DEF RunsOK, IInv
  <1>4. /\ old.phase = "live" /\ old.ro = run[r].ro /\ old.sid = run[r].sid
        /\ old.cmds = <<"stop">>
    BY <1>2 DEF GoodRun
  <1>5. rec.phase = "new" /\ rec.sid = run[r].sid /\ rec.ro = readOnly
    BY DEF Built, Unused
  <1> HIDE DEF old, rec
  <1>6. \A p \in Runs : run'[p] = IF p = q THEN rec ELSE IF p = r THEN old ELSE run[p]
    BY <1>2, <1>3 DEF RunsOK, IInv
  <1>7. Stopping(old)
    <2>1. "stop" \in ToSet(<<"stop">>)
      BY DEF ToSet
    <2> QED
      BY <1>4, <2>1 DEF Stopping
  <1>8. Aged(run[r], old)
    BY <1>2, <1>4, AgedOpened DEF Phase, Handshake
  <1>9. ASSUME NEW p \in Runs
        PROVE  Aged(run[p], run'[p])
    BY <1>2, <1>6, <1>8, AgedFresh, AgedSame
  <1> QED
    BY <1>1, <1>2, <1>4, <1>5, <1>6, <1>7, <1>9 DEF Ages

LEMMA ReadyAges ==
    ASSUME IInv, NEW r \in Runs, Ready(r)
    PROVE  /\ Ages
           /\ run'[r].phase = "live" /\ run'[r].ro = run[r].ro
           /\ run'[r].sid = run[r].sid
           /\ sessions' = [sessions EXCEPT ![run[r].sid] = r]
           /\ run[r].phase \in Handshake
  <1> DEFINE b == [run[r] EXCEPT !.phase = "live", !.resume = 0]
  <1>1. /\ run' = [run EXCEPT ![r] = b] /\ run[r].phase \in Handshake
        /\ sessions' = [sessions EXCEPT ![run[r].sid] = r]
    BY DEF Ready, Answered, RunsOK, IInv
  <1>2. run[r] \in GoodRun /\ RunsOK
    BY DEF RunsOK, IInv
  <1>3. b.phase = "live" /\ b.ro = run[r].ro /\ b.sid = run[r].sid
    BY <1>2 DEF GoodRun
  <1> HIDE DEF b
  <1>4. Aged(run[r], b)
    BY <1>1, <1>2, <1>3, AgedOpened DEF Phase, Handshake
  <1>5. run'[r] = b
    BY <1>1, <1>2 DEF RunsOK
  <1> QED
    BY <1>1, <1>2, <1>3, <1>4, <1>5, AgesAll

LEMMA DiscardAges ==
    ASSUME IInv, NEW r \in Runs, StartDiscarded(r) \/ CallFails(r)
    PROVE  Ages
  <1> DEFINE b == [run[r] EXCEPT !.phase = "live", !.resume = 0,
                                 !.cmds = <<"stop">>]
  <1>0. run[r] \in GoodRun /\ RunsOK
    BY DEF RunsOK, IInv
  <1>1. CASE StartDiscarded(r)
    <2>1. run' = [run EXCEPT ![r] = b] /\ run[r].phase \in Handshake
      BY <1>0, <1>1 DEF StartDiscarded, Answered, RunsOK
    <2>2. b.phase = "live" /\ b.ro = run[r].ro /\ b.sid = run[r].sid
      BY <1>0 DEF GoodRun
    <2> HIDE DEF b
    <2> QED
      BY <1>0, <2>1, <2>2, AgedOpened, AgesAll DEF Phase, Handshake
  <1>2. CASE CallFails(r)
    <2>1. run' = [run EXCEPT ![r] = Ended(run[r])] /\ run[r].phase # "unused"
      BY <1>2 DEF CallFails, HandshakeFails, Handshake
    <2> QED
      BY <1>0, <2>1, AgedEnded, AgesAll
  <1> QED
    BY <1>1, <1>2

\* The commands that the store sends to the session it has.
LEMMA CommandAges ==
    ASSUME IInv, NEW s \in Runs, NEW c \in Command,
           run' = IF sessions[s] = NoRun THEN run ELSE Sent(s, c)
    PROVE  Ages
  <1>1. CASE sessions[s] = NoRun
    BY <1>1, AgesNot
  <1>2. CASE sessions[s] # NoRun
    <2>1. sessions[s] \in Runs
      BY <1>2, AgentAssumption DEF IInv, StoreInv, Runs, NoRun
    <2> QED
      BY <1>2, <2>1, SentAged DEF IInv, Ages
  <1> QED
    BY <1>1, <1>2

LEMMA AnswerAges ==
    ASSUME IInv, AnswerArrives
    PROVE  Ages
  <1>1. PICK a \in answers : agent_answer_permission(a[1], a[2])
    BY DEF AnswerArrives
  <1>2. \A p \in Runs : \E n, set :
            run'[p] = [run[p] EXCEPT !.ask = n, !.always = set] \/ run'[p] = run[p]
    BY <1>1 DEF agent_answer_permission
  <1>3. \A p \in Runs : /\ run'[p].phase = run[p].phase /\ run'[p].sid = run[p].sid
                        /\ run'[p].ro = run[p].ro /\ run'[p].cmds = run[p].cmds
    BY <1>2 DEF RunsOK, GoodRun, IInv
  <1> QED
    BY <1>3, AgedSame DEF Ages

LEMMA AskAges ==
    ASSUME IInv, NEW r \in Runs, NEW t \in Tools, PermissionShown(r, t)
    PROVE  Ages
  <1> DEFINE b == [run[r] EXCEPT !.ask = Len(asks) + 1]
  <1>0. run[r] \in GoodRun /\ RunsOK
    BY DEF RunsOK, IInv
  <1>1. run' = run \/ run' = [run EXCEPT ![r] = b]
    BY <1>0 DEF PermissionShown, AsksUser, RunsOK
  <1>2. /\ b.phase = run[r].phase /\ b.sid = run[r].sid
        /\ b.ro = run[r].ro /\ b.cmds = run[r].cmds
    BY <1>0 DEF GoodRun
  <1> HIDE DEF b
  <1> QED
    BY <1>0, <1>1, <1>2, AgedSame, AgesAll, AgesNot

-----------------------------------------------------------------------------
(* The scope follows the switch.                                           *)

\* The rebuilds that a step leaves in flight are those of before.
LEMMA SameRebuilds ==
    ASSUME ScopeInv, Ages, NEW r \in Runs, call[r].kind = "scope"
    PROVE  /\ run[r].phase # "unused" /\ run'[r].phase # "unused"
           /\ run'[r].sid = run[r].sid /\ run'[r].ro = run[r].ro
           /\ run[r].sid \in Runs
           /\ run[run[r].sid].phase # "unused" /\ run'[run[r].sid].phase # "unused"
           /\ call[run[r].sid].kind # "start"
  BY DEF ScopeInv, ScopeCall, Ages, Aged

\* A session's entry stays, or is removed.
LEMMA EntriesStay ==
    ASSUME IInv, ScopeInv, Ages, \A s \in Runs : sessions'[s] \in {sessions[s], NoRun}
    PROVE  \A s \in Runs : EntryOpen(s)'
  <1>1. ASSUME NEW s \in Runs
        PROVE  EntryOpen(s)'
    <2>1. sessions[s] # NoRun => sessions[s] \in Runs
      BY AgentAssumption DEF IInv, StoreInv, Runs, NoRun
    <2> QED
      BY <2>1 DEF ScopeInv, EntryOpen, Ages, Aged
  <1> QED
    BY <1>1

LEMMA GoneStays ==
    ASSUME IInv, Ages, sessionId \in Runs, sessionId' = sessionId, Gone,
           sessions'[sessionId] \in {sessions[sessionId], NoRun}
    PROVE  Gone'
  <1>1. sessions[sessionId] # NoRun => sessions[sessionId] \in Runs
    BY AgentAssumption DEF IInv, StoreInv, Runs, NoRun
  <1> QED
    BY <1>1 DEF Gone, Ages, Aged

\* A call may end without an effect; no other begins.
LEMMA ScopeStays ==
    ASSUME IInv, Home, ScopeInv, Ages,
           \A p \in Runs : call'[p] = call[p] \/ call'[p].kind = "none",
           \A s \in Runs : sessions'[s] \in {sessions[s], NoRun},
           \/ sessionId' = 0
           \/ UNCHANGED <<sessionId, readOnly, raced>>
    PROVE  ScopeInv'
  <1>1. \A s \in Runs : EntryOpen(s)'
    BY EntriesStay
  <1>2. ASSUME NEW r \in Runs
        PROVE  ScopeCall(r)'
    <2> SUFFICES ASSUME call'[r].kind = "scope"
                 PROVE  ScopeCall(r)'
      BY DEF ScopeCall
    <2>1. call[r].kind = "scope"
      OBVIOUS
    <2> QED
      BY <2>1, SameRebuilds DEF ScopeCall
  <1>3. ASSUME sessionId' # 0
        PROVE  call'[sessionId'].kind # "start" /\ (raced' \/ Following')
    <2>1. /\ UNCHANGED <<sessionId, readOnly, raced>>
          /\ sessionId \in Runs /\ run[sessionId].phase # "unused"
      BY <1>3 DEF Home
    <2>2. call'[sessionId].kind # "start"
      BY <1>3, <2>1 DEF ScopeInv
    <2>3. ASSUME Following
          PROVE  Following'
      <3>1. \A r \in Runs : Rebuilding(r)' =>
                Rebuilding(r) /\ run'[r].ro = run[r].ro /\ call'[r] = call[r]
        BY <2>1, SameRebuilds DEF Rebuilding
      <3>2. Gone => Gone'
        BY <2>1, GoneStays
      <3>3. \A r \in Runs : Rebuilding(r)' => Gone' /\ run'[r].ro = readOnly'
        BY <2>1, <2>3, <3>1, <3>2 DEF Following
      <3>4. \A r, q \in Runs : Rebuilding(r)' /\ Rebuilding(q)' => r = q
        BY <2>3, <3>1 DEF Following
      <3>5. Gone' \/ (\E r \in Runs : Rebuilding(r)')
                  \/ run'[sessions'[sessionId']].ro = readOnly'
        <4>1. CASE Gone
          BY <3>2, <4>1
        <4>2. CASE ~ Gone
          <5>1. \A r \in Runs : ~ Rebuilding(r)
            BY <2>3, <4>2 DEF Following
          <5>2. run[sessions[sessionId]].ro = readOnly /\ sessions[sessionId] # NoRun
            BY <2>3, <4>2, <5>1 DEF Following, Gone
          <5>3. sessions[sessionId] \in Runs
            BY <2>1, <5>2, AgentAssumption DEF IInv, StoreInv, Runs, NoRun
          <5>4. run[sessions[sessionId]].phase # "unused"
            BY <2>1, <5>2 DEF ScopeInv, EntryOpen
          <5>5. CASE sessions'[sessionId] = NoRun
            BY <2>1, <5>5 DEF Gone
          <5>6. CASE sessions'[sessionId] = sessions[sessionId]
            BY <2>1, <5>2, <5>3, <5>4, <5>6 DEF Ages, Aged
          <5> QED
            BY <2>1, <5>5, <5>6
        <4> QED
          BY <4>1, <4>2
      <3> QED
        BY <3>3, <3>4, <3>5 DEF Following
    <2> QED
      BY <1>3, <2>1, <2>2, <2>3 DEF ScopeInv
  <1> QED
    BY <1>1, <1>2, <1>3 DEF ScopeInv

\* A start adds a call for a run that no rebuild is about.
LEMMA ScopeStarts ==
    ASSUME IInv, ScopeInv, NEW r \in Runs, Starts(r), sessionId' = 0
    PROVE  ScopeInv'
  <1>0. Ages
    BY StartsAges
  <1>1. \A s \in Runs : EntryOpen(s)'
    BY <1>0, EntriesStay DEF Starts, agent_start
  <1>2. ASSUME NEW p \in Runs, call'[p].kind = "scope"
        PROVE  ScopeCall(p)'
    <2>1. \A q \in Runs : q # r => call'[q] = call[q]
      BY DEF Starts, IInv, StoreInv, StoreOK
    <2>2. p # r
      BY <1>2 DEF Starts, IInv, StoreInv, StoreOK
    <2>3. call[p].kind = "scope"
      BY <1>2, <2>1, <2>2
    <2>4. run[p].sid # r
      BY <1>0, <2>3, SameRebuilds, StartsFresh
    <2> QED
      BY <1>0, <2>1, <2>3, <2>4, SameRebuilds DEF ScopeCall
  <1> QED
    BY <1>1, <1>2 DEF ScopeInv, ScopeCall

\* An entry that is set leads to a run whose handshake is over.
LEMMA EntrySet ==
    ASSUME IInv, ScopeInv, Ages, NEW r \in Runs, NEW s \in Runs,
           run'[r].phase = "live", sessions' = [sessions EXCEPT ![s] = r]
    PROVE  /\ sessions'[s] = r
           /\ \A p \in Runs : p # s => sessions'[p] = sessions[p]
           /\ \A p \in Runs : EntryOpen(p)'
  <1>1. sessions'[s] = r /\ \A p \in Runs : p # s => sessions'[p] = sessions[p]
    BY DEF IInv, StoreInv
  <1>2. ASSUME NEW p \in Runs
        PROVE  EntryOpen(p)'
    <2>1. sessions[p] # NoRun => sessions[p] \in Runs
      BY AgentAssumption DEF IInv, StoreInv, Runs, NoRun
    <2>2. CASE p = s
      BY <1>1, <2>2 DEF EntryOpen
    <2>3. CASE p # s
      BY <1>1, <2>1, <2>3 DEF ScopeInv, EntryOpen, Ages, Aged
    <2> QED
      BY <2>2, <2>3
  <1> QED
    BY <1>1, <1>2

\* A start binds its session with the scope that is shown.
LEMMA ScopeBinds ==
    ASSUME IInv, Home, ScopeInv, NEW r \in Runs, StartBinds(r)
    PROVE  ScopeInv'
  <1>1. /\ call[r].kind = "start" /\ run[r].ro = readOnly /\ Ready(r)
        /\ sessionId' = run[r].sid /\ Settled(r) /\ UNCHANGED <<readOnly, raced>>
    BY DEF StartBinds
  <1>2. run[r].sid = r
    BY <1>1 DEF Home, CallHome
  <1>3. /\ Ages /\ run'[r].phase = "live" /\ run'[r].ro = readOnly
        /\ sessions' = [sessions EXCEPT ![r] = r]
    BY <1>1, <1>2, ReadyAges
  <1>4. sessions'[r] = r /\ \A p \in Runs : EntryOpen(p)'
    BY <1>3, EntrySet
  <1>5. call'[r].kind = "none" /\ \A p \in Runs : p # r => call'[p] = call[p]
    BY <1>1 DEF Settled, NoCall, IInv, StoreInv, StoreOK
  <1>6. ASSUME NEW p \in Runs, call'[p].kind = "scope"
        PROVE  ScopeCall(p)' /\ run'[p].sid # r
    <2>1. call[p].kind = "scope" /\ run[p].sid # r
      BY <1>1, <1>3, <1>5, <1>6, SameRebuilds
    <2> QED
      BY <1>3, <1>5, <2>1, SameRebuilds DEF ScopeCall
  <1>7. \A p \in Runs : ~ Rebuilding(p)'
    BY <1>1, <1>2, <1>6 DEF Rebuilding
  <1>8. Following'
    BY <1>1, <1>2, <1>3, <1>4, <1>7 DEF Following
  <1> QED
    BY <1>1, <1>2, <1>4, <1>5, <1>6, <1>8 DEF ScopeInv, ScopeCall

\* The switch was flipped during the start: the session is bound to a run that
\* is stopped, and the one in flight has the scope that is shown.
LEMMA ScopeReconciles ==
    ASSUME IInv, Home, ScopeInv, NEW r \in Runs, StartReconciles(r)
    PROVE  ScopeInv'
  <1>1. /\ call[r].kind = "start" /\ sessionId' = run[r].sid
        /\ sessions' = [sessions EXCEPT ![run[r].sid] = r]
        /\ UNCHANGED <<readOnly, raced>>
    BY DEF StartReconciles
  <1>2. run[r].sid = r /\ run[r].phase # "unused"
    BY <1>1 DEF Home, CallHome
  <1>3. /\ Ages /\ Stopping(run'[r]) /\ run'[r].phase = "live"
    BY ReconcileAges
  <1>4. PICK q \in Runs :
            /\ q # r
            /\ run[q].phase = "unused" /\ run'[q].phase = "new"
            /\ run'[q].sid = run[r].sid /\ run'[q].ro = readOnly
            /\ call' = [call EXCEPT ![r] = NoCall,
                           ![q] = [kind |-> "scope", generation |-> 0]]
    BY ReconcileAges
  <1>5. sessions'[r] = r /\ \A p \in Runs : EntryOpen(p)'
    BY <1>1, <1>2, <1>3, EntrySet
  <1>6. /\ call'[r].kind = "none" /\ call'[q].kind = "scope"
        /\ \A p \in Runs : p # r /\ p # q => call'[p] = call[p]
    BY <1>4 DEF NoCall, IInv, StoreInv, StoreOK
  <1>7. ASSUME NEW p \in Runs, call'[p].kind = "scope"
        PROVE  ScopeCall(p)' /\ (run'[p].sid = r => p = q)
    <2>1. CASE p = q
      BY <1>2, <1>3, <1>4, <1>6, <2>1 DEF ScopeCall
    <2>2. CASE p # q
      <3>1. call[p].kind = "scope" /\ run[p].sid # r /\ run[p].sid # q
        BY <1>1, <1>3, <1>4, <1>6, <1>7, <2>2, SameRebuilds
      <3> QED
        BY <1>3, <1>6, <3>1, SameRebuilds DEF ScopeCall
    <2> QED
      BY <2>1, <2>2
  <1>8. \A p \in Runs : Rebuilding(p)' => p = q
    BY <1>1, <1>2, <1>7 DEF Rebuilding
  <1>9. Gone'
    BY <1>1, <1>2, <1>3, <1>5 DEF Gone
  <1>10. Following'
    BY <1>1, <1>4, <1>8, <1>9 DEF Following
  <1> QED
    BY <1>1, <1>2, <1>5, <1>6, <1>7, <1>10 DEF ScopeInv, ScopeCall

\* A rebuild is over: its run takes the prompts from now on.
LEMMA ScopeArrives ==
    ASSUME IInv, Home, ScopeInv, NEW r \in Runs, ScopeResolves(r)
    PROVE  ScopeInv'
  <1>1. /\ call[r].kind = "scope" /\ Ready(r) /\ Settled(r)
        /\ UNCHANGED <<sessionId, readOnly, raced>>
    BY DEF ScopeResolves
  <1> DEFINE s == run[r].sid
  <1>2. /\ Ages /\ run'[r].phase = "live" /\ run'[r].ro = run[r].ro
        /\ sessions' = [sessions EXCEPT ![s] = r]
    BY <1>1, ReadyAges
  <1>3. s \in Runs
    BY <1>1, <1>2, SameRebuilds
  <1>4. /\ sessions'[s] = r /\ \A p \in Runs : EntryOpen(p)'
        /\ \A p \in Runs : p # s => sessions'[p] = sessions[p]
    BY <1>2, <1>3, EntrySet
  <1>5. call'[r].kind = "none" /\ \A p \in Runs : p # r => call'[p] = call[p]
    BY <1>1 DEF Settled, NoCall, IInv, StoreInv, StoreOK
  <1>6. ASSUME NEW p \in Runs, call'[p].kind = "scope"
        PROVE  ScopeCall(p)' /\ call[p].kind = "scope" /\ p # r
    <2>1. call[p].kind = "scope" /\ p # r
      BY <1>5, <1>6
    <2> QED
      BY <1>2, <1>5, <2>1, SameRebuilds DEF ScopeCall
  <1>7. ASSUME sessionId # 0, Following
        PROVE  Following'
    <2>0. sessionId \in Runs
      BY <1>7 DEF Home
    <2>1. CASE s = sessionId
      <3>1. Rebuilding(r)
        BY <1>1, <2>1 DEF Rebuilding
      <3>2. ASSUME NEW p \in Runs, Rebuilding(p)'
            PROVE  FALSE
        <4>1. Rebuilding(p) /\ p # r
          BY <1>1, <1>2, <1>6, <3>2, SameRebuilds DEF Rebuilding
        <4> QED
          BY <1>7, <3>1, <4>1 DEF Following
      <3>3. run'[sessions'[sessionId']].ro = readOnly'
        BY <1>1, <1>2, <1>4, <1>7, <2>1, <3>1 DEF Following
      <3> QED
        BY <3>2, <3>3 DEF Following
    <2>2. CASE s # sessionId
      <3>1. sessions'[sessionId] = sessions[sessionId] /\ sessionId' = sessionId
        BY <1>1, <1>4, <2>0, <2>2
      <3>2. \A p \in Runs : Rebuilding(p)' <=> Rebuilding(p)
        <4>1. ~ Rebuilding(r)
          BY <2>2 DEF Rebuilding
        <4>2. ~ Rebuilding(r)'
          BY <1>5 DEF Rebuilding
        <4>3. ASSUME NEW p \in Runs, p # r
              PROVE  Rebuilding(p)' <=> Rebuilding(p)
          BY <1>2, <1>5, <3>1, <4>3, SameRebuilds DEF Rebuilding
        <4> QED
          BY <4>1, <4>2, <4>3
      <3>3. Gone => Gone'
        BY <1>2, <2>0, <3>1, GoneStays
      <3>4. \A p \in Runs : Rebuilding(p) => run'[p].ro = run[p].ro
        BY <1>2, SameRebuilds DEF Rebuilding
      <3>5. Gone' \/ (\E p \in Runs : Rebuilding(p)')
                  \/ run'[sessions'[sessionId']].ro = readOnly'
        <4>1. CASE Gone \/ \E p \in Runs : Rebuilding(p)
          BY <3>2, <3>3, <4>1
        <4>2. CASE ~ Gone /\ run[sessions[sessionId]].ro = readOnly
          <5>1. sessions[sessionId] # NoRun
            BY <4>2 DEF Gone
          <5>2. sessions[sessionId] \in Runs
            BY <2>0, <5>1, AgentAssumption DEF IInv, StoreInv, Runs, NoRun
          <5>3. run[sessions[sessionId]].phase # "unused"
            BY <2>0, <5>1 DEF ScopeInv, EntryOpen
          <5> QED
            BY <1>1, <1>2, <3>1, <4>2, <5>2, <5>3 DEF Ages, Aged
        <4> QED
          BY <1>7, <4>1, <4>2 DEF Following
      <3> QED
        BY <1>1, <1>7, <3>2, <3>3, <3>4, <3>5 DEF Following
    <2> QED
      BY <2>1, <2>2
  <1>8. sessionId # 0 => call'[sessionId].kind # "start"
    <2>1. sessionId # 0 => sessionId \in Runs /\ call[sessionId].kind # "start"
      BY DEF Home, ScopeInv
    <2> QED
      BY <1>5, <2>1
  <1> QED
    BY <1>1, <1>4, <1>6, <1>7, <1>8 DEF ScopeInv, ScopeCall

\* The switch is flipped: the run that has the other scope is stopped and one
\* that has this scope is built, or there is nothing to do.
LEMMA ScopeToggled ==
    ASSUME IInv, Home, ScopeInv, ToggleReadOnly
    PROVE  ScopeInv' /\ Ages
  <1>0. /\ readOnly' = ~readOnly /\ readOnly \in BOOLEAN
        /\ UNCHANGED <<sessionId, sessions>>
        /\ ~ raced' => ~ raced /\ \A r \in Runs : ~ Rebuilding(r)
    BY DEF ToggleReadOnly, StopAndRebuild, bridge, IInv, FlagsOK, Rebuilding
  <1>1. CASE sessionId # 0 /\ Rebuilds(sessionId, ~readOnly)
    <2>1. PICK r \in Runs :
              /\ StopAndRebuild(sessionId, ~readOnly, r)
              /\ call' = [call EXCEPT ![r] = [kind |-> "scope", generation |-> 0]]
      BY <1>1 DEF ToggleReadOnly
    <2>2. /\ sessionId \in Runs /\ run[sessionId].phase # "unused"
          /\ call[sessionId].kind # "start"
      BY <1>1 DEF Home, ScopeInv
    <2>3. sessions[sessionId] \in Runs /\ sessions[sessionId] # NoRun
      BY <1>1, <2>2, AgentAssumption DEF Rebuilds, IInv, StoreInv, Runs, NoRun
    <2>4. run[sessions[sessionId]].phase \in {"live", "ended"}
      BY <2>2, <2>3 DEF ScopeInv, EntryOpen
    <2>5. /\ Ages /\ run[r].phase = "unused"
          /\ run'[r].phase = "new" /\ run'[r].sid = sessionId
          /\ run'[r].ro = readOnly'
          /\ Stopping(run'[sessions[sessionId]])
      <3>1. (~readOnly) \in BOOLEAN
        BY <1>0
      <3>2. PICK ro \in BOOLEAN : ro = (~readOnly)
        BY <3>1
      <3>3. StopAndRebuild(sessionId, ro, r) /\ readOnly' = ro
        BY <1>0, <2>1, <3>2, Zenon
      <3> QED
        BY <2>2, <2>3, <2>4, <3>3, RebuildAges
    <2>6. /\ call'[r].kind = "scope" /\ \A p \in Runs : p # r => call'[p] = call[p]
      BY <2>1 DEF IInv, StoreInv, StoreOK
    <2>7. Gone'
      BY <1>0, <2>5 DEF Gone
    <2>8. ASSUME NEW p \in Runs, call'[p].kind = "scope"
          PROVE  ScopeCall(p)' /\ (p # r /\ Rebuilding(p)' => Rebuilding(p))
      <3>1. CASE p = r
        <4>1. run'[sessionId].phase # "unused" /\ sessionId # r
          BY <2>2, <2>5 DEF Ages, Aged
        <4> QED
          BY <2>2, <2>5, <2>6, <3>1, <4>1 DEF ScopeCall
      <3>2. CASE p # r
        <4>1. call[p].kind = "scope" /\ run[p].sid # r
          BY <2>5, <2>6, <2>8, <3>2, SameRebuilds
        <4> QED
          BY <1>0, <2>5, <2>6, <3>2, <4>1, SameRebuilds DEF ScopeCall, Rebuilding
      <3> QED
        BY <3>1, <3>2
    <2>9. raced' \/ Following'
      <3>1. ASSUME ~ raced', NEW p \in Runs, Rebuilding(p)'
            PROVE  p = r
        BY <1>0, <2>8, <3>1 DEF Rebuilding
      <3>2. Rebuilding(r)'
        BY <1>0, <2>5, <2>6 DEF Rebuilding
      <3> QED
        BY <2>5, <2>7, <3>1, <3>2 DEF Following
    <2>10. call'[sessionId'].kind # "start"
      BY <1>0, <2>2, <2>6
    <2>11. \A s \in Runs : EntryOpen(s)'
      BY <1>0, <2>5, EntriesStay
    <2> QED
      BY <2>5, <2>8, <2>9, <2>10, <2>11 DEF ScopeInv, ScopeCall
  <1>2. CASE ~ (sessionId # 0 /\ Rebuilds(sessionId, ~readOnly))
    <2>1. UNCHANGED <<run, call>>
      BY <1>2 DEF ToggleReadOnly, bridge
    <2>2. Ages
      BY <2>1, AgesNot
    <2>3. \A s \in Runs : EntryOpen(s)' /\ ScopeCall(s)'
      BY <1>0, <2>1 DEF ScopeInv, EntryOpen, ScopeCall
    <2>4. ASSUME sessionId # 0, ~ raced'
          PROVE  Following'
      <3>1. \A p \in Runs : ~ Rebuilding(p)'
        BY <1>0, <2>1, <2>4 DEF Rebuilding
      <3>2. sessions[sessionId] = NoRun \/ run[sessions[sessionId]].ro = ~readOnly
        BY <1>2, <2>4 DEF Rebuilds
      <3>3. Gone' \/ run'[sessions'[sessionId']].ro = readOnly'
        BY <1>0, <2>1, <3>2 DEF Gone
      <3> QED
        BY <3>1, <3>3 DEF Following
    <2> QED
      BY <1>0, <2>1, <2>2, <2>3, <2>4 DEF ScopeInv
  <1> QED
    BY <1>1, <1>2

LEMMA ScopeContinues ==
    ASSUME IInv, Home, ScopeInv, NEW r \in Runs, Continuation(r) \/ CallFails(r)
    PROVE  ScopeInv'
  <1>1. CASE StartDiscarded(r) \/ CallFails(r)
    <2>1. /\ Settled(r) /\ UNCHANGED <<sessions, sessionId, readOnly, raced>>
      BY <1>1 DEF StartDiscarded, CallFails, HandshakeFails
    <2>2. \A p \in Runs : call'[p] = call[p] \/ call'[p].kind = "none"
      BY <2>1 DEF Settled, NoCall, IInv, StoreInv, StoreOK
    <2> QED
      BY <1>1, <2>1, <2>2, DiscardAges, ScopeStays
  <1>2. CASE StartBinds(r)
    BY <1>2, ScopeBinds
  <1>3. CASE StartReconciles(r)
    BY <1>3, ScopeReconciles
  <1>4. CASE ScopeResolves(r)
    BY <1>4, ScopeArrives
  <1> QED
    BY <1>1, <1>2, <1>3, <1>4 DEF Continuation

LEMMA ScopeClicks ==
    ASSUME IInv, Home, ScopeInv, Clicks
    PROVE  ScopeInv'
  <1>0. sessionId # 0 => sessionId \in Runs
    BY DEF Home
  \* Stops and prompts leave the entries, or remove the one of the session.
  <1>1. ASSUME sessionId # 0,
               \/ agent_prompt(sessionId) \/ agent_select_model(sessionId)
               \/ agent_stop(sessionId)
        PROVE  Ages /\ \A s \in Runs : sessions'[s] \in {sessions[s], NoRun}
    <2>1. PICK c \in Command :
              run' = IF sessions[sessionId] = NoRun THEN run ELSE Sent(sessionId, c)
      BY <1>1 DEF agent_prompt, agent_select_model, agent_stop, Command
    <2>2. Ages
      BY <1>0, <1>1, <2>1, CommandAges
    <2>3. \A s \in Runs : sessions'[s] \in {sessions[s], NoRun}
      BY <1>1 DEF agent_prompt, agent_select_model, agent_stop, IInv, StoreInv
    <2> QED
      BY <2>2, <2>3
  <1>2. CASE PrepareSession
    <2>1. PICK r \in Runs : Starts(r)
      BY <1>2 DEF PrepareSession
    <2> QED
      BY <1>2, <2>1, ScopeStarts DEF PrepareSession
  <1>3. CASE ToggleReadOnly
    BY <1>3, ScopeToggled
  <1>4. CASE SelectAgent \/ \E t \in 0..MaxThreads : SwitchThread(t)
    <2>1. run' = run /\ sessions' = sessions /\ call' = call /\ sessionId' = 0
      BY <1>4 DEF SelectAgent, SwitchThread, ContextSwitch, bridge
    <2> QED
      BY <2>1, AgesNot, ScopeStays
  <1>5. CASE SendMessage \/ \E i \in Sends : SendCreated(i) \/ SendFails(i)
    <2>1. /\ run' = run /\ sessions' = sessions /\ call' = call
          /\ UNCHANGED <<sessionId, readOnly, raced>>
      BY <1>5 DEF SendMessage, SendCreated, SendFails, bridge
    <2> QED
      BY <2>1, AgesNot, ScopeStays
  <1>6. ASSUME NEW i \in Sends, SendPrompt(i)
        PROVE  ScopeInv'
    <2>1. call' = call /\ UNCHANGED <<sessionId, readOnly, raced>>
      BY <1>6 DEF SendPrompt
    <2>2. CASE sessionId # 0
      BY <1>1, <1>6, <2>1, <2>2, ScopeStays DEF SendPrompt
    <2>3. CASE sessionId = 0
      <3>1. run' = run /\ sessions' = sessions
        BY <1>6, <2>3 DEF SendPrompt, bridge
      <3> QED
        BY <2>1, <3>1, AgesNot, ScopeStays
    <2> QED
      BY <2>2, <2>3
  <1>7. CASE StopTurn
    BY <1>1, <1>7, ScopeStays DEF StopTurn
  <1>8. CASE SelectModel
    BY <1>1, <1>8, ScopeStays DEF SelectModel, store
  <1>9. CASE ClosePanel
    <2>1. call' = call /\ sessionId' = 0
      BY <1>9 DEF ClosePanel
    <2>2. CASE sessionId # 0
      BY <1>1, <1>9, <2>1, <2>2, ScopeStays DEF ClosePanel
    <2>3. CASE sessionId = 0
      <3>1. run' = run /\ sessions' = sessions
        BY <1>9, <2>3 DEF ClosePanel, bridge
      <3> QED
        BY <2>1, <3>1, AgesNot, ScopeStays
    <2> QED
      BY <2>2, <2>3
  <1>10. ASSUME NEW i \in Sends, SendAppended(i)
         PROVE  ScopeInv'
    <2>1. UNCHANGED <<sessionId, readOnly, raced>>
      BY <1>10 DEF SendAppended
    <2>2. CASE sessionId = 0 /\ start = 0
      <3>1. PICK r \in Runs : Starts(r)
        BY <1>10, <2>2 DEF SendAppended
      <3> QED
        BY <2>1, <2>2, <3>1, ScopeStarts
    <2>3. CASE ~ (sessionId = 0 /\ start = 0)
      <3>1. run' = run /\ sessions' = sessions /\ call' = call
        BY <1>10, <2>3 DEF SendAppended, bridge
      <3> QED
        BY <2>1, <3>1, AgesNot, ScopeStays
    <2> QED
      BY <2>2, <2>3
  <1> QED
    BY <1>2, <1>3, <1>4, <1>5, <1>6, <1>7, <1>8, <1>9, <1>10 DEF Clicks

LEMMA ScopeNext ==
    ASSUME IInv, Home, ScopeInv, [Next]_vars
    PROVE  ScopeInv'
  \* A step that leaves the store's session and its calls alone.
  <1>1. ASSUME Ages, sessions' = sessions, call' = call,
               UNCHANGED <<sessionId, readOnly, raced>>
        PROVE  ScopeInv'
    BY <1>1, ScopeStays
  <1>2. CASE Clicks
    BY <1>2, ScopeClicks
  <1>3. CASE AnswerArrives
    BY <1>1, <1>3, AnswerAges DEF AnswerArrives, agent_answer_permission
  <1>4. CASE \E d \in Decision : Decide(d)
    BY <1>1, <1>4, AgesNot DEF Decide, bridge
  <1>5. ASSUME NEW r \in Runs, (Progress(r) /\ UNCHANGED chat) \/ Agent(r)
        PROVE  ScopeInv'
    <2>1. call' = call /\ UNCHANGED <<sessionId, readOnly, raced>>
      BY <1>5 DEF Agent, chat, store
    <2>2. CASE Progress(r) \/ Notifies(r)
      <3>1. sessions' = sessions
        BY <2>2 DEF Progress, LoadFails, DriverTakes, TurnDone, ModelSet, PumpPrompt,
                    PumpModel, PumpModelLost, PumpEnds, Notifies
      <3> QED
        BY <1>1, <2>1, <2>2, <3>1, ProgressAges DEF IInv
    <2>3. CASE \E t \in Tools : AllowsSilently(r, t)
      BY <1>1, <2>1, <2>3, AgesNot DEF AllowsSilently
    <2> QED
      BY <1>5, <2>2, <2>3 DEF Agent
  <1>6. ASSUME NEW r \in Runs, Continuation(r) \/ CallFails(r)
        PROVE  ScopeInv'
    BY <1>6, ScopeContinues
  <1>7. ASSUME NEW r \in Runs, Breaks(r) \/ EventArrives(r)
        PROVE  ScopeInv'
    <2>1. sessions' = sessions /\ call' = call /\ UNCHANGED <<sessionId, readOnly, raced>>
      BY <1>7 DEF Breaks, EventArrives, TurnFails, ConnectionLost, PumpEvent, store
    <2> QED
      BY <1>1, <1>7, <2>1, BreaksAges DEF IInv
  <1>8. ASSUME NEW r \in Runs, NEW t \in Tools, PermissionShown(r, t)
        PROVE  ScopeInv'
    BY <1>1, <1>8, AskAges DEF PermissionShown, AsksUser
  <1>9. CASE UNCHANGED vars
    BY <1>1, <1>9, AgesNot DEF vars, bridge, chat, store
  <1> QED
    BY <1>2, <1>3, <1>4, <1>5, <1>6, <1>7, <1>8, <1>9 DEF Next, User, Store, Clicks

\* The badge tells the truth: once no call is in flight, the run that takes the
\* prompts has the scope the switch shows, however starts, switches, stops,
\* failed handshakes and changes of the conversation interleave, and for any
\* number of them.  The one case it leaves out is a switch during the rebuild
\* of an earlier switch.
THEOREM ScopeIsFollowed == Spec => []ScopeFollows
  <1>1. Init => Home
    <2> SUFFICES ASSUME Init PROVE Home
      OBVIOUS
    <2>1. \A r \in Runs : CallHome(r)
      BY DEF Init, NoCall, CallHome
    <2> QED
      BY <2>1 DEF Init, Home, SessionAtHome
  <1>2. Init => ScopeInv
    BY DEF Init, AgentInit, ScopeInv, EntryOpen, ScopeCall, NoCall
  <1>3. IInv /\ Home /\ ScopeInv /\ [Next]_vars => Home' /\ ScopeInv'
    BY HomeNext, ScopeNext
  <1>4. ASSUME IInv, Home, ScopeInv, sessionId # 0, Serves(sessionId), ~raced,
               \A r \in Runs : call[r].kind = "none"
        PROVE  run[sessions[sessionId]].ro = readOnly
    <2>1. Following /\ \A r \in Runs : ~ Rebuilding(r)
      BY <1>4 DEF ScopeInv, Rebuilding
    <2>2. ~ Gone
      BY <1>4 DEF Gone, Stopping, Serves, Accepts, Live
    <2> QED
      BY <2>1, <2>2 DEF Following
  <1>5. IInv /\ Home /\ ScopeInv => ScopeFollows
    BY <1>4 DEF ScopeFollows
  <1> QED
    BY <1>1, <1>2, <1>3, <1>5, InvariantKept, PTL DEF Spec

=============================================================================
