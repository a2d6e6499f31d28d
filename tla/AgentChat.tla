------------------------------ MODULE AgentChat ------------------------------
(***************************************************************************)
(* The chat panel's store (ui/app/src/lib/agent/chat-store.svelte.ts, with *)
(* the busy flag of conversation.ts) driving the sessions of AgentSession. *)
(*                                                                         *)
(* A method of the store is cut at its awaits: what it reads afterwards    *)
(* may have been changed by another click.  The calls that wait for an     *)
(* agent process (startSession, setReadOnly) stay in flight as long as its *)
(* handshake; call[r] says which continuation waits for run r.             *)
(***************************************************************************)
EXTENDS AgentSession

CONSTANTS
    Saved,          \* conversations saved before the panel was opened
    MaxThreads,     \* BOUND: saved conversations
    MaxSends,       \* BOUND: send() calls in flight
    MaxClicks,      \* BOUND: messages, stops, switches and other user actions
    MaxFaults       \* BOUND: failed handshakes, turns, connections and saves, and
                    \* what the agent sends outside a turn

ASSUME ChatAssumption ==
    /\ MaxThreads \in Nat /\ Saved \in 0..MaxThreads
    /\ MaxSends \in Nat
    /\ MaxClicks \in Nat
    /\ MaxFaults \in Nat

VARIABLES
    sessionId,      \* this.sessionId, 0 for null
    acpId,          \* this.liveAcpSessionId, 0 for null
    readOnly,       \* this.readOnly
    generation,     \* this.sessionStartGeneration
    start,          \* the run of this.sessionStartPromise, 0 for null
    call,           \* call[r]: the continuation that waits for run r
    thread,         \* this.currentThreadId, 0 for null
    threads,        \* number of saved threads
    link,           \* acp_session_id of each thread, 0 for null
    busy,           \* this.conversation.busy
    send,           \* the send() calls: where each is, the run it waits for
    card,           \* this.pendingPermission, 0 for null
    answers,        \* answerPermission calls on their way: id and decision
    persisted,      \* the grants stored by the daemon
    open,           \* the panel exists
    clicks, faults,
    \* History variables.
    said,           \* the user's decision on each request
    raced,          \* the scope was switched while a switch was in flight
    fresh           \* the sessions started since the user last switched the
                    \* conversation, the agent or the persona

store == <<sessionId, acpId, readOnly, generation, start, call, thread, threads,
           link, busy, send, card, answers, persisted, open>>
chat == <<store, clicks, faults, said, raced, fresh>>
vars == <<bridge, chat>>

Threads == 1..MaxThreads
Sends == 1..MaxSends
Decision == {"once", "session", "always", "deny"}
Idle == [at |-> "no", awaits |-> 0]

StoreOK ==
    /\ sessionId \in 0..MaxRuns
    /\ acpId \in 0..MaxRuns
    /\ generation \in 0..MaxClicks
    /\ start \in 0..MaxRuns
    /\ call \in [Runs -> [kind : {"none", "start", "scope"}, generation : 0..MaxClicks]]
    /\ thread \in 0..MaxThreads
    /\ threads \in 0..MaxThreads
    /\ link \in [Threads -> 0..MaxRuns]
    /\ send \in [Sends -> [at : {"no", "create", "append", "session"}, awaits : 0..MaxRuns]]
    /\ clicks \in 0..MaxClicks
    /\ faults \in 0..MaxFaults
    /\ fresh \subseteq Runs

CardOK ==
    /\ card \in 0..MaxAsks
    /\ answers \subseteq (1..MaxAsks) \X Decision
    /\ persisted \subseteq Tools
    /\ said \in Seq(Decision \cup {"none"}) /\ Len(said) = Len(asks)

FlagsOK ==
    /\ readOnly \in BOOLEAN
    /\ busy \in BOOLEAN
    /\ open \in BOOLEAN
    /\ raced \in BOOLEAN

TypeOK == AgentTypeOK /\ StoreOK /\ CardOK /\ FlagsOK

NoCall == [kind |-> "none", generation |-> 0]

Init ==
    /\ AgentInit
    /\ sessionId = 0 /\ acpId = 0
    /\ readOnly = TRUE
    /\ generation = 0
    /\ start = 0
    /\ call = [r \in Runs |-> NoCall]
    /\ thread = 0
    /\ threads = Saved
    /\ link = [t \in Threads |-> 0]
    /\ busy = FALSE
    /\ send = [i \in Sends |-> Idle]
    /\ card = 0
    /\ answers = {}
    /\ persisted = {}
    /\ open = TRUE
    /\ clicks = 0 /\ faults = 0
    /\ said = <<>>
    /\ raced = FALSE
    /\ fresh = {}

-----------------------------------------------------------------------------
(* ensureSession.                                                          *)

Fault == faults < MaxFaults /\ faults' = faults + 1

\* resumeAcpSessionId: what is recorded on the current thread.
Resumed == IF thread = 0 THEN 0 ELSE link[thread]

\* The client call of ensureSession, when no session and no start exists.  The
\* grants were listed before; a list that failed is empty.
Starts(r) ==
    /\ \E seed \in SUBSET persisted : agent_start(r, readOnly, seed, Resumed)
    /\ start' = r
    /\ call' = [call EXCEPT ![r] = [kind |-> "start", generation |-> generation]]
    /\ fresh' = fresh \cup {r}

\* prepareSession of an agent that is available; also the panel's first one.
PrepareSession ==
    /\ open
    /\ sessionId = 0 /\ start = 0
    /\ \E r \in Runs : Starts(r)
    /\ UNCHANGED <<sessionId, acpId, readOnly, generation, thread, threads,
                   link, busy, send, card, answers, persisted, open, clicks,
                   faults, said, raced>>

\* Mutant: the token is not compared.
StaleNever(r) == FALSE

\* The context has been switched since run r was started.
Stale(r) == call[r].generation # generation

\* persistAcpSessionId: onto the current thread, whichever that is now.
Linked(id) == IF thread = 0 \/ id = 0 THEN link ELSE [link EXCEPT ![thread] = id]

\* The promise of run r's start is settled.
Settled(r) ==
    /\ start' = IF start = r THEN 0 ELSE start
    /\ call' = [call EXCEPT ![r] = NoCall]

\* startSession resolves for a context that is gone: stop the orphaned agent.
StartDiscarded(r) ==
    /\ call[r].kind = "start" /\ Stale(r)
    /\ Answered(r)
    /\ run' = [run EXCEPT ![r].phase = "live", ![r].resume = 0, ![r].cmds = <<"stop">>]
    /\ Settled(r)
    /\ UNCHANGED <<sessions, asks, pending, allowed, sessionId, acpId,
                   readOnly, generation, thread, threads, link, busy, send,
                   card, answers, persisted, open, clicks, faults, said, raced, fresh>>

\* Mutant: the scope is not reconciled.
StartBindsAnyScope(r) ==
    /\ call[r].kind = "start" /\ ~Stale(r)
    /\ Ready(r)
    /\ sessionId' = run[r].sid
    /\ acpId' = ResolvedId(r)
    /\ link' = Linked(ResolvedId(r))
    /\ Settled(r)
    /\ UNCHANGED <<readOnly, generation, thread, threads, busy, send, card,
                   answers, persisted, open, clicks, faults, said, raced, fresh>>

\* It resolves and the switch is still where it was.
StartBinds(r) ==
    /\ call[r].kind = "start" /\ ~Stale(r)
    /\ run[r].ro = readOnly
    /\ Ready(r)
    /\ sessionId' = run[r].sid
    /\ acpId' = ResolvedId(r)
    /\ link' = Linked(ResolvedId(r))
    /\ Settled(r)
    /\ UNCHANGED <<readOnly, generation, thread, threads, busy, send, card,
                   answers, persisted, open, clicks, faults, said, raced, fresh>>

\* The switch was flipped while it started: reconcile through setReadOnly.
\* The start's promise, and whoever awaits it, now waits for the rebuilt run.
StartReconciles(r) ==
    /\ call[r].kind = "start" /\ ~Stale(r)
    /\ Answered(r)
    /\ run[r].ro # readOnly
    /\ \E q \in Runs :
          /\ FreshRun(q)
          /\ run' = [run EXCEPT
                ![r].phase = "live", ![r].resume = 0, ![r].cmds = <<"stop">>,
                ![q] = Built(run[r].sid, readOnly, run[r].seed)]
          /\ start' = IF start = r THEN q ELSE start
          /\ call' = [call EXCEPT ![r] = NoCall,
                         ![q] = [kind |-> "scope", generation |-> 0]]
          /\ send' = [i \in Sends |-> IF send[i].awaits = r
                                      THEN [send[i] EXCEPT !.awaits = q] ELSE send[i]]
    /\ sessions' = [sessions EXCEPT ![run[r].sid] = r]
    /\ sessionId' = run[r].sid
    /\ acpId' = ResolvedId(r)
    /\ link' = Linked(ResolvedId(r))
    /\ UNCHANGED <<asks, pending, allowed, readOnly, generation, thread,
                   threads, busy, card, answers, persisted, open, clicks,
                   faults, said, raced, fresh>>

\* setReadOnly resolves with the new session's id, which becomes the live one.
ScopeResolves(r) ==
    /\ call[r].kind = "scope"
    /\ Ready(r)
    /\ acpId' = ResolvedId(r)
    /\ link' = Linked(ResolvedId(r))
    /\ Settled(r)
    /\ UNCHANGED <<sessionId, readOnly, generation, thread, threads, busy,
                   send, card, answers, persisted, open, clicks, faults, said,
                   raced, fresh>>

\* The handshake fails: the call is rejected, nothing is bound, and a send that
\* waits for it shows the error.
CallFails(r) ==
    /\ HandshakeFails(r)
    /\ Fault
    /\ Settled(r)
    /\ send' = [i \in Sends |-> IF send[i].awaits = r THEN Idle ELSE send[i]]
    /\ UNCHANGED <<sessionId, acpId, readOnly, generation, thread, threads,
                   link, busy, card, answers, persisted, open, clicks,
                   said, raced, fresh>>

-----------------------------------------------------------------------------
(* What the user does.                                                     *)

Click == clicks < MaxClicks /\ clicks' = clicks + 1

\* setReadOnly: the flag at once, then the session if there is one.
ToggleReadOnly ==
    /\ open
    /\ Click
    /\ readOnly' = ~readOnly
    /\ raced' = (raced \/ \E r \in Runs : call[r].kind = "scope" /\ run[r].sid = sessionId)
    /\ IF sessionId # 0 /\ Rebuilds(sessionId, ~readOnly)
       THEN \E r \in Runs :
               /\ StopAndRebuild(sessionId, ~readOnly, r)
               /\ call' = [call EXCEPT ![r] = [kind |-> "scope", generation |-> 0]]
       ELSE UNCHANGED <<bridge, call>>
    /\ UNCHANGED <<sessionId, acpId, generation, start, thread, threads, link,
                   busy, send, card, answers, persisted, open, faults, said,
                   fresh>>

\* What newThread, openThread, selectAgent and selectPersona have in common:
\* the session is forgotten (not stopped) and starts in flight become stale.
ContextSwitch ==
    /\ open
    /\ Click
    /\ generation' = generation + 1
    /\ sessionId' = 0
    /\ acpId' = 0
    /\ start' = 0
    /\ raced' = FALSE
    /\ fresh' = {}

\* newThread (0) and openThread, which also show another conversation; the
\* messages of a reopened thread are taken to be loaded at once.
SwitchThread(t) ==
    /\ ContextSwitch
    /\ t <= threads
    /\ thread' = t
    /\ busy' = FALSE
    /\ UNCHANGED <<bridge, readOnly, call, link, send, card, answers,
                   persisted, threads, open, faults, said>>

\* selectAgent and selectPersona keep the conversation.  The session that they
\* prepare is a PrepareSession; the scope that a persona brings is this step
\* followed by a ToggleReadOnly that finds no session.
SelectAgent ==
    /\ ContextSwitch
    /\ UNCHANGED <<bridge, readOnly, call, thread, threads, link, busy, send,
                   card, answers, persisted, open, faults, said>>

\* The next send() call.
FreshSend(i) == send[i] = Idle /\ \A j \in 1..(i - 1) : send[j] # Idle

\* send: the message is shown at once and the composer is locked, until the
\* conversation is switched.  A conversation that is not saved is created first.
SendMessage ==
    /\ open
    /\ ~busy
    /\ Click
    /\ busy' = TRUE
    /\ \E i \in Sends :
          /\ FreshSend(i)
          /\ send' = [send EXCEPT ![i].at = IF thread = 0 THEN "create" ELSE "append"]
    /\ UNCHANGED <<bridge, sessionId, acpId, readOnly, generation, start, call,
                   thread, threads, link, card, answers, persisted, open,
                   faults, said, raced, fresh>>

\* createThread resolves: the new thread becomes the current one, whichever is
\* shown by now, and is linked to the session there is.
SendCreated(i) ==
    /\ send[i].at = "create"
    /\ threads < MaxThreads
    /\ threads' = threads + 1
    /\ thread' = threads + 1
    /\ link' = [link EXCEPT ![threads + 1] = acpId]
    /\ send' = [send EXCEPT ![i].at = "append"]
    /\ UNCHANGED <<bridge, sessionId, acpId, readOnly, generation, start, call, busy,
                   card, answers, persisted, open, clicks, faults, said, raced, fresh>>

\* appendMessage resolves; then ensureSession.
SendAppended(i) ==
    /\ send[i].at = "append"
    /\ IF sessionId = 0 /\ start = 0
       THEN \E r \in Runs :
               Starts(r) /\ send' = [send EXCEPT ![i] = [at |-> "session", awaits |-> r]]
       ELSE /\ send' = [send EXCEPT ![i] =
                   [at |-> "session", awaits |-> IF sessionId = 0 THEN start ELSE 0]]
            /\ UNCHANGED <<bridge, start, call, fresh>>
    /\ UNCHANGED <<sessionId, acpId, readOnly, generation, thread, threads, link, busy,
                   card, answers, persisted, open, clicks, faults, said, raced>>

\* The transcript store refuses the thread or the message: the error is shown.
SendFails(i) ==
    /\ send[i].at \in {"create", "append"}
    /\ Fault
    /\ send' = [send EXCEPT ![i] = Idle]
    /\ UNCHANGED <<bridge, sessionId, acpId, readOnly, generation, start, call,
                   thread, threads, link, busy, card, answers, persisted, open,
                   clicks, said, raced, fresh>>

\* The awaited start is settled: prompt the session the store has now.  With
\* none, or with a session that has ended, the error is shown.
SendPrompt(i) ==
    /\ send[i].at = "session"
    /\ send[i].awaits # 0 => call[send[i].awaits].kind = "none"
    /\ send' = [send EXCEPT ![i] = Idle]
    /\ IF sessionId # 0 THEN agent_prompt(sessionId) ELSE UNCHANGED bridge
    /\ UNCHANGED <<sessionId, acpId, readOnly, generation, start, call, thread,
                   threads, link, busy, card, answers, persisted, open, clicks,
                   faults, said, raced, fresh>>

\* stop: the session is ended, and the composer unlocked in any case.
StopTurn ==
    /\ open
    /\ sessionId # 0 /\ busy
    /\ Click
    /\ agent_stop(sessionId)
    /\ busy' = FALSE
    /\ UNCHANGED <<sessionId, acpId, readOnly, generation, start, call, thread,
                   threads, link, send, card, answers, persisted, open, faults,
                   said, raced, fresh>>

SelectModel ==
    /\ open
    /\ sessionId # 0
    /\ Click
    /\ agent_select_model(sessionId)
    /\ UNCHANGED <<store, faults, said, raced, fresh>>

\* The panel is destroyed: endSession, then dispose.
ClosePanel ==
    /\ open
    /\ Click
    /\ open' = FALSE
    /\ sessionId' = 0
    /\ start' = 0
    /\ IF sessionId # 0 THEN agent_stop(sessionId) ELSE UNCHANGED bridge
    /\ UNCHANGED <<acpId, readOnly, generation, call, thread, threads, link,
                   busy, send, card, answers, persisted, faults, said, raced, fresh>>

\* The user decides on the card that is shown.  "Always" is first stored by the
\* daemon, which may fail; then the answer leaves for the bridge.
Decide(decision) ==
    /\ open
    /\ card # 0
    /\ card' = 0
    /\ said' = [said EXCEPT ![card] = decision]
    /\ answers' = answers \cup {<<card, decision>>}
    /\ persisted' \in {persisted, persisted \cup
           (IF decision = "always" THEN {asks[card].tool} ELSE {})}
    /\ UNCHANGED <<bridge, sessionId, acpId, readOnly, generation, start, call,
                   thread, threads, link, busy, send, open, clicks, faults,
                   raced, fresh>>

AnswerArrives ==
    \E a \in answers :
        /\ answers' = answers \ {a}
        /\ agent_answer_permission(a[1], a[2])
        /\ UNCHANGED <<sessionId, acpId, readOnly, generation, start, call,
                       thread, threads, link, busy, send, card, persisted,
                       open, clicks, faults, said, raced, fresh>>

-----------------------------------------------------------------------------
(* What reaches the store.                                                 *)

\* What the agent sends outside a turn is counted.
Counted(r) == IF run[r].driver = "prompt" THEN UNCHANGED faults ELSE Fault

\* A request of any session takes the one place there is for a card.
PermissionShown(r, tool) ==
    \E reached \in BOOLEAN :
        /\ AsksUser(r, tool, reached)
        /\ Counted(r)
        /\ said' = Append(said, "none")
        /\ card' = IF reached /\ open THEN Len(asks) + 1 ELSE card
        /\ UNCHANGED <<sessionId, acpId, readOnly, generation, start, call,
                       thread, threads, link, busy, send, answers, persisted,
                       open, clicks, raced, fresh>>

\* handleEvent drops the events of a superseded session, if there is a session.
Heard(r) == open /\ (sessionId = 0 \/ sessionId = run[r].sid)

\* reduce: only done unlocks the composer, a delta locks it, an error neither.
Reduced(locked, event) == IF event = "done" THEN FALSE
                          ELSE IF event = "delta" THEN TRUE ELSE locked

EventArrives(r) ==
    /\ PumpEvent(r)
    /\ busy' = IF Heard(r) THEN Reduced(busy, Head(run[r].out)) ELSE busy
    /\ UNCHANGED <<sessionId, acpId, readOnly, generation, start, call, thread,
                   threads, link, send, card, answers, persisted, open, clicks,
                   faults, said, raced, fresh>>

\* Steps of a run that the store does not see.
Progress(r) ==
    \/ LoadFails(r) \/ DriverTakes(r) \/ TurnDone(r) \/ ModelSet(r)
    \/ PumpPrompt(r) \/ PumpModel(r) \/ PumpModelLost(r) \/ PumpEnds(r)

Agent(r) ==
    /\ Notifies(r) \/ \E t \in Tools : AllowsSilently(r, t)
    /\ Counted(r)
    /\ UNCHANGED <<store, clicks, said, raced, fresh>>

Breaks(r) ==
    /\ TurnFails(r) \/ ConnectionLost(r)
    /\ Fault
    /\ UNCHANGED <<store, clicks, said, raced, fresh>>

User ==
    \/ PrepareSession \/ ToggleReadOnly \/ SelectAgent \/ SendMessage
    \/ StopTurn \/ SelectModel \/ ClosePanel
    \/ \E t \in 0..MaxThreads : SwitchThread(t)
    \/ \E d \in Decision : Decide(d)

Continuation(r) ==
    StartDiscarded(r) \/ StartBinds(r) \/ StartReconciles(r) \/ ScopeResolves(r)

Store ==
    \/ AnswerArrives
    \/ \E i \in Sends : SendCreated(i) \/ SendAppended(i) \/ SendFails(i) \/ SendPrompt(i)

Next ==
    \/ User \/ Store
    \/ \E r \in Runs :
          \/ Progress(r) /\ UNCHANGED chat
          \/ Agent(r) \/ Continuation(r) \/ CallFails(r) \/ Breaks(r) \/ EventArrives(r)
          \/ \E t \in Tools : PermissionShown(r, t)

Spec == Init /\ [][Next]_vars

\* The tasks of a run that move its commands and its events.
Driver(r) == (DriverTakes(r) \/ TurnDone(r) \/ ModelSet(r)) /\ UNCHANGED chat

Pump(r) ==
    \/ EventArrives(r)
    \/ (PumpPrompt(r) \/ PumpModel(r) \/ PumpModelLost(r) \/ PumpEnds(r)) /\ UNCHANGED chat

(* While the drivers of some runs can move, one of them does, and the same  *)
(* for the pumps; which one is left open.  The agent is assumed to end a    *)
(* turn that no question holds up and to answer session/set_config_option.  *)
(* Nothing is assumed of the user, of handshakes and of faults.             *)
FairSpec ==
    /\ Spec
    /\ WF_vars(\E r \in Runs : Driver(r))
    /\ WF_vars(\E r \in Runs : Pump(r))

-----------------------------------------------------------------------------
(* Properties.                                                             *)

\* What a session promises about permissions (PermissionGate), read off the
\* runs, the requests and the user's decisions.
Gate == INSTANCE PermissionGate WITH
    Session <- Runs,
    Tool <- Tools,
    begun <- {r \in Runs : run[r].phase # "unused"},
    readonly <- [r \in Runs |-> run[r].ro],
    granted <- persisted,
    trust <- [r \in Runs |-> run[r].always],
    asked <- asks,
    said <- said,
    open <- [r \in Runs |-> run[r].ask],
    allowed <- allowed

\* However questions, answers, rebuilt sessions and lost agents interleave, a
\* tool call is allowed only in a read-only run, by a grant the user stored, or
\* by the user's yes to the very question this run waits for
\* (resolve_permission, PendingPermissions, agent_set_read_only).
GateKept == Gate!Spec

\* The session that takes the store's prompts was started since the user last
\* switched the conversation, the agent or the persona, however slow starts,
\* sends, rebuilds and switches interleave.  It is the part that the code keeps
\* of the comment on sessionStartGeneration, "can never bind to (or persist
\* onto) the wrong thread or be sent to a switched-away agent".  The rest fails:
\* a createThread that resolves late makes its thread the current one and takes
\* no new token (SendCreated), so the session of the conversation opened
\* meanwhile goes on under the created thread and is linked to it.
SessionAtHome == sessionId # 0 => sessionId \in fresh

\* A run to which no entry of the bridge leads any more (stopped, or replaced
\* by a rebuilt one) ends and releases its agent process: in the end there is
\* none but those that wait for ever for the answer to a question.
UnreachableEnds ==
    <>[](\A r \in Runs : Live(r) /\ Orphaned(r) => run[r].ask # 0)

\* A prompt sent now is handled: the run lives and no Stop waits before it.
Serves(s) == Accepts(s) /\ "stop" \notin ToSet(run[sessions[s]].cmds)

\* The badge and the agent agree (docs/ai-chat.md: the running session "is
\* reconfigured on the fly"): once no call is in flight, the run that takes the
\* store's prompts has the scope that the switch shows, also when it was
\* switched during a slow start.  A switch during the rebuild of an earlier
\* switch is compared with the entry of the run that is being replaced and may
\* be dropped: that case is left out.
ScopeFollows ==
    (/\ \A r \in Runs : call[r].kind = "none"
     /\ sessionId # 0 /\ Serves(sessionId)
     /\ ~raced)
    => run[sessions[sessionId]].ro = readOnly

=============================================================================
