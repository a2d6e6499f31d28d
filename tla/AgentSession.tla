----------------------------- MODULE AgentSession -----------------------------
(***************************************************************************)
(* The desktop side of an agent conversation: the ACP session that owns    *)
(* the agent process (notesmith-agent/src/acp.rs, permission.rs) and the   *)
(* bridge that keeps the sessions and their pump tasks                     *)
(* (notesmith-tauri/src/agent_bridge.rs).                                  *)
(*                                                                         *)
(* A run is one AcpSession, that is one agent process.  agent_start and    *)
(* every change of scope make a new one; a session id stays the same over  *)
(* changes of scope.  A run has three tasks: the pump (run_session), the   *)
(* driver, which handles one command at a time, and the dispatch loop of   *)
(* the ACP connection, which stops while a permission is being decided.    *)
(*                                                                         *)
(* The actions here are the ones that the chat store (AgentChat) calls or  *)
(* that happen by themselves; AgentChat says what the store does with them.*)
(***************************************************************************)
EXTENDS Integers, Sequences, FiniteSets, SequencesExt

CONSTANTS
    Tools,          \* tool names, the keys of permissions
    MaxRuns,        \* BOUND: agent processes started
    MaxAsks,        \* BOUND: permission requests that reach the user
    MaxOut          \* BOUND: events waiting for the pump

ASSUME AgentAssumption ==
    /\ MaxRuns \in Nat \ {0}
    /\ MaxAsks \in Nat
    /\ MaxOut \in Nat \ {0}

Runs == 1..MaxRuns
NoRun == 0

VARIABLES
    run,        \* every AcpSession, with its pump and its driver
    sessions,   \* AgentBridge.sessions: id -> the run its entry commands
    asks,       \* the requests registered so far: the run and the tool; a
                \* request's id is its place
    pending,    \* PendingPermissions.inner: ids whose sender is kept
    \* History variable.
    allowed     \* the tool calls allowed so far

bridge == <<run, sessions, asks, pending, allowed>>

Command == {"prompt", "model", "stop"}
Handshake == {"load", "new"}
Phase == {"unused", "live", "ended"} \cup Handshake
AgentEvent == {"delta", "done", "error"}

Run == [phase : Phase,
        sid : 0..MaxRuns,           \* the session id it serves
        ro : BOOLEAN,               \* opts.read_only
        seed : SUBSET Tools,        \* opts.persisted_grants
        always : SUBSET Tools,      \* PermissionState
        resume : 0..MaxRuns,        \* the session being loaded, 0 for none
        cmds : Seq(Command),        \* SessionCommands not yet taken by the pump
        pump : {"select", "model"}, \* "model": inside select_model
        todo : Seq(Command),        \* DriverCommands not yet taken
        driver : {"idle", "prompt", "model", "closed"},
        ask : 0..MaxAsks,           \* the request being decided, 0 if none
        out : Seq(AgentEvent)]      \* event_rx

Unused == [phase |-> "unused", sid |-> 0, ro |-> TRUE, seed |-> {},
           always |-> {}, resume |-> 0, cmds |-> <<>>, pump |-> "select",
           todo |-> <<>>, driver |-> "idle", ask |-> 0, out |-> <<>>]

AgentTypeOK ==
    /\ run \in [Runs -> Run]
    /\ sessions \in [Runs -> 0..MaxRuns]
    /\ asks \in Seq([by : Runs, tool : Tools])
    /\ Len(asks) <= MaxAsks
    /\ pending \subseteq 1..Len(asks)
    /\ allowed \subseteq Runs \X Tools

AgentInit ==
    /\ run = [r \in Runs |-> Unused]
    /\ sessions = [s \in Runs |-> NoRun]
    /\ asks = <<>>
    /\ pending = {}
    /\ allowed = {}

Live(r) == run[r].phase = "live"

\* run_session returned: the AcpSession is dropped, which aborts the driver.
Ended(rec) ==
    [rec EXCEPT !.phase = "ended", !.cmds = <<>>, !.pump = "select",
                !.todo = <<>>, !.driver = "closed", !.ask = 0, !.out = <<>>]

\* The driver left its loop: the connection and all event senders are gone.
Closed(rec, events) ==
    [rec EXCEPT !.driver = "closed", !.todo = <<>>, !.ask = 0,
                !.out = @ \o events]

-----------------------------------------------------------------------------
(* The commands of the bridge.                                             *)

\* The next AcpSession to be built; there is none beyond the bound.
FreshRun(r) == run[r].phase = "unused" /\ \A q \in 1..(r - 1) : run[q].phase # "unused"

\* Mutant: a rebuilt session keeps the trust of the one it replaces.
BuiltInheriting(s, readOnly, seed) ==
    [Unused EXCEPT !.phase = "new", !.sid = s, !.ro = readOnly, !.seed = seed,
                   !.always = seed \cup UNION {run[q].always :
                       q \in {p \in Runs : run[p].phase # "unused" /\ run[p].sid = s}}]

\* build_session and the start of its driver, which is up to session/new.
Built(s, readOnly, seed) ==
    [Unused EXCEPT !.phase = "new", !.sid = s, !.ro = readOnly, !.seed = seed,
                   !.always = seed]

\* The same, up to session/load of the session to resume.
BuiltLoading(s, readOnly, seed, resumed) ==
    [Built(s, readOnly, seed) EXCEPT !.phase = "load", !.resume = resumed]

\* A sender refuses only when the pump has dropped its receiver.
Accepts(s) == sessions[s] # NoRun /\ Live(sessions[s])

Sent(s, command) ==
    [run EXCEPT ![sessions[s]].cmds = IF Accepts(s) THEN Append(@, command) ELSE @]

\* A session to resume is loaded only if the agent advertises loadSession.
agent_start(r, readOnly, seed, resumed) ==
    /\ FreshRun(r)
    /\ \/ run' = [run EXCEPT ![r] = Built(r, readOnly, seed)]
       \/ /\ resumed # 0
          /\ run' = [run EXCEPT ![r] = BuiltLoading(r, readOnly, seed, resumed)]
    /\ UNCHANGED <<sessions, asks, pending, allowed>>

\* The error results of the commands are the store's to handle: a prompt or a
\* model for a session that has no entry, or whose pump has ended.
agent_prompt(s) ==
    /\ run' = IF sessions[s] = NoRun THEN run ELSE Sent(s, "prompt")
    /\ UNCHANGED <<sessions, asks, pending, allowed>>

agent_select_model(s) ==
    /\ run' = IF sessions[s] = NoRun THEN run ELSE Sent(s, "model")
    /\ UNCHANGED <<sessions, asks, pending, allowed>>

agent_stop(s) ==
    /\ run' = IF sessions[s] = NoRun THEN run ELSE Sent(s, "stop")
    /\ sessions' = [sessions EXCEPT ![s] = NoRun]
    /\ UNCHANGED <<asks, pending, allowed>>

\* agent_set_read_only compares with the options of the entry it finds.
Rebuilds(s, readOnly) ==
    sessions[s] # NoRun /\ run[sessions[s]].ro # readOnly

\* It stops the entry's run and builds the next one without the lock; the
\* entry is replaced when the handshake is over.
StopAndRebuild(s, readOnly, r) ==
    LET seed == run[sessions[s]].seed
    IN  /\ FreshRun(r)
        /\ run' = [Sent(s, "stop") EXCEPT ![r] = Built(s, readOnly, seed)]
        /\ UNCHANGED <<sessions, asks, pending, allowed>>

-----------------------------------------------------------------------------
(* The handshake of start_driver.                                          *)

\* The agent's answer to a request of the handshake is dispatched: not while a
\* permission is being decided.
Answered(r) == run[r].phase \in Handshake /\ run[r].ask = 0

\* session/load failed: fall back to a fresh session.
LoadFails(r) ==
    /\ Answered(r) /\ run[r].phase = "load"
    /\ run' = [run EXCEPT ![r].phase = "new", ![r].resume = 0]
    /\ UNCHANGED <<sessions, asks, pending, allowed>>

\* The id a finished handshake publishes: the resumed one, or a fresh one.
ResolvedId(r) == IF run[r].phase = "load" THEN run[r].resume ELSE r

\* session/load or session/new answered: spawn_session starts the pump and the
\* command inserts the entry, dropping the one it replaces.
Ready(r) ==
    /\ Answered(r)
    /\ run' = [run EXCEPT ![r].phase = "live", ![r].resume = 0]
    /\ sessions' = [sessions EXCEPT ![run[r].sid] = r]
    /\ UNCHANGED <<asks, pending, allowed>>

\* The transport, initialize or session/new failed: spawn_session returns the
\* error and drops the session.
HandshakeFails(r) ==
    /\ run[r].phase \in Handshake
    /\ run' = [run EXCEPT ![r] = Ended(@)]
    /\ UNCHANGED <<sessions, asks, pending, allowed>>

-----------------------------------------------------------------------------
(* The dispatch loop of the connection and the agent behind it.            *)

\* The loop runs from the handshake to the end of the connection, in a turn and
\* between turns.  Nothing is dispatched while a permission is being decided.
Dispatching(r) ==
    /\ run[r].phase \in Handshake \/ (Live(r) /\ run[r].driver # "closed")
    /\ run[r].ask = 0

\* A session/update.  The gate (replaying) drops what comes before the answer to
\* session/load is taken; history sent after it passes for output.
Notifies(r) ==
    /\ Dispatching(r)
    /\ run[r].phase # "load"
    /\ Len(run[r].out) < MaxOut
    /\ run' = [run EXCEPT ![r].out = Append(@, "delta")]
    /\ UNCHANGED <<sessions, asks, pending, allowed>>

Silent(r, tool) == run[r].ro \/ tool \in run[r].always

\* answer_permission without asking: read-only, or the tool is trusted.
AllowsSilently(r, tool) ==
    /\ Dispatching(r)
    /\ Silent(r, tool)
    /\ allowed' = allowed \cup {<<r, tool>>}
    /\ UNCHANGED <<run, sessions, asks, pending>>

\* BridgeDecider::decide registers the request.  If the event cannot be
\* emitted the call is denied, and the registered sender stays behind.
AsksUser(r, tool, reached) ==
    /\ Dispatching(r)
    /\ ~Silent(r, tool)
    /\ Len(asks) < MaxAsks
    /\ asks' = Append(asks, [by |-> r, tool |-> tool])
    /\ pending' = pending \cup {Len(asks) + 1}
    /\ run' = IF reached THEN [run EXCEPT ![r].ask = Len(asks) + 1] ELSE run
    /\ UNCHANGED <<sessions, allowed>>

\* resolve_permission for a decision of the user.
Resolution(decision) ==
    [allow |-> decision # "deny",
     remember |-> decision \in {"session", "always"}]

\* The decision reaches the decider that waits for this id, if it still does.
Delivered(id) == {r \in Runs : run[r].ask = id}

\* agent_answer_permission: an id that is no longer registered is ignored.
agent_answer_permission(id, decision) ==
    LET takers == IF id \in pending THEN Delivered(id) ELSE {}
        tool(r) == asks[run[r].ask].tool
    IN  /\ pending' = pending \ {id}
        /\ run' = [r \in Runs |-> IF r \in takers
                      THEN [run[r] EXCEPT !.ask = 0, !.always = @ \cup
                              (IF Resolution(decision).remember THEN {tool(r)} ELSE {})]
                      ELSE run[r]]
        /\ allowed' = allowed \cup
              (IF Resolution(decision).allow THEN {<<r, tool(r)>> : r \in takers} ELSE {})
        /\ UNCHANGED <<sessions, asks>>

\* The connection breaks: the request in flight fails, and connect_with may
\* report the failure of the transport as well.
ConnectionLost(r) ==
    /\ Live(r) /\ run[r].driver # "closed"
    /\ \E events \in {<<>>, <<"error">>} :
          run' = [run EXCEPT ![r] = Closed(@,
                     (IF run[r].driver = "prompt" THEN <<"error">> ELSE <<>>) \o events)]
    /\ UNCHANGED <<sessions, asks, pending, allowed>>

-----------------------------------------------------------------------------
(* The driver: one command at a time.                                      *)

DriverTakes(r) ==
    /\ Live(r) /\ run[r].driver = "idle"
    /\ run[r].todo # <<>>
    /\ run' = [run EXCEPT ![r].driver = Head(run[r].todo), ![r].todo = Tail(@)]
    /\ UNCHANGED <<sessions, asks, pending, allowed>>

\* The agent answers the prompt.
TurnDone(r) ==
    /\ Live(r) /\ run[r].driver = "prompt" /\ run[r].ask = 0
    /\ run' = [run EXCEPT ![r].driver = "idle", ![r].out = Append(@, "done")]
    /\ UNCHANGED <<sessions, asks, pending, allowed>>

\* The agent refuses it, which leaves the loop.
TurnFails(r) ==
    /\ Live(r) /\ run[r].driver = "prompt" /\ run[r].ask = 0
    /\ run' = [run EXCEPT ![r] = Closed(@, <<"error">>)]
    /\ UNCHANGED <<sessions, asks, pending, allowed>>

\* The model is set or refused; select_model of the pump returns.
ModelSet(r) ==
    /\ Live(r) /\ run[r].driver = "model" /\ run[r].ask = 0
    /\ run' = [run EXCEPT ![r].driver = "idle", ![r].pump = "select"]
    /\ UNCHANGED <<sessions, asks, pending, allowed>>

-----------------------------------------------------------------------------
(* The pump: run_session selects between events and commands.              *)

\* An event of the channel is emitted to the windows.
PumpEvent(r) ==
    /\ Live(r) /\ run[r].pump = "select"
    /\ run[r].out # <<>>
    /\ run' = [run EXCEPT ![r].out = Tail(@)]
    /\ UNCHANGED <<sessions, asks, pending, allowed>>

\* Mutant: every command is forwarded to the driver.
PumpPromptAny(r) ==
    /\ Live(r) /\ run[r].pump = "select"
    /\ run[r].cmds # <<>>
    /\ run' = [run EXCEPT ![r].cmds = Tail(@), ![r].todo =
                  IF run[r].driver = "closed" THEN @ ELSE Append(@, Head(run[r].cmds))]
    /\ UNCHANGED <<sessions, asks, pending, allowed>>

\* A prompt that cannot be delivered is an error event of its own.
PumpPrompt(r) ==
    /\ Live(r) /\ run[r].pump = "select"
    /\ run[r].cmds # <<>> /\ Head(run[r].cmds) = "prompt"
    /\ run' = [run EXCEPT ![r].cmds = Tail(@), ![r].todo =
                  IF run[r].driver = "closed" THEN @ ELSE Append(@, "prompt")]
    /\ UNCHANGED <<sessions, asks, pending, allowed>>

\* Events are not pumped until the driver has answered.
PumpModel(r) ==
    /\ Live(r) /\ run[r].pump = "select"
    /\ run[r].cmds # <<>> /\ Head(run[r].cmds) = "model"
    /\ run' = IF run[r].driver = "closed"
              THEN [run EXCEPT ![r].cmds = Tail(@)]
              ELSE [run EXCEPT ![r].cmds = Tail(@), ![r].pump = "model",
                               ![r].todo = Append(@, "model")]
    /\ UNCHANGED <<sessions, asks, pending, allowed>>

\* Mutant: the pump waits for a reply that nobody will send.
PumpModelWaits(r) == FALSE

\* The driver is gone: its half of the reply is dropped.
PumpModelLost(r) ==
    /\ Live(r) /\ run[r].pump = "model" /\ run[r].driver = "closed"
    /\ run' = [run EXCEPT ![r].pump = "select"]
    /\ UNCHANGED <<sessions, asks, pending, allowed>>

\* No entry holds the sender any more, so an empty channel is a closed one.
Orphaned(r) == sessions[run[r].sid] # r

\* A Stop, a closed command channel or the end of the events end the loop.
PumpEnds(r) ==
    /\ Live(r) /\ run[r].pump = "select"
    /\ \/ run[r].cmds # <<>> /\ Head(run[r].cmds) = "stop"
       \/ run[r].cmds = <<>> /\ Orphaned(r)
       \/ run[r].driver = "closed" /\ run[r].out = <<>>
    /\ run' = [run EXCEPT ![r] = Ended(@)]
    /\ UNCHANGED <<sessions, asks, pending, allowed>>

=============================================================================
