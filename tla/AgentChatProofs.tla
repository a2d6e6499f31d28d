--------------------------- MODULE AgentChatProofs ---------------------------
(***************************************************************************)
(* Proofs for AgentChat, for every set of tools and every number of runs,  *)
(* requests, threads, clicks and faults: its permissions implement         *)
(* PermissionGate, and what that rests on.                                 *)
(***************************************************************************)
EXTENDS AgentChat, TLAPS

(***************************************************************************)
(* The runs: the type of a run, narrowed by what never gets into its       *)
(* inner channel: a Stop is not among the driver's commands.               *)
(***************************************************************************)
Output == {"delta", "done", "error"}
Work == {"prompt", "model"}

GoodRun ==
    [phase : Phase, sid : 0..MaxRuns, ro : BOOLEAN, seed : SUBSET Tools,
     always : SUBSET Tools, resume : 0..MaxRuns, cmds : Seq(Command),
     pump : {"select", "model"}, todo : Seq(Work),
     driver : {"idle", "prompt", "model", "closed"}, ask : 0..MaxAsks,
     out : Seq(Output)]

RunsOK == run \in [Runs -> GoodRun]

(***************************************************************************)
(* The permissions: a run waits only for a question of its own, the answer *)
(* on its way to it is what the user said, the card that is shown has not  *)
(* been answered, and a session is seeded only with stored grants.         *)
(***************************************************************************)
RunAsks(r) ==
    /\ run[r].seed \subseteq persisted
    /\ run[r].ask # 0 => run[r].ask <= Len(asks) /\ asks[run[r].ask].by = r
    /\ run[r].phase = "unused" => run[r].ask = 0

Asked ==
    /\ asks \in Seq([by : Runs, tool : Tools]) /\ Len(asks) <= MaxAsks
    /\ said \in Seq(Decision \cup {"none"}) /\ Len(said) = Len(asks)
    /\ pending \subseteq 1..Len(asks)
    /\ card \in 0..Len(asks)
    /\ card # 0 => said[card] = "none"
    /\ answers \subseteq (1..Len(asks)) \X Decision
    /\ \A a \in answers : said[a[1]] = a[2]
    /\ persisted \subseteq Tools
    /\ allowed \subseteq Runs \X Tools
    /\ \A r \in Runs : RunAsks(r)

perms == <<asks, said, pending, card, answers, persisted, allowed>>

-----------------------------------------------------------------------------
(* Steps of the runs.                                                      *)

\* From a to b a run keeps what the permissions depend on, except its question.
Like(a, b) ==
    /\ b.ro = a.ro
    /\ b.seed = a.seed
    /\ b.always = a.always
    /\ b.sid = a.sid
    /\ b.phase = "unused" <=> a.phase = "unused"

Quiet(a, b) == Like(a, b) /\ b.ask = a.ask

\* A record that a session begins with.
Fresh(rec) ==
    /\ rec.phase # "unused"
    /\ rec.seed \subseteq persisted
    /\ rec.always = rec.seed
    /\ rec.ask = 0

QuietStep ==
    /\ RunsOK'
    /\ \A p \in Runs : Quiet(run[p], run'[p])

BeginStep ==
    /\ RunsOK'
    /\ \E q \in Runs :
          /\ run[q].phase = "unused" /\ Fresh(run'[q])
          /\ \A p \in Runs \ {q} : Quiet(run[p], run'[p])

WithdrawStep ==
    /\ RunsOK'
    /\ \E q \in Runs :
          /\ Like(run[q], run'[q]) /\ run'[q].ask = 0
          /\ \A p \in Runs \ {q} : Quiet(run[p], run'[p])

LEMMA Zeros == 0 \in 0..MaxRuns /\ 0 \in 0..MaxAsks
  BY AgentAssumption

LEMMA Lists ==
    /\ <<>> \in Seq(Output) /\ <<>> \in Seq(Work) /\ <<>> \in Seq(Command)
    /\ <<"stop">> \in Seq(Command) /\ <<"error">> \in Seq(Output)
  BY DEF Output, Work, Command

LEMMA UpdateQuiet ==
    ASSUME RunsOK, NEW r \in Runs, NEW rec \in GoodRun,
           run' = [run EXCEPT ![r] = rec], Quiet(run[r], rec),
           \A p \in Runs : RunAsks(p)
    PROVE  QuietStep
  <1>1. RunsOK'
    BY DEF RunsOK
  <1>2. \A p \in Runs : run'[p] = IF p = r THEN rec ELSE run[p]
    BY DEF RunsOK
  <1>3. \A p \in Runs : Quiet(run[p], run'[p])
    BY <1>2 DEF Quiet, Like, RunAsks
  <1> QED
    BY <1>1, <1>3 DEF QuietStep

LEMMA UpdateWithdraw ==
    ASSUME RunsOK, NEW r \in Runs, NEW rec \in GoodRun,
           run' = [run EXCEPT ![r] = rec], Like(run[r], rec), rec.ask = 0,
           \A p \in Runs : RunAsks(p)
    PROVE  WithdrawStep
  <1>1. RunsOK'
    BY DEF RunsOK
  <1>2. \A p \in Runs : run'[p] = IF p = r THEN rec ELSE run[p]
    BY DEF RunsOK
  <1>3. \A p \in Runs \ {r} : Quiet(run[p], run'[p])
    BY <1>2 DEF Quiet, Like, RunAsks
  <1> QED
    BY <1>1, <1>2, <1>3 DEF WithdrawStep

-----------------------------------------------------------------------------
(* Steps of the gate.                                                      *)

GateStep == [Gate!Next]_(Gate!vars)

LEMMA QuietGate ==
    ASSUME RunsOK, Asked, QuietStep, UNCHANGED perms
    PROVE  Asked' /\ GateStep
  <1>1. Asked'
    <2>1. \A p \in Runs : RunAsks(p)'
      BY DEF Asked, QuietStep, perms, Quiet, Like, RunAsks
    <2> QED
      BY <2>1 DEF Asked, perms
  <1>2. UNCHANGED Gate!vars
    <2>1. \A p \in Runs : /\ run'[p].phase = "unused" <=> run[p].phase = "unused"
                          /\ run'[p].ro = run[p].ro
                          /\ run'[p].always = run[p].always
                          /\ run'[p].ask = run[p].ask
      BY DEF QuietStep, Quiet, Like
    <2>2. {p \in Runs : run'[p].phase # "unused"} = {p \in Runs : run[p].phase # "unused"}
      BY <2>1
    <2>3. [p \in Runs |-> run'[p].ro] = [p \in Runs |-> run[p].ro]
      BY <2>1
    <2>4. [p \in Runs |-> run'[p].always] = [p \in Runs |-> run[p].always]
      BY <2>1
    <2>5. [p \in Runs |-> run'[p].ask] = [p \in Runs |-> run[p].ask]
      BY <2>1
    <2> QED
      BY <2>2, <2>3, <2>4, <2>5 DEF Gate!vars, perms
  <1> QED
    BY <1>1, <1>2 DEF GateStep

LEMMA WithdrawGate ==
    ASSUME RunsOK, Asked, WithdrawStep, UNCHANGED perms
    PROVE  Asked' /\ GateStep
  <1>1. PICK q \in Runs : /\ Like(run[q], run'[q]) /\ run'[q].ask = 0
                          /\ \A p \in Runs \ {q} : Quiet(run[p], run'[p])
    BY DEF WithdrawStep
  <1>2. Asked'
    <2>1. \A p \in Runs : RunAsks(p)'
      BY <1>1 DEF Asked, perms, Quiet, Like, RunAsks
    <2> QED
      BY <2>1 DEF Asked, perms
  <1>3. CASE run[q].ask = 0
    <2>1. QuietStep
      BY <1>1, <1>3 DEF WithdrawStep, QuietStep, Quiet
    <2> QED
      BY <2>1, QuietGate
  <1>4. CASE run[q].ask # 0
    <2>1. \A p \in Runs : /\ run'[p].phase = "unused" <=> run[p].phase = "unused"
                          /\ run'[p].ro = run[p].ro
                          /\ run'[p].always = run[p].always
                          /\ run'[p].ask = IF p = q THEN 0 ELSE run[p].ask
      BY <1>1 DEF Quiet, Like
    <2>2. {p \in Runs : run'[p].phase # "unused"} = {p \in Runs : run[p].phase # "unused"}
      BY <2>1
    <2>3. [p \in Runs |-> run'[p].ro] = [p \in Runs |-> run[p].ro]
      BY <2>1
    <2>4. [p \in Runs |-> run'[p].always] = [p \in Runs |-> run[p].always]
      BY <2>1
    <2>5. [p \in Runs |-> run'[p].ask] = [[p \in Runs |-> run[p].ask] EXCEPT ![q] = 0]
      BY <2>1
    <2>6. Gate!Withdraw(q)
      BY <1>4, <2>2, <2>3, <2>4, <2>5 DEF Gate!Withdraw, perms
    <2> QED
      BY <1>2, <2>6 DEF GateStep, Gate!Next
  <1> QED
    BY <1>3, <1>4, <1>2

LEMMA BeginGate ==
    ASSUME RunsOK, Asked, BeginStep, UNCHANGED perms
    PROVE  Asked' /\ GateStep
  <1>1. PICK q \in Runs : /\ run[q].phase = "unused" /\ Fresh(run'[q])
                          /\ \A p \in Runs \ {q} : Quiet(run[p], run'[p])
    BY DEF BeginStep
  <1>2. Asked'
    <2>1. \A p \in Runs : RunAsks(p)'
      BY <1>1 DEF Asked, perms, Quiet, Like, RunAsks, Fresh
    <2> QED
      BY <2>1 DEF Asked, perms
  <1>3. /\ run'[q].phase # "unused" /\ run'[q].ask = 0 /\ run[q].ask = 0
        /\ run'[q].ro \in BOOLEAN /\ run'[q].always \in SUBSET persisted
    BY <1>1 DEF Fresh, Asked, RunAsks, BeginStep, RunsOK, GoodRun
  <1>4. \A p \in Runs \ {q} : /\ run'[p].phase = "unused" <=> run[p].phase = "unused"
                              /\ run'[p].ro = run[p].ro
                              /\ run'[p].always = run[p].always
                              /\ run'[p].ask = run[p].ask
    BY <1>1 DEF Quiet, Like
  <1>5. {p \in Runs : run'[p].phase # "unused"}
            = {p \in Runs : run[p].phase # "unused"} \cup {q}
    BY <1>3, <1>4
  <1>6. [p \in Runs |-> run'[p].ro] = [[p \in Runs |-> run[p].ro] EXCEPT ![q] = run'[q].ro]
    BY <1>4
  <1>7. [p \in Runs |-> run'[p].always]
            = [[p \in Runs |-> run[p].always] EXCEPT ![q] = run'[q].always]
    BY <1>4
  <1>8. [p \in Runs |-> run'[p].ask] = [p \in Runs |-> run[p].ask]
    BY <1>3, <1>4
  <1>9. Gate!Begin(q)
    BY <1>1, <1>3, <1>5, <1>6, <1>7, <1>8 DEF Gate!Begin, perms
  <1> QED
    BY <1>2, <1>9 DEF GateStep, Gate!Next

\* A question to the user.
LEMMA AskGate ==
    ASSUME RunsOK, Asked, NEW r \in Runs, NEW t \in Tools, PermissionShown(r, t)
    PROVE  RunsOK' /\ Asked' /\ GateStep
  <1>1. PICK reached \in BOOLEAN :
            /\ AsksUser(r, t, reached)
            /\ said' = Append(said, "none")
            /\ card' = IF reached /\ open THEN Len(asks) + 1 ELSE card
            /\ UNCHANGED <<answers, persisted>>
    BY DEF PermissionShown
  <1> DEFINE n == IF reached THEN Len(asks) + 1 ELSE 0
  <1>2. /\ run[r].phase # "unused" /\ ~Silent(r, t) /\ run[r].ask = 0
        /\ Len(asks) < MaxAsks
        /\ asks' = Append(asks, [by |-> r, tool |-> t])
        /\ pending' = pending \cup {Len(asks) + 1}
        /\ run' = IF reached THEN [run EXCEPT ![r].ask = Len(asks) + 1] ELSE run
        /\ allowed' = allowed
    BY <1>1 DEF AsksUser, Dispatching, Handshake, Live
  <1>3. Len(asks) \in Nat /\ Len(asks) + 1 \in 0..MaxAsks
    BY <1>2, AgentAssumption DEF Asked
  <1>4. [run[r] EXCEPT !.ask = Len(asks) + 1] \in GoodRun
    BY <1>3 DEF RunsOK, GoodRun
  <1>5. run' = IF reached THEN [run EXCEPT ![r] = [run[r] EXCEPT !.ask = Len(asks) + 1]] ELSE run
    BY <1>2 DEF RunsOK
  <1>6. RunsOK'
    BY <1>4, <1>5 DEF RunsOK
  <1>7. /\ \A p \in Runs : Like(run[p], run'[p])
        /\ \A p \in Runs : run'[p].ask = IF p = r THEN n ELSE run[p].ask
    <2>1. LET b == [run[r] EXCEPT !.ask = Len(asks) + 1]
          IN  /\ b.ro = run[r].ro /\ b.seed = run[r].seed /\ b.always = run[r].always
              /\ b.sid = run[r].sid /\ b.phase = run[r].phase
              /\ b.ask = Len(asks) + 1
      BY DEF RunsOK, GoodRun
    <2>2. \A p \in Runs : p # r => run'[p] = run[p]
      BY <1>5 DEF RunsOK
    <2>3. run'[r] = IF reached THEN [run[r] EXCEPT !.ask = Len(asks) + 1] ELSE run[r]
      BY <1>5 DEF RunsOK
    <2>4. Like(run[r], run'[r]) /\ run'[r].ask = n
      BY <1>2, <2>1, <2>3 DEF Like, Asked, RunAsks
    <2> QED
      BY <2>2, <2>4 DEF Like, Asked, RunAsks
  <1>8. Asked'
    <2>1. /\ asks' \in Seq([by : Runs, tool : Tools]) /\ Len(asks') = Len(asks) + 1
          /\ \A i \in 1..Len(asks) : asks'[i] = asks[i]
          /\ asks'[Len(asks) + 1].by = r
      BY <1>2 DEF Asked
    <2>2. /\ said' \in Seq(Decision \cup {"none"}) /\ Len(said') = Len(said) + 1
          /\ \A i \in 1..Len(said) : said'[i] = said[i]
          /\ said'[Len(said) + 1] = "none"
      BY <1>1 DEF Asked
    <2>3. \A p \in Runs : RunAsks(p)'
      <3> SUFFICES ASSUME NEW p \in Runs
                   PROVE  RunAsks(p)'
        OBVIOUS
      <3>1. RunAsks(p) /\ Like(run[p], run'[p]) /\ run[p].ask \in Nat
        BY <1>7 DEF Asked, RunsOK, GoodRun
      <3>2. CASE p = r
        BY <1>1, <1>2, <1>3, <1>7, <2>1, <3>1, <3>2 DEF RunAsks, Like
      <3>3. CASE p # r
        BY <1>1, <1>3, <1>7, <2>1, <3>1, <3>3 DEF RunAsks, Like
      <3> QED
        BY <3>2, <3>3
    <2>4. card' \in 0..Len(asks') /\ (card' # 0 => said'[card'] = "none")
      BY <1>1, <1>3, <2>1, <2>2 DEF Asked
    <2>5. answers' \subseteq (1..Len(asks')) \X Decision /\ \A a \in answers' : said'[a[1]] = a[2]
      BY <1>1, <1>3, <2>1, <2>2 DEF Asked
    <2> QED
      BY <1>1, <1>2, <1>3, <2>1, <2>2, <2>3, <2>4, <2>5 DEF Asked
  <1>9. Gate!Ask(r, t)
    <2>1. {p \in Runs : run'[p].phase # "unused"} = {p \in Runs : run[p].phase # "unused"}
      BY <1>7 DEF Like
    <2>2. [p \in Runs |-> run'[p].ro] = [p \in Runs |-> run[p].ro]
      BY <1>7 DEF Like
    <2>3. [p \in Runs |-> run'[p].always] = [p \in Runs |-> run[p].always]
      BY <1>7 DEF Like
    <2>4. [p \in Runs |-> run'[p].ask] = [[p \in Runs |-> run[p].ask] EXCEPT ![r] = n]
      BY <1>7
    <2>5. /\ r \in {p \in Runs : run[p].phase # "unused"}
          /\ ~[p \in Runs |-> run[p].ro][r]
          /\ t \notin [p \in Runs |-> run[p].always][r]
          /\ [p \in Runs |-> run[p].ask][r] = 0
      BY <1>2 DEF Silent
    <2> QED
      BY <1>1, <1>2, <2>1, <2>2, <2>3, <2>4, <2>5 DEF Gate!Ask
  <1> QED
    BY <1>6, <1>8, <1>9 DEF GateStep, Gate!Next

LEMMA AskType ==
    ASSUME Asked, NEW i \in 1..Len(asks)
    PROVE  asks[i].by \in Runs /\ asks[i].tool \in Tools
  <1> DEFINE S == [by : Runs, tool : Tools]
  <1>1. asks \in Seq(S)
    BY DEF Asked
  <1> HIDE DEF S
  <1>2. asks[i] \in S
    BY <1>1
  <1> QED
    BY <1>2 DEF S

\* The user's decision.
LEMMA SayGate ==
    ASSUME RunsOK, Asked, NEW d \in Decision, Decide(d)
    PROVE  RunsOK' /\ Asked' /\ GateStep
  <1>1. /\ card # 0 /\ card' = 0
        /\ said' = [said EXCEPT ![card] = d]
        /\ answers' = answers \cup {<<card, d>>}
        /\ persisted' \in {persisted, persisted \cup
               (IF d = "always" THEN {asks[card].tool} ELSE {})}
        /\ UNCHANGED <<run, asks, pending, allowed>>
    BY DEF Decide, bridge
  <1>2. card \in 1..Len(asks) /\ card \in 1..Len(said) /\ said[card] = "none"
    BY <1>1 DEF Asked
  <1>3. RunsOK'
    BY <1>1 DEF RunsOK
  <1>4. Asked'
    <2>1. said' \in Seq(Decision \cup {"none"}) /\ Len(said') = Len(asks')
      BY <1>1, <1>2 DEF Asked
    <2>2. asks[card].tool \in Tools
      BY <1>2, AskType
    <2>3. persisted \subseteq persisted' /\ persisted' \subseteq Tools
      BY <1>1, <2>2 DEF Asked
    <2>4. \A p \in Runs : RunAsks(p)'
      BY <1>1, <2>3 DEF Asked, RunAsks
    <2>5. \A a \in answers' : said'[a[1]] = a[2]
      <3> SUFFICES ASSUME NEW a \in answers'
                   PROVE  said'[a[1]] = a[2]
        OBVIOUS
      <3>1. CASE a = <<card, d>>
        BY <1>1, <1>2, <3>1 DEF Asked
      <3>2. CASE a \in answers
        <4>1. a[1] # card
          BY <1>2, <3>2 DEF Asked, Decision
        <4> QED
          BY <1>1, <3>2, <4>1 DEF Asked
      <3> QED
        BY <1>1, <3>1, <3>2
    <2>6. answers' \subseteq (1..Len(asks')) \X Decision
      BY <1>1, <1>2 DEF Asked
    <2> QED
      BY <1>1, <2>1, <2>3, <2>4, <2>5, <2>6 DEF Asked
  <1>5. Gate!Say(card)
    BY <1>1, <1>2 DEF Gate!Say, Gate!Consent, Decision
  <1> QED
    BY <1>2, <1>3, <1>4, <1>5 DEF GateStep, Gate!Next, Asked

\* The decision reaches the bridge: one run at most waits for it.
LEMMA ResolveGate ==
    ASSUME RunsOK, Asked, AnswerArrives
    PROVE  RunsOK' /\ Asked' /\ GateStep
  <1>1. PICK a \in answers :
            /\ answers' = answers \ {a}
            /\ agent_answer_permission(a[1], a[2])
            /\ UNCHANGED <<card, persisted, said>>
    BY DEF AnswerArrives
  <1>2. a[1] \in 1..Len(asks) /\ a[2] \in Decision /\ said[a[1]] = a[2]
    BY DEF Asked
  <1> DEFINE id == a[1]
             tool == asks[id].tool
             takers == IF id \in pending THEN Delivered(id) ELSE {}
             new == IF a[2] \in {"session", "always"} THEN {tool} ELSE {}
  <1> HIDE DEF id, tool, takers, new
  <1>3. asks[id].by \in Runs /\ tool \in Tools /\ new \subseteq Tools
    BY <1>2, AskType DEF id, tool, new
  <1>4. takers = {} \/ (takers = {asks[id].by} /\ run[asks[id].by].ask = id)
    BY <1>2 DEF takers, Delivered, Asked, RunAsks, id
  <1>5. \A p \in takers : run[p].ask = id
    BY DEF takers, Delivered
  <1>6. /\ pending' = pending \ {id}
        /\ asks' = asks
        /\ run' = [p \in Runs |-> IF p \in takers
                      THEN [run[p] EXCEPT !.ask = 0, !.always = run[p].always \cup new]
                      ELSE run[p]]
        /\ allowed' = allowed \cup
              (IF a[2] # "deny" THEN {<<p, tool>> : p \in takers} ELSE {})
    BY <1>1, <1>5 DEF agent_answer_permission, Resolution, takers, new, tool, id
  <1>7. CASE takers = {}
    <2>1. run' = run /\ allowed' = allowed
      BY <1>6, <1>7 DEF RunsOK
    <2>2. Asked'
      BY <1>1, <1>6, <2>1 DEF Asked, RunAsks
    <2>3. UNCHANGED Gate!vars
      BY <1>1, <1>6, <2>1 DEF Gate!vars
    <2> QED
      BY <2>1, <2>2, <2>3 DEF RunsOK, GateStep
  <1>8. ASSUME NEW r \in Runs, takers = {r}, run[r].ask = id
        PROVE  RunsOK' /\ Asked' /\ GateStep
    <2> DEFINE rec == [run[r] EXCEPT !.ask = 0, !.always = run[r].always \cup new]
    <2>1. run' = [run EXCEPT ![r] = rec]
      BY <1>6, <1>8 DEF RunsOK
    <2>2. rec \in GoodRun
      <3>1. run[r].always \cup new \in SUBSET Tools
        BY <1>3 DEF RunsOK, GoodRun
      <3> QED
        BY <3>1, Zeros DEF RunsOK, GoodRun
    <2>3. /\ rec.ro = run[r].ro /\ rec.seed = run[r].seed /\ rec.ask = 0
          /\ rec.phase = run[r].phase
          /\ rec.always = run[r].always \cup new
      BY DEF RunsOK, GoodRun
    <2>4. RunsOK'
      BY <2>1, <2>2 DEF RunsOK
    <2> HIDE DEF rec
    <2>5. \A p \in Runs : run'[p] = IF p = r THEN rec ELSE run[p]
      BY <2>1 DEF RunsOK
    <2>6. Asked'
      <3>1. RunAsks(r)'
        BY <1>1, <1>6, <2>3, <2>5 DEF Asked, RunAsks
      <3>2. ASSUME NEW p \in Runs, p # r
            PROVE  RunAsks(p)'
        <4>1. /\ run'[p] = run[p] /\ asks' = asks /\ persisted' = persisted
              /\ RunAsks(p)
          BY <1>1, <1>6, <2>5, <3>2 DEF Asked
        <4> QED
          BY <4>1 DEF RunAsks
      <3>3. allowed' \subseteq allowed \cup {<<r, tool>>}
        BY <1>6, <1>8
      <3>4. allowed' \subseteq Runs \X Tools
        BY <1>3, <3>3 DEF Asked
      <3> QED
        BY <1>1, <1>6, <3>1, <3>2, <3>4 DEF Asked
    <2>7. Gate!Resolve(r)
      <3>1. {p \in Runs : run'[p].phase # "unused"} = {p \in Runs : run[p].phase # "unused"}
        BY <2>3, <2>5
      <3>2. [p \in Runs |-> run'[p].ro] = [p \in Runs |-> run[p].ro]
        BY <2>3, <2>5
      <3>3. [p \in Runs |-> run'[p].always]
                = [[p \in Runs |-> run[p].always] EXCEPT ![r] = run[r].always \cup new]
        BY <2>3, <2>5
      <3>4. [p \in Runs |-> run'[p].ask] = [[p \in Runs |-> run[p].ask] EXCEPT ![r] = 0]
        BY <2>3, <2>5
      <3>5. [p \in Runs |-> run[p].ask][r] = id /\ id # 0
        BY <1>2, <1>8 DEF id
      <3>6. said[id] = a[2] /\ a[2] # "none"
        BY <1>2 DEF id, Decision
      <3>7. allowed' = allowed \cup
                (IF a[2] \in Gate!Consent THEN {<<r, tool>>} ELSE {})
        BY <1>2, <1>6, <1>8 DEF Gate!Consent, Decision
      <3> QED
        BY <1>1, <1>6, <3>1, <3>2, <3>3, <3>4, <3>5, <3>6, <3>7
           DEF Gate!Resolve, Gate!Lasting, tool, new
    <2> QED
      BY <2>4, <2>6, <2>7 DEF GateStep, Gate!Next
  <1> QED
    BY <1>3, <1>4, <1>7, <1>8

\* A call that needs no question.
LEMMA SilentGate ==
    ASSUME RunsOK, Asked, NEW r \in Runs, NEW t \in Tools,
           AllowsSilently(r, t), UNCHANGED <<store, said>>
    PROVE  RunsOK' /\ Asked' /\ GateStep
  <1>1. /\ run' = run /\ asks' = asks /\ pending' = pending
        /\ allowed' = allowed \cup {<<r, t>>}
        /\ UNCHANGED <<said, card, answers, persisted>>
    BY DEF AllowsSilently, store
  <1>2. RunsOK' /\ Asked'
    BY <1>1 DEF RunsOK, Asked, RunAsks
  <1>3. /\ r \in {p \in Runs : run[p].phase # "unused"}
        /\ [p \in Runs |-> run[p].ro][r] \/ t \in [p \in Runs |-> run[p].always][r]
    BY DEF AllowsSilently, Dispatching, Handshake, Live, Silent
  <1>4. Gate!Silently(r, t)
    BY <1>1, <1>3 DEF Gate!Silently
  <1> QED
    BY <1>2, <1>4 DEF GateStep, Gate!Next

-----------------------------------------------------------------------------
(* What the other actions do to a run.                                     *)

\* A run's record after a step keeps its type, and everything but the fields
\* that the permissions do not depend on.
Keeps(a, b) == b \in GoodRun /\ Quiet(a, b)

LEMMA CommandedKeeps ==
    ASSUME NEW a \in GoodRun, NEW list \in Seq(Command)
    PROVE  Keeps(a, [a EXCEPT !.cmds = list])
  <1>1. [a EXCEPT !.cmds = list] \in GoodRun
    BY Zeros, Lists DEF GoodRun
  <1>2. Quiet(a, [a EXCEPT !.cmds = list])
    BY DEF Quiet, Like, GoodRun
  <1> QED
    BY <1>1, <1>2 DEF Keeps

LEMMA OpenedKeeps ==
    ASSUME NEW a \in GoodRun, a.phase \in Handshake
    PROVE  Keeps(a, [a EXCEPT !.phase = "live", !.resume = 0])
  <1>1. [a EXCEPT !.phase = "live", !.resume = 0] \in GoodRun
    BY Zeros, Lists DEF GoodRun, Handshake, Phase
  <1>2. Quiet(a, [a EXCEPT !.phase = "live", !.resume = 0])
    BY DEF Quiet, Like, GoodRun, Handshake
  <1> QED
    BY <1>1, <1>2 DEF Keeps

LEMMA OpenedStoppedKeeps ==
    ASSUME NEW a \in GoodRun, a.phase \in Handshake
    PROVE  Keeps(a, [a EXCEPT !.phase = "live", !.resume = 0,
                !.cmds = <<"stop">>])
  <1>1. [a EXCEPT !.phase = "live", !.resume = 0,
       !.cmds = <<"stop">>] \in GoodRun
    BY Zeros, Lists DEF GoodRun, Handshake, Phase
  <1>2. Quiet(a, [a EXCEPT !.phase = "live", !.resume = 0,
       !.cmds = <<"stop">>])
    BY DEF Quiet, Like, GoodRun, Handshake
  <1> QED
    BY <1>1, <1>2 DEF Keeps

LEMMA ReloadedKeeps ==
    ASSUME NEW a \in GoodRun, a.phase = "load"
    PROVE  Keeps(a, [a EXCEPT !.phase = "new", !.resume = 0])
  <1>1. [a EXCEPT !.phase = "new", !.resume = 0] \in GoodRun
    BY Zeros, Lists DEF GoodRun, Handshake, Phase
  <1>2. Quiet(a, [a EXCEPT !.phase = "new", !.resume = 0])
    BY DEF Quiet, Like, GoodRun, Handshake
  <1> QED
    BY <1>1, <1>2 DEF Keeps

LEMMA ToldKeeps ==
    ASSUME NEW a \in GoodRun, NEW list \in Seq(Output)
    PROVE  Keeps(a, [a EXCEPT !.out = list])
  <1>1. [a EXCEPT !.out = list] \in GoodRun
    BY Zeros, Lists DEF GoodRun
  <1>2. Quiet(a, [a EXCEPT !.out = list])
    BY DEF Quiet, Like, GoodRun
  <1> QED
    BY <1>1, <1>2 DEF Keeps

LEMMA TakenKeeps ==
    ASSUME NEW a \in GoodRun, a.phase = "live", a.todo # <<>>
    PROVE  Keeps(a, [a EXCEPT !.driver = Head(a.todo), !.todo = Tail(a.todo)])
  <1>1. a.todo \in Seq(Work) /\ Head(a.todo) \in Work /\ Tail(a.todo) \in Seq(Work)
    BY DEF GoodRun, Output, Work
  <1>2. [a EXCEPT !.driver = Head(a.todo), !.todo = Tail(a.todo)] \in GoodRun
    BY Zeros, Lists, <1>1 DEF GoodRun, Work
  <1>3. Quiet(a, [a EXCEPT !.driver = Head(a.todo), !.todo = Tail(a.todo)])
    BY DEF Quiet, Like, GoodRun
  <1> QED
    BY <1>2, <1>3 DEF Keeps

LEMMA FinishedKeeps ==
    ASSUME NEW a \in GoodRun, a.phase = "live"
    PROVE  Keeps(a, [a EXCEPT !.driver = "idle", !.out = Append(a.out, "done")])
  <1>1. Append(a.out, "done") \in Seq(Output)
    BY DEF GoodRun, Output, Work
  <1>2. [a EXCEPT !.driver = "idle", !.out = Append(a.out, "done")] \in GoodRun
    BY Zeros, Lists, <1>1 DEF GoodRun
  <1>3. Quiet(a, [a EXCEPT !.driver = "idle", !.out = Append(a.out, "done")])
    BY DEF Quiet, Like, GoodRun
  <1> QED
    BY <1>2, <1>3 DEF Keeps

LEMMA ModelAnsweredKeeps ==
    ASSUME NEW a \in GoodRun, a.phase = "live"
    PROVE  Keeps(a, [a EXCEPT !.driver = "idle", !.pump = "select"])
  <1>1. [a EXCEPT !.driver = "idle", !.pump = "select"] \in GoodRun
    BY Zeros, Lists DEF GoodRun
  <1>2. Quiet(a, [a EXCEPT !.driver = "idle", !.pump = "select"])
    BY DEF Quiet, Like, GoodRun
  <1> QED
    BY <1>1, <1>2 DEF Keeps

LEMMA PumpFreedKeeps ==
    ASSUME NEW a \in GoodRun, a.phase = "live"
    PROVE  Keeps(a, [a EXCEPT !.pump = "select"])
  <1>1. [a EXCEPT !.pump = "select"] \in GoodRun
    BY Zeros, Lists DEF GoodRun
  <1>2. Quiet(a, [a EXCEPT !.pump = "select"])
    BY DEF Quiet, Like, GoodRun
  <1> QED
    BY <1>1, <1>2 DEF Keeps

LEMMA PromptPassedKeeps ==
    ASSUME NEW a \in GoodRun, NEW list \in Seq(Command), NEW work \in Seq(Work), a.phase = "live"
    PROVE  Keeps(a, [a EXCEPT !.cmds = list, !.todo = work])
  <1>1. [a EXCEPT !.cmds = list, !.todo = work] \in GoodRun
    BY Zeros, Lists DEF GoodRun
  <1>2. Quiet(a, [a EXCEPT !.cmds = list, !.todo = work])
    BY DEF Quiet, Like, GoodRun
  <1> QED
    BY <1>1, <1>2 DEF Keeps

LEMMA ModelPassedKeeps ==
    ASSUME NEW a \in GoodRun, NEW list \in Seq(Command), NEW work \in Seq(Work), a.phase = "live"
    PROVE  Keeps(a, [a EXCEPT !.cmds = list, !.pump = "model", !.todo = work])
  <1>1. [a EXCEPT !.cmds = list, !.pump = "model", !.todo = work] \in GoodRun
    BY Zeros, Lists DEF GoodRun
  <1>2. Quiet(a, [a EXCEPT !.cmds = list, !.pump = "model", !.todo = work])
    BY DEF Quiet, Like, GoodRun
  <1> QED
    BY <1>1, <1>2 DEF Keeps

LEMMA EndedLike ==
    ASSUME NEW a \in GoodRun, a.phase # "unused"
    PROVE  Ended(a) \in GoodRun /\ Like(a, Ended(a)) /\ Ended(a).ask = 0
  <1>1. Ended(a) \in GoodRun
    BY Zeros, Lists DEF GoodRun, Ended, Phase
  <1>2. Like(a, Ended(a)) /\ Ended(a).ask = 0
    BY DEF Like, Ended, GoodRun
  <1> QED
    BY <1>1, <1>2

LEMMA ClosedLike ==
    ASSUME NEW a \in GoodRun, NEW list \in Seq(Output), a.phase = "live"
    PROVE  Closed(a, list) \in GoodRun /\ Like(a, Closed(a, list)) /\ Closed(a, list).ask = 0
  <1>1. a.out \o list \in Seq(Output)
    BY DEF GoodRun
  <1>2. Closed(a, list) \in GoodRun
    BY <1>1, Zeros, Lists DEF GoodRun, Closed
  <1>3. Like(a, Closed(a, list)) /\ Closed(a, list).ask = 0
    BY DEF Like, Closed, GoodRun
  <1> QED
    BY <1>2, <1>3

LEMMA BuiltFresh ==
    ASSUME NEW s \in 0..MaxRuns, NEW ro \in BOOLEAN, NEW seed \in SUBSET Tools,
           NEW old \in 0..MaxRuns, seed \subseteq persisted
    PROVE  /\ Built(s, ro, seed) \in GoodRun /\ Fresh(Built(s, ro, seed))
           /\ Built(s, ro, seed).sid = s
           /\ BuiltLoading(s, ro, seed, old) \in GoodRun
           /\ Fresh(BuiltLoading(s, ro, seed, old))
           /\ BuiltLoading(s, ro, seed, old).sid = s
  <1>1. Unused \in GoodRun
    BY Zeros, Lists DEF Unused, GoodRun, Phase
  <1>2. Built(s, ro, seed) \in GoodRun
    BY <1>1 DEF Built, GoodRun, Phase, Handshake
  <1>3. Fresh(Built(s, ro, seed)) /\ Built(s, ro, seed).sid = s
    BY DEF Built, Fresh, Unused
  <1>4. BuiltLoading(s, ro, seed, old) \in GoodRun
    BY <1>2 DEF BuiltLoading, GoodRun, Phase, Handshake
  <1>5. Fresh(BuiltLoading(s, ro, seed, old)) /\ BuiltLoading(s, ro, seed, old).sid = s
    BY DEF Built, BuiltLoading, Fresh, Unused
  <1> QED
    BY <1>2, <1>3, <1>4, <1>5

\* A command of the bridge reaches at most one pump.
LEMMA SentQuiet ==
    ASSUME RunsOK, \A p \in Runs : RunAsks(p),
           NEW s \in Runs, sessions[s] \in Runs, NEW c \in Command
    PROVE  /\ Sent(s, c) \in [Runs -> GoodRun]
           /\ \A p \in Runs : Quiet(run[p], Sent(s, c)[p])
  <1> DEFINE q == sessions[s]
             rec == [run[q] EXCEPT !.cmds = Append(run[q].cmds, c)]
  <1>1. CASE Accepts(s)
    <2>1. Sent(s, c) = [run EXCEPT ![q] = rec]
      BY <1>1 DEF Sent, RunsOK
    <2>2. run[q] \in GoodRun
      BY <1>1 DEF RunsOK
    <2>3. Append(run[q].cmds, c) \in Seq(Command)
      BY <2>2 DEF GoodRun
    <2>4. rec \in GoodRun /\ Quiet(run[q], rec)
      BY <2>2, <2>3, CommandedKeeps DEF Keeps
    <2> HIDE DEF rec
    <2>5. \A p \in Runs : Sent(s, c)[p] = IF p = q THEN rec ELSE run[p]
      BY <2>1 DEF RunsOK
    <2> QED
      BY <2>1, <2>4, <2>5 DEF RunsOK, Quiet, Like, RunAsks
  <1>2. CASE ~Accepts(s)
    <2>1. Sent(s, c) = run
      BY <1>2 DEF Sent, RunsOK, GoodRun
    <2> QED
      BY <2>1 DEF RunsOK, Quiet, Like, RunAsks
  <1> QED
    BY <1>1, <1>2

-----------------------------------------------------------------------------
(* The steps of a run by itself.                                           *)

RunStep == (QuietStep \/ WithdrawStep \/ BeginStep) /\ UNCHANGED perms

LEMMA KeepsStep ==
    ASSUME RunsOK, Asked, NEW r \in Runs, NEW rec, Keeps(run[r], rec),
           run' = [run EXCEPT ![r] = rec]
    PROVE  QuietStep
  BY UpdateQuiet DEF Keeps, Asked

LEMMA ProgressStep ==
    ASSUME RunsOK, Asked, NEW r \in Runs, Progress(r) \/ Notifies(r),
           UNCHANGED <<store, said>>
    PROVE  RunStep
  <1> DEFINE a == run[r]
  <1>0. a \in GoodRun /\ RunAsks(r) /\ \A p \in Runs : RunAsks(p)
    BY DEF RunsOK, Asked
  <1>p. UNCHANGED perms
    BY DEF Progress, LoadFails, DriverTakes, TurnDone, ModelSet, PumpPrompt, PumpModel,
           PumpModelLost, PumpEnds, Notifies, perms, store
  <1>1. CASE LoadFails(r)
    <2>1. run' = [run EXCEPT ![r] = [a EXCEPT !.phase = "new", !.resume = 0]]
      BY <1>1 DEF LoadFails, RunsOK
    <2> QED
      BY <1>0, <1>1, <1>p, <2>1, ReloadedKeeps, KeepsStep DEF LoadFails, Answered, RunStep
  <1>2. CASE DriverTakes(r)
    <2>1. run' = [run EXCEPT ![r] = [a EXCEPT !.driver = Head(a.todo), !.todo = Tail(a.todo)]]
      BY <1>2 DEF DriverTakes, RunsOK
    <2> QED
      BY <1>0, <1>2, <1>p, <2>1, TakenKeeps, KeepsStep DEF DriverTakes, Live, RunStep
  <1>3. CASE TurnDone(r)
    <2>1. run' = [run EXCEPT ![r] = [a EXCEPT !.driver = "idle", !.out = Append(a.out, "done")]]
      BY <1>3 DEF TurnDone, RunsOK
    <2> QED
      BY <1>0, <1>3, <1>p, <2>1, FinishedKeeps, KeepsStep DEF TurnDone, Live, RunStep
  <1>4. CASE ModelSet(r)
    <2>1. run' = [run EXCEPT ![r] = [a EXCEPT !.driver = "idle", !.pump = "select"]]
      BY <1>4 DEF ModelSet, RunsOK
    <2> QED
      BY <1>0, <1>4, <1>p, <2>1, ModelAnsweredKeeps, KeepsStep DEF ModelSet, Live, RunStep
  <1>5. CASE PumpPrompt(r)
    <2> DEFINE work == IF a.driver = "closed" THEN a.todo ELSE Append(a.todo, "prompt")
    <2>1. run' = [run EXCEPT ![r] = [a EXCEPT !.cmds = Tail(a.cmds), !.todo = work]]
      BY <1>5 DEF PumpPrompt, RunsOK
    <2>2. Tail(a.cmds) \in Seq(Command) /\ work \in Seq(Work)
      BY <1>0, <1>5 DEF PumpPrompt, GoodRun, Work
    <2>3. Keeps(a, [a EXCEPT !.cmds = Tail(a.cmds), !.todo = work])
      BY <1>0, <1>5, <2>2, PromptPassedKeeps DEF PumpPrompt, Live
    <2> QED
      BY <1>p, <2>1, <2>3, KeepsStep DEF RunStep
  <1>6. CASE PumpModel(r)
    <2>1. Tail(a.cmds) \in Seq(Command) /\ Append(a.todo, "model") \in Seq(Work)
      BY <1>0, <1>6 DEF PumpModel, GoodRun, Work
    <2>2. CASE a.driver = "closed"
      <3>1. run' = [run EXCEPT ![r] = [a EXCEPT !.cmds = Tail(a.cmds)]]
        BY <1>6, <2>2 DEF PumpModel, RunsOK
      <3>2. Keeps(a, [a EXCEPT !.cmds = Tail(a.cmds)])
        BY <1>0, <1>6, <2>1, CommandedKeeps DEF PumpModel, Live
      <3> QED
        BY <1>p, <3>1, <3>2, KeepsStep DEF RunStep
    <2>3. CASE a.driver # "closed"
      <3>1. run' = [run EXCEPT ![r] = [a EXCEPT !.cmds = Tail(a.cmds), !.pump = "model",
                                                !.todo = Append(a.todo, "model")]]
        BY <1>6, <2>3 DEF PumpModel, RunsOK
      <3>2. Keeps(a, [a EXCEPT !.cmds = Tail(a.cmds), !.pump = "model",
                               !.todo = Append(a.todo, "model")])
        BY <1>0, <1>6, <2>1, ModelPassedKeeps DEF PumpModel, Live
      <3> QED
        BY <1>p, <3>1, <3>2, KeepsStep DEF RunStep
    <2> QED
      BY <2>2, <2>3
  <1>7. CASE PumpModelLost(r)
    <2>1. run' = [run EXCEPT ![r] = [a EXCEPT !.pump = "select"]]
      BY <1>7 DEF PumpModelLost, RunsOK
    <2> QED
      BY <1>0, <1>7, <1>p, <2>1, PumpFreedKeeps, KeepsStep DEF PumpModelLost, Live, RunStep
  <1>8. CASE PumpEnds(r)
    <2>1. run' = [run EXCEPT ![r] = Ended(a)] /\ a.phase # "unused"
      BY <1>8 DEF PumpEnds, Live
    <2> QED
      BY <1>0, <1>p, <2>1, EndedLike, UpdateWithdraw DEF RunStep
  <1>9. CASE Notifies(r)
    <2>1. run' = [run EXCEPT ![r] = [a EXCEPT !.out = Append(a.out, "delta")]]
      BY <1>9 DEF Notifies, RunsOK
    <2>2. Append(a.out, "delta") \in Seq(Output)
      BY <1>0 DEF GoodRun, Output
    <2> QED
      BY <1>0, <1>p, <2>1, <2>2, ToldKeeps, KeepsStep DEF RunStep
  <1> QED
    BY <1>1, <1>2, <1>3, <1>4, <1>5, <1>6, <1>7, <1>8, <1>9 DEF Progress

LEMMA BreaksStep ==
    ASSUME RunsOK, Asked, NEW r \in Runs, Breaks(r)
    PROVE  RunStep
  <1>0. run[r] \in GoodRun /\ \A p \in Runs : RunAsks(p)
    BY DEF RunsOK, Asked
  <1>1. UNCHANGED perms
    BY DEF Breaks, TurnFails, ConnectionLost, perms, store
  <1>2. \E list \in Seq(Output) : run' = [run EXCEPT ![r] = Closed(run[r], list)]
    <2>1. CASE TurnFails(r)
      BY <2>1, Lists DEF TurnFails
    <2>2. CASE ConnectionLost(r)
      <3>1. PICK events \in {<<>>, <<"error">>} :
                run' = [run EXCEPT ![r] = Closed(run[r],
                    (IF run[r].driver = "prompt" THEN <<"error">> ELSE <<>>) \o events)]
        BY <2>2 DEF ConnectionLost
      <3>2. \A x, y \in Seq(Output) : x \o y \in Seq(Output)
        OBVIOUS
      <3>3. events \in Seq(Output)
        BY Lists
      <3>4. (IF run[r].driver = "prompt" THEN <<"error">> ELSE <<>>) \o events \in Seq(Output)
        BY <3>2, <3>3, Lists
      <3> QED
        BY <3>1, <3>4
    <2> QED
      BY <2>1, <2>2 DEF Breaks
  <1>3. run[r].phase = "live"
    BY DEF Breaks, TurnFails, ConnectionLost, Live
  <1> QED
    BY <1>0, <1>1, <1>2, <1>3, ClosedLike, UpdateWithdraw DEF RunStep

LEMMA EventStep ==
    ASSUME RunsOK, Asked, NEW r \in Runs, EventArrives(r)
    PROVE  RunStep
  <1>1. UNCHANGED perms
    BY DEF EventArrives, PumpEvent, perms
  <1>2. run[r] \in GoodRun /\ run[r].phase = "live" /\ run[r].out # <<>>
    BY DEF RunsOK, EventArrives, PumpEvent, Live
  <1>3. Tail(run[r].out) \in Seq(Output)
    BY <1>2 DEF GoodRun
  <1>4. run' = [run EXCEPT ![r] = [run[r] EXCEPT !.out = Tail(run[r].out)]]
    BY DEF EventArrives, PumpEvent, RunsOK
  <1> QED
    BY <1>1, <1>2, <1>3, <1>4, ToldKeeps, KeepsStep DEF RunStep

-----------------------------------------------------------------------------
(* The store's sessions begin and are replaced.                            *)

StoreInv ==
    /\ sessions \in [Runs -> 0..MaxRuns]
    /\ StoreOK
    /\ generation <= clicks

LEMMA Started ==
    ASSUME RunsOK, Asked, StoreInv, FlagsOK, NEW r \in Runs, Starts(r), UNCHANGED perms
    PROVE  BeginStep /\ run'[r].sid = r
  <1>1. PICK seed \in SUBSET persisted : agent_start(r, readOnly, seed, Resumed)
    BY DEF Starts
  <1>2. run[r].phase = "unused" /\ Resumed \in 0..MaxRuns /\ readOnly \in BOOLEAN
    BY <1>1, Zeros DEF agent_start, FreshRun, Resumed, StoreInv, StoreOK, Threads, FlagsOK
  <1>3. seed \in SUBSET Tools /\ seed \subseteq persisted /\ r \in 0..MaxRuns
    BY AgentAssumption DEF Asked, Runs
  <1>4. PICK rec \in GoodRun : run' = [run EXCEPT ![r] = rec] /\ Fresh(rec) /\ rec.sid = r
    <2>1. /\ Built(r, readOnly, seed) \in GoodRun /\ Fresh(Built(r, readOnly, seed))
          /\ Built(r, readOnly, seed).sid = r
          /\ BuiltLoading(r, readOnly, seed, Resumed) \in GoodRun
          /\ Fresh(BuiltLoading(r, readOnly, seed, Resumed))
          /\ BuiltLoading(r, readOnly, seed, Resumed).sid = r
      BY <1>2, <1>3, BuiltFresh
    <2> QED
      BY <1>1, <2>1 DEF agent_start
  <1>5. RunsOK' /\ \A p \in Runs : run'[p] = IF p = r THEN rec ELSE run[p]
    BY <1>4 DEF RunsOK
  <1>6. \A p \in Runs \ {r} : Quiet(run[p], run'[p])
    BY <1>5 DEF Quiet, Like, Asked, RunAsks
  <1> QED
    BY <1>2, <1>4, <1>5, <1>6 DEF BeginStep

\* A change of scope: the old run is told to stop, and another one begins.
LEMMA Rebuilt ==
    ASSUME RunsOK, Asked, StoreInv, NEW s \in Runs, sessions[s] # NoRun,
           NEW ro \in BOOLEAN, NEW r \in Runs, StopAndRebuild(s, ro, r)
    PROVE  BeginStep
  <1>1. sessions[s] \in Runs /\ s \in 0..MaxRuns
    BY AgentAssumption DEF StoreInv, Runs, NoRun
  <1> DEFINE seed == run[sessions[s]].seed
             rec == Built(s, ro, seed)
  <1>2. seed \in SUBSET Tools /\ seed \subseteq persisted
    BY <1>1 DEF RunsOK, GoodRun, Asked, RunAsks
  <1>3. rec \in GoodRun /\ Fresh(rec)
    BY <1>1, <1>2, Zeros, BuiltFresh
  <1>4. /\ Sent(s, "stop") \in [Runs -> GoodRun]
        /\ \A p \in Runs : Quiet(run[p], Sent(s, "stop")[p])
    BY <1>1, SentQuiet DEF Asked, Command
  <1>5. run[r].phase = "unused" /\ run' = [Sent(s, "stop") EXCEPT ![r] = rec]
    BY DEF StopAndRebuild, FreshRun
  <1> HIDE DEF rec
  <1>6. RunsOK' /\ \A p \in Runs : run'[p] = IF p = r THEN rec ELSE Sent(s, "stop")[p]
    BY <1>3, <1>4, <1>5 DEF RunsOK
  <1> QED
    BY <1>3, <1>4, <1>5, <1>6 DEF BeginStep

LEMMA ReconcileStep ==
    ASSUME RunsOK, Asked, StoreInv, FlagsOK, NEW r \in Runs, StartReconciles(r)
    PROVE  RunStep
  <1>1. UNCHANGED perms
    BY DEF StartReconciles, perms
  <1> DEFINE old == [run[r] EXCEPT !.phase = "live", !.resume = 0,
                                   !.cmds = <<"stop">>]
             rec == Built(run[r].sid, readOnly, run[r].seed)
  <1>2. PICK q \in Runs :
            /\ FreshRun(q)
            /\ run' = [run EXCEPT
                  ![r].phase = "live", ![r].resume = 0,
                  ![r].cmds = <<"stop">>, ![q] = rec]
    BY DEF StartReconciles
  <1>3. run[r] \in GoodRun /\ run[r].phase \in Handshake /\ run[q].phase = "unused" /\ q # r
    BY <1>2 DEF RunsOK, StartReconciles, Answered, FreshRun, Handshake
  <1>4. Keeps(run[r], old)
    BY <1>3, OpenedStoppedKeeps
  <1>5. run' = [[run EXCEPT ![r] = old] EXCEPT ![q] = rec]
    BY <1>2, <1>3 DEF RunsOK
  <1>6. rec \in GoodRun /\ Fresh(rec)
    <2>1. /\ run[r].sid \in 0..MaxRuns /\ readOnly \in BOOLEAN
          /\ run[r].seed \in SUBSET Tools /\ run[r].seed \subseteq persisted
      BY <1>3 DEF GoodRun, FlagsOK, Asked, RunAsks
    <2> QED
      BY <2>1, Zeros, BuiltFresh
  <1> HIDE DEF old, rec
  <1>7. RunsOK'
    BY <1>4, <1>5, <1>6 DEF RunsOK, Keeps
  <1>8. \A p \in Runs : run'[p] = IF p = q THEN rec ELSE IF p = r THEN old ELSE run[p]
    BY <1>3, <1>5 DEF RunsOK
  <1>9. \A p \in Runs \ {q} : Quiet(run[p], run'[p])
    BY <1>4, <1>8 DEF Keeps, Quiet, Like, Asked, RunAsks
  <1> QED
    BY <1>1, <1>3, <1>6, <1>7, <1>8, <1>9 DEF RunStep, BeginStep

LEMMA ContinuationStep ==
    ASSUME RunsOK, Asked, StoreInv, FlagsOK, NEW r \in Runs, Continuation(r) \/ CallFails(r)
    PROVE  RunStep
  <1>0. run[r] \in GoodRun /\ \A p \in Runs : RunAsks(p)
    BY DEF RunsOK, Asked
  <1>1. CASE StartDiscarded(r)
    <2>1. run' = [run EXCEPT ![r] = [run[r] EXCEPT !.phase = "live",
                                        !.resume = 0, !.cmds = <<"stop">>]]
      BY <1>1 DEF StartDiscarded, RunsOK
    <2>2. UNCHANGED perms /\ run[r].phase \in Handshake
      BY <1>1 DEF StartDiscarded, Answered, perms
    <2> QED
      BY <1>0, <2>1, <2>2, OpenedStoppedKeeps, KeepsStep DEF RunStep
  <1>2. CASE Ready(r) /\ UNCHANGED perms
    <2>1. run' = [run EXCEPT ![r] = [run[r] EXCEPT !.phase = "live", !.resume = 0]]
      BY <1>2 DEF Ready, RunsOK
    <2> QED
      BY <1>0, <1>2, <2>1, OpenedKeeps, KeepsStep DEF Ready, Answered, RunStep
  <1>3. CASE StartBinds(r)
    BY <1>2, <1>3 DEF StartBinds, Ready, perms
  <1>4. CASE ScopeResolves(r)
    BY <1>2, <1>4 DEF ScopeResolves, Ready, perms
  <1>5. CASE StartReconciles(r)
    BY <1>5, ReconcileStep
  <1>6. CASE CallFails(r)
    <2>1. run' = [run EXCEPT ![r] = Ended(run[r])] /\ run[r].phase # "unused"
      BY <1>6 DEF CallFails, HandshakeFails, Handshake
    <2>2. UNCHANGED perms
      BY <1>6 DEF CallFails, HandshakeFails, perms
    <2> QED
      BY <1>0, <2>1, <2>2, EndedLike, UpdateWithdraw DEF RunStep
  <1> QED
    BY <1>1, <1>3, <1>4, <1>5, <1>6 DEF Continuation

Clicks ==
    \/ PrepareSession \/ ToggleReadOnly \/ SelectAgent \/ SendMessage
    \/ StopTurn \/ SelectModel \/ ClosePanel
    \/ \E t \in 0..MaxThreads : SwitchThread(t)
    \/ \E i \in Sends : SendCreated(i) \/ SendAppended(i) \/ SendFails(i) \/ SendPrompt(i)

LEMMA SameStep ==
    ASSUME RunsOK, Asked, run' = run
    PROVE  QuietStep
  BY DEF RunsOK, QuietStep, Quiet, Like, Asked, RunAsks

LEMMA SendStep ==
    ASSUME RunsOK, Asked, StoreInv, NEW s \in Runs, NEW c \in Command,
           run' = IF sessions[s] = NoRun THEN run ELSE Sent(s, c)
    PROVE  QuietStep
  <1>1. CASE sessions[s] = NoRun
    BY <1>1, SameStep
  <1>2. CASE sessions[s] # NoRun
    <2>1. sessions[s] \in Runs
      BY <1>2, AgentAssumption DEF StoreInv, Runs, NoRun
    <2> QED
      BY <1>2, <2>1, SentQuiet DEF Asked, QuietStep, RunsOK
  <1> QED
    BY <1>1, <1>2

LEMMA ClicksStep ==
    ASSUME RunsOK, Asked, StoreInv, FlagsOK, Clicks
    PROVE  RunStep
  <1>0. sessionId # 0 => sessionId \in Runs
    BY AgentAssumption DEF StoreInv, StoreOK, Runs
  <1>1. CASE PrepareSession
    <2>1. UNCHANGED perms
      BY <1>1 DEF PrepareSession, Starts, agent_start, perms
    <2> QED
      BY <1>1, <2>1, Started DEF PrepareSession, RunStep
  <1>2. CASE ToggleReadOnly
    <2>1. UNCHANGED perms
      BY <1>2 DEF ToggleReadOnly, StopAndRebuild, perms, bridge
    <2>2. CASE sessionId # 0 /\ Rebuilds(sessionId, ~readOnly)
      <3>1. PICK r \in Runs : StopAndRebuild(sessionId, ~readOnly, r)
        BY <1>2, <2>2 DEF ToggleReadOnly
      <3>2. sessions[sessionId] # NoRun /\ (~readOnly) \in BOOLEAN
        BY <2>2 DEF Rebuilds
      <3> QED
        BY <1>0, <2>1, <2>2, <3>1, <3>2, Rebuilt DEF RunStep
    <2>3. CASE ~(sessionId # 0 /\ Rebuilds(sessionId, ~readOnly))
      <3>1. run' = run
        BY <1>2, <2>3 DEF ToggleReadOnly, bridge
      <3> QED
        BY <2>1, <3>1, SameStep DEF RunStep
    <2> QED
      BY <2>2, <2>3
  <1>3. CASE \/ SelectAgent \/ SendMessage \/ \E t \in 0..MaxThreads : SwitchThread(t)
             \/ \E i \in Sends : SendCreated(i) \/ SendFails(i)
    BY <1>3, SameStep DEF SelectAgent, SendMessage, SendCreated, SendFails, SwitchThread,
       bridge, perms, RunStep
  <1>4. CASE StopTurn
    BY <1>0, <1>4, SendStep DEF StopTurn, agent_stop, Command, perms, RunStep
  <1>5. CASE SelectModel
    BY <1>0, <1>5, SendStep DEF SelectModel, agent_select_model, Command, perms, store, RunStep
  <1>6. CASE ClosePanel
    <2>1. CASE sessionId # 0
      BY <1>0, <1>6, <2>1, SendStep DEF ClosePanel, agent_stop, Command, perms, RunStep
    <2>2. CASE sessionId = 0
      BY <1>6, <2>2, SameStep DEF ClosePanel, bridge, perms, RunStep
    <2> QED
      BY <2>1, <2>2
  <1>7. ASSUME NEW i \in Sends, SendAppended(i)
        PROVE  RunStep
    <2>1. UNCHANGED perms
      BY <1>7 DEF SendAppended, Starts, agent_start, perms, bridge
    <2>2. CASE sessionId = 0 /\ start = 0
      BY <1>7, <2>1, <2>2, Started DEF SendAppended, RunStep
    <2>3. CASE ~(sessionId = 0 /\ start = 0)
      BY <1>7, <2>1, <2>3, SameStep DEF SendAppended, bridge, RunStep
    <2> QED
      BY <2>2, <2>3
  <1>8. ASSUME NEW i \in Sends, SendPrompt(i)
        PROVE  RunStep
    <2>1. CASE sessionId # 0
      BY <1>0, <1>8, <2>1, SendStep DEF SendPrompt, agent_prompt, Command, perms, RunStep
    <2>2. CASE sessionId = 0
      BY <1>8, <2>2, SameStep DEF SendPrompt, bridge, perms, RunStep
    <2> QED
      BY <2>1, <2>2
  <1> QED
    BY <1>1, <1>2, <1>3, <1>4, <1>5, <1>6, <1>7, <1>8 DEF Clicks

\* Every step of the specification keeps the runs and the permissions and is a
\* step of the gate.
LEMMA StepGate ==
    ASSUME RunsOK, Asked, StoreInv, FlagsOK, [Next]_vars
    PROVE  RunsOK' /\ Asked' /\ GateStep
  <1>1. CASE RunStep
    <2>1. RunsOK'
      BY <1>1 DEF RunStep, QuietStep, WithdrawStep, BeginStep
    <2> QED
      BY <1>1, <2>1, QuietGate, WithdrawGate, BeginGate DEF RunStep
  <1>2. CASE Clicks
    BY <1>1, <1>2, ClicksStep
  <1>3. ASSUME NEW d \in Decision, Decide(d)
        PROVE  RunsOK' /\ Asked' /\ GateStep
    BY <1>3, SayGate
  <1>4. CASE AnswerArrives
    BY <1>4, ResolveGate
  <1>5. ASSUME NEW r \in Runs, (Progress(r) /\ UNCHANGED chat) \/ Agent(r)
        PROVE  RunsOK' /\ Asked' /\ GateStep
    <2>1. UNCHANGED <<store, said>>
      BY <1>5 DEF Agent, chat
    <2> QED
      BY <1>1, <1>5, <2>1, ProgressStep, SilentGate DEF Agent
  <1>6. ASSUME NEW r \in Runs,
               Continuation(r) \/ CallFails(r) \/ Breaks(r) \/ EventArrives(r)
        PROVE  RunsOK' /\ Asked' /\ GateStep
    BY <1>1, <1>6, ContinuationStep, BreaksStep, EventStep
  <1>7. ASSUME NEW r \in Runs, NEW t \in Tools, PermissionShown(r, t)
        PROVE  RunsOK' /\ Asked' /\ GateStep
    BY <1>7, AskGate
  <1>8. CASE UNCHANGED vars
    BY <1>1, <1>8, SameStep DEF vars, bridge, chat, store, perms, RunStep
  <1> QED
    BY <1>2, <1>3, <1>4, <1>5, <1>6, <1>7, <1>8 DEF Next, User, Store, Clicks

-----------------------------------------------------------------------------
(* The types of the store.                                                 *)

LEMMA Ids ==
    ASSUME RunsOK, NEW r \in Runs
    PROVE  r \in 0..MaxRuns /\ run[r].sid \in 0..MaxRuns /\ ResolvedId(r) \in 0..MaxRuns
  <1>1. r \in 0..MaxRuns
    BY AgentAssumption DEF Runs
  <1>2. run[r].sid \in 0..MaxRuns /\ run[r].resume \in 0..MaxRuns
    BY DEF RunsOK, GoodRun
  <1> QED
    BY <1>1, <1>2 DEF ResolvedId

LEMMA LinkType ==
    ASSUME StoreInv, NEW id \in 0..MaxRuns
    PROVE  Linked(id) \in [Threads -> 0..MaxRuns]
  BY DEF StoreInv, StoreOK, Linked

Calls == [Runs -> [kind : {"none", "start", "scope"}, generation : 0..MaxClicks]]

LEMMA CallType ==
    ASSUME StoreInv, NEW r \in Runs, NEW g \in 0..MaxClicks,
           NEW k \in {"none", "start", "scope"}
    PROVE  [call EXCEPT ![r] = [kind |-> k, generation |-> g]] \in Calls
  BY DEF StoreInv, StoreOK, Calls

LEMMA Bounds == 0 \in 0..MaxClicks /\ 0 \in 0..MaxThreads /\ 0 \in 0..MaxFaults
  BY ChatAssumption

LEMMA SettledType ==
    ASSUME StoreInv, NEW r \in Runs, Settled(r)
    PROVE  start' \in 0..MaxRuns /\ call' \in Calls
  <1>1. call' \in Calls
    BY Bounds, CallType DEF Settled, NoCall
  <1>2. start' \in 0..MaxRuns
    BY Zeros DEF Settled, StoreInv, StoreOK
  <1> QED
    BY <1>1, <1>2

LEMMA ClickType ==
    ASSUME StoreInv, Click
    PROVE  clicks' \in 0..MaxClicks /\ clicks' = clicks + 1 /\ generation + 1 <= clicks'
           /\ generation + 1 \in 0..MaxClicks /\ generation <= clicks'
  BY ChatAssumption DEF StoreInv, StoreOK, Click

LEMMA FaultType ==
    ASSUME StoreInv, Fault
    PROVE  faults' \in 0..MaxFaults
  BY ChatAssumption DEF StoreInv, StoreOK, Fault

LEMMA SessionsType ==
    ASSUME StoreInv, NEW s, NEW r \in 0..MaxRuns, sessions' = [sessions EXCEPT ![s] = r]
    PROVE  sessions' \in [Runs -> 0..MaxRuns]
  BY DEF StoreInv

LEMMA StartsType ==
    ASSUME RunsOK, StoreInv, NEW r \in Runs, Starts(r)
    PROVE  /\ start' \in 0..MaxRuns /\ call' \in Calls
           /\ fresh' \subseteq Runs
           /\ sessions' = sessions
  <1>1. start' \in 0..MaxRuns
    BY Ids DEF Starts
  <1>2. call' \in Calls
    BY CallType DEF Starts, StoreInv, StoreOK
  <1>3. fresh' \subseteq Runs
    BY DEF Starts, StoreInv, StoreOK
  <1> QED
    BY <1>1, <1>2, <1>3 DEF Starts, agent_start

Place == [at : {"no", "create", "append", "session"}, awaits : 0..MaxRuns]
Places == [Sends -> Place]

LEMMA PlaceType ==
    ASSUME StoreInv, NEW i \in Sends, NEW new \in Place, send' = [send EXCEPT ![i] = new]
    PROVE  send' \in Places
  BY DEF StoreInv, StoreOK, Places, Place

LEMMA NoPlace == Idle \in Place
  BY Zeros DEF Idle, Place

LEMMA CountedType ==
    ASSUME StoreInv, NEW r, Counted(r)
    PROVE  faults' \in 0..MaxFaults
  BY FaultType DEF Counted, StoreInv, StoreOK

LEMMA ContinuationType ==
    ASSUME RunsOK, StoreInv, NEW r \in Runs, Continuation(r) \/ CallFails(r)
    PROVE  StoreInv'
  <1>0. r \in 0..MaxRuns /\ run[r].sid \in 0..MaxRuns /\ ResolvedId(r) \in 0..MaxRuns
    BY Ids
  <1>1. Linked(ResolvedId(r)) \in [Threads -> 0..MaxRuns]
    BY <1>0, LinkType
  <1>2. CASE StartDiscarded(r)
    <2>1. start' \in 0..MaxRuns /\ call' \in Calls
      BY <1>2, SettledType DEF StartDiscarded
    <2> QED
      BY <1>2, <2>1 DEF StartDiscarded, StoreInv, StoreOK, Calls
  <1>3. CASE StartBinds(r)
    <2>1. start' \in 0..MaxRuns /\ call' \in Calls
      BY <1>3, SettledType DEF StartBinds
    <2>2. sessions' \in [Runs -> 0..MaxRuns]
      BY <1>0, <1>3, SessionsType DEF StartBinds, Ready
    <2> QED
      BY <1>0, <1>1, <1>3, <2>1, <2>2 DEF StartBinds, StoreInv, StoreOK, Calls
  <1>4. CASE ScopeResolves(r)
    <2>1. start' \in 0..MaxRuns /\ call' \in Calls
      BY <1>4, SettledType DEF ScopeResolves
    <2>2. sessions' \in [Runs -> 0..MaxRuns]
      BY <1>0, <1>4, SessionsType DEF ScopeResolves, Ready
    <2> QED
      BY <1>0, <1>1, <1>4, <2>1, <2>2 DEF ScopeResolves, StoreInv, StoreOK, Calls
  <1>5. CASE StartReconciles(r)
    <2>1. PICK q \in Runs :
              /\ start' = IF start = r THEN q ELSE start
              /\ call' = [call EXCEPT ![r] = NoCall,
                             ![q] = [kind |-> "scope", generation |-> 0]]
              /\ send' = [i \in Sends |-> IF send[i].awaits = r
                                          THEN [send[i] EXCEPT !.awaits = q] ELSE send[i]]
      BY <1>5 DEF StartReconciles
    <2>2. q \in 0..MaxRuns
      BY Ids
    <2>3. call' \in Calls
      BY <2>1, Bounds DEF StoreInv, StoreOK, Calls, NoCall
    <2>4. send' \in Places
      BY <2>1, <2>2 DEF StoreInv, StoreOK, Places, Place
    <2>5. start' \in 0..MaxRuns
      BY <2>1, <2>2 DEF StoreInv, StoreOK
    <2>6. sessions' \in [Runs -> 0..MaxRuns]
      BY <1>0, <1>5, SessionsType DEF StartReconciles
    <2> QED
      BY <1>0, <1>1, <1>5, <2>3, <2>4, <2>5, <2>6
         DEF StartReconciles, StoreInv, StoreOK, Calls, Places, Place
  <1>6. CASE CallFails(r)
    <2>1. start' \in 0..MaxRuns /\ call' \in Calls /\ faults' \in 0..MaxFaults
      BY <1>6, SettledType, FaultType DEF CallFails
    <2>2. send' \in Places
      BY <1>6, NoPlace DEF CallFails, StoreInv, StoreOK, Places, Place
    <2> QED
      BY <1>6, <2>1, <2>2 DEF CallFails, HandshakeFails, StoreInv, StoreOK, Calls, Places, Place
  <1> QED
    BY <1>2, <1>3, <1>4, <1>5, <1>6 DEF Continuation

LEMMA ClicksType ==
    ASSUME RunsOK, StoreInv, Clicks
    PROVE  StoreInv'
  <1>0. \A s : [sessions EXCEPT ![s] = NoRun] \in [Runs -> 0..MaxRuns]
    BY Zeros DEF StoreInv, NoRun
  <1>1. CASE PrepareSession
    <2>1. PICK r \in Runs : Starts(r)
      BY <1>1 DEF PrepareSession
    <2>2. /\ start' \in 0..MaxRuns /\ call' \in Calls
          /\ fresh' \subseteq Runs /\ sessions' = sessions
      BY <2>1, StartsType
    <2> QED
      BY <1>1, <2>2 DEF PrepareSession, StoreInv, StoreOK, Calls
  <1>2. CASE ToggleReadOnly
    <2>1. clicks' \in 0..MaxClicks /\ generation <= clicks'
      BY <1>2, ClickType DEF ToggleReadOnly
    <2>2. call' \in Calls
      BY <1>2, Bounds, CallType DEF ToggleReadOnly, StoreInv, StoreOK, Calls
    <2>3. sessions' = sessions
      BY <1>2 DEF ToggleReadOnly, StopAndRebuild, bridge
    <2> QED
      BY <1>2, <2>1, <2>2, <2>3 DEF ToggleReadOnly, StoreInv, StoreOK, Calls
  <1>3. CASE SelectAgent \/ \E t \in 0..MaxThreads : SwitchThread(t)
    <2>1. /\ clicks' \in 0..MaxClicks /\ generation' <= clicks'
          /\ generation' \in 0..MaxClicks
      BY <1>3, ClickType DEF SelectAgent, SwitchThread, ContextSwitch
    <2>2. thread' \in 0..MaxThreads
      BY <1>3 DEF SelectAgent, SwitchThread, StoreInv, StoreOK
    <2> QED
      BY <1>3, <2>1, <2>2, Zeros
         DEF SelectAgent, SwitchThread, ContextSwitch, bridge, StoreInv, StoreOK
  <1>4. CASE SendMessage
    <2>1. clicks' \in 0..MaxClicks /\ generation <= clicks'
      BY <1>4, ClickType DEF SendMessage
    <2>2. send' \in Places
      BY <1>4 DEF SendMessage, StoreInv, StoreOK, Places, Place
    <2> QED
      BY <1>4, <2>1, <2>2 DEF SendMessage, bridge, StoreInv, StoreOK, Places, Place
  <1>5. CASE StopTurn
    <2>1. clicks' \in 0..MaxClicks /\ generation <= clicks'
      BY <1>5, ClickType DEF StopTurn
    <2> QED
      BY <1>0, <1>5, <2>1 DEF StopTurn, agent_stop, StoreInv, StoreOK
  <1>6. CASE SelectModel
    <2>1. clicks' \in 0..MaxClicks /\ generation <= clicks'
      BY <1>6, ClickType DEF SelectModel
    <2> QED
      BY <1>6, <2>1 DEF SelectModel, agent_select_model, store, StoreInv, StoreOK
  <1>7. CASE ClosePanel
    <2>1. clicks' \in 0..MaxClicks /\ generation <= clicks'
      BY <1>7, ClickType DEF ClosePanel
    <2>2. sessions' \in [Runs -> 0..MaxRuns]
      BY <1>0, <1>7 DEF ClosePanel, agent_stop, bridge, StoreInv
    <2> QED
      BY <1>7, <2>1, <2>2, Zeros DEF ClosePanel, StoreInv, StoreOK
  <1>8. ASSUME NEW i \in Sends, SendFails(i)
        PROVE  StoreInv'
    <2>1. faults' \in 0..MaxFaults
      BY <1>8, FaultType DEF SendFails
    <2>2. send' \in Places
      BY <1>8, NoPlace, PlaceType DEF SendFails
    <2> QED
      BY <1>8, <2>1, <2>2 DEF SendFails, bridge, StoreInv, StoreOK, Places, Place
  <1>9. ASSUME NEW i \in Sends, SendPrompt(i)
        PROVE  StoreInv'
    <2>1. sessions' = sessions
      BY <1>9 DEF SendPrompt, agent_prompt, bridge
    <2>2. send' \in Places
      BY <1>9, NoPlace, PlaceType DEF SendPrompt
    <2> QED
      BY <1>9, <2>1, <2>2 DEF SendPrompt, StoreInv, StoreOK, Places, Place
  <1>10. ASSUME NEW i \in Sends, SendCreated(i)
         PROVE  StoreInv'
    <2>1. /\ threads < MaxThreads /\ threads' = threads + 1 /\ thread' = threads + 1
          /\ link' = [link EXCEPT ![threads + 1] = acpId]
          /\ send' = [send EXCEPT ![i].at = "append"]
      BY <1>10 DEF SendCreated
    <2>2. /\ threads \in 0..MaxThreads /\ acpId \in 0..MaxRuns
          /\ link \in [Threads -> 0..MaxRuns] /\ send \in Places
      BY DEF StoreInv, StoreOK, Places, Place
    <2>3. threads + 1 \in 0..MaxThreads
      BY <2>1, <2>2, ChatAssumption
    <2>4. link' \in [Threads -> 0..MaxRuns]
      BY <2>1, <2>2
    <2>5. send' \in Places
      BY <2>1, <2>2 DEF Places, Place
    <2> QED
      BY <1>10, <2>1, <2>3, <2>4, <2>5
         DEF SendCreated, bridge, StoreInv, StoreOK, Places, Place
  <1>11. ASSUME NEW i \in Sends, SendAppended(i)
         PROVE  StoreInv'
    <2>1. CASE sessionId = 0 /\ start = 0
      <3>1. PICK r \in Runs :
                Starts(r) /\ send' = [send EXCEPT ![i] = [at |-> "session", awaits |-> r]]
        BY <1>11, <2>1 DEF SendAppended
      <3>2. [at |-> "session", awaits |-> r] \in Place
        BY Ids DEF Place
      <3>3. send' \in Places
        BY <3>1, <3>2, PlaceType
      <3>4. /\ start' \in 0..MaxRuns /\ call' \in Calls
            /\ fresh' \subseteq Runs /\ sessions' = sessions
        BY <3>1, StartsType
      <3> QED
        BY <1>11, <3>3, <3>4 DEF SendAppended, StoreInv, StoreOK, Calls, Places, Place
    <2>2. CASE ~(sessionId = 0 /\ start = 0)
      <3> DEFINE new == [at |-> "session", awaits |-> IF sessionId = 0 THEN start ELSE 0]
      <3>1. send' = [send EXCEPT ![i] = new]
        BY <1>11, <2>2 DEF SendAppended
      <3>2. new \in Place
        BY Zeros DEF StoreInv, StoreOK, Place
      <3>3. send' \in Places
        BY <3>1, <3>2, PlaceType
      <3> QED
        BY <1>11, <2>2, <3>3 DEF SendAppended, bridge, StoreInv, StoreOK, Places, Place
    <2> QED
      BY <2>1, <2>2
  <1> QED
    BY <1>1, <1>2, <1>3, <1>4, <1>5, <1>6, <1>7, <1>8, <1>9, <1>10, <1>11 DEF Clicks

LEMMA StoreType ==
    ASSUME RunsOK, StoreInv, [Next]_vars
    PROVE  StoreInv'
  <1>1. CASE Clicks
    BY <1>1, ClicksType
  <1>2. ASSUME NEW d \in Decision, Decide(d)
        PROVE  StoreInv'
    BY <1>2 DEF Decide, bridge, StoreInv, StoreOK
  <1>3. CASE AnswerArrives
    BY <1>3 DEF AnswerArrives, agent_answer_permission, StoreInv, StoreOK
  <1>4. ASSUME NEW r \in Runs, (Progress(r) /\ UNCHANGED chat) \/ Agent(r)
        PROVE  StoreInv'
    <2>1. sessions' = sessions
      BY <1>4 DEF Progress, Agent, LoadFails, DriverTakes, TurnDone, ModelSet, PumpPrompt,
         PumpModel, PumpModelLost, PumpEnds, Notifies, AllowsSilently
    <2>2. faults' \in 0..MaxFaults /\ UNCHANGED <<store, clicks, fresh>>
      BY <1>4, CountedType DEF Agent, chat, StoreInv, StoreOK
    <2> QED
      BY <2>1, <2>2 DEF store, StoreInv, StoreOK
  <1>5. ASSUME NEW r \in Runs, Continuation(r) \/ CallFails(r)
        PROVE  StoreInv'
    BY <1>5, ContinuationType
  <1>6. ASSUME NEW r \in Runs, Breaks(r)
        PROVE  StoreInv'
    <2>1. sessions' = sessions
      BY <1>6 DEF Breaks, TurnFails, ConnectionLost
    <2>2. faults' \in 0..MaxFaults
      BY <1>6, FaultType DEF Breaks
    <2> QED
      BY <1>6, <2>1, <2>2 DEF Breaks, store, StoreInv, StoreOK
  <1>7. ASSUME NEW r \in Runs, EventArrives(r)
        PROVE  StoreInv'
    BY <1>7 DEF EventArrives, PumpEvent, StoreInv, StoreOK
  <1>8. ASSUME NEW r \in Runs, NEW t \in Tools, PermissionShown(r, t)
        PROVE  StoreInv'
    <2>1. faults' \in 0..MaxFaults
      BY <1>8, CountedType DEF PermissionShown
    <2> QED
      BY <1>8, <2>1 DEF PermissionShown, AsksUser, StoreInv, StoreOK
  <1>9. CASE UNCHANGED vars
    BY <1>9 DEF vars, bridge, chat, store, StoreInv, StoreOK
  <1> QED
    BY <1>1, <1>2, <1>3, <1>4, <1>5, <1>6, <1>7, <1>8, <1>9 DEF Next, User, Store, Clicks

LEMMA FlagsType ==
    ASSUME FlagsOK, [Next]_vars
    PROVE  FlagsOK'
  <1>1. CASE PrepareSession
    BY <1>1 DEF PrepareSession, FlagsOK
  <1>2. CASE ToggleReadOnly
    BY <1>2 DEF ToggleReadOnly, FlagsOK
  <1>3. CASE SelectAgent \/ \E t \in 0..MaxThreads : SwitchThread(t)
    BY <1>3 DEF SelectAgent, SwitchThread, ContextSwitch, FlagsOK
  <1>4. CASE \/ SendMessage
             \/ \E i \in Sends : SendCreated(i) \/ SendAppended(i) \/ SendFails(i) \/ SendPrompt(i)
    BY <1>4 DEF SendMessage, SendCreated, SendAppended, SendFails, SendPrompt, FlagsOK
  <1>5. CASE StopTurn \/ SelectModel \/ ClosePanel
    BY <1>5 DEF StopTurn, SelectModel, ClosePanel, store, FlagsOK
  <1>6. CASE AnswerArrives \/ \E d \in Decision : Decide(d)
    BY <1>6 DEF AnswerArrives, Decide, FlagsOK
  <1>7. ASSUME NEW r \in Runs, (Progress(r) /\ UNCHANGED chat) \/ Agent(r)
        PROVE  FlagsOK'
    BY <1>7 DEF Agent, chat, store, FlagsOK
  <1>8. ASSUME NEW r \in Runs, Continuation(r) \/ CallFails(r)
        PROVE  FlagsOK'
    BY <1>8 DEF Continuation, StartDiscarded, StartBinds, StartReconciles, ScopeResolves,
       CallFails, FlagsOK
  <1>9. ASSUME NEW r \in Runs, Breaks(r)
        PROVE  FlagsOK'
    BY <1>9 DEF Breaks, store, FlagsOK
  <1>10. ASSUME NEW r \in Runs, EventArrives(r)
         PROVE  FlagsOK'
    <2>1. busy' \in BOOLEAN
      BY <1>10 DEF EventArrives, Reduced, FlagsOK
    <2> QED
      BY <1>10, <2>1 DEF EventArrives, FlagsOK
  <1>11. ASSUME NEW r \in Runs, NEW t \in Tools, PermissionShown(r, t)
         PROVE  FlagsOK'
    BY <1>11 DEF PermissionShown, FlagsOK
  <1>12. CASE UNCHANGED vars
    BY <1>12 DEF vars, chat, store, FlagsOK
  <1> QED
    BY <1>1, <1>2, <1>3, <1>4, <1>5, <1>6, <1>7, <1>8, <1>9, <1>10, <1>11, <1>12
       DEF Next, User, Store

-----------------------------------------------------------------------------
(* The inductive invariant, the refinement and the properties.             *)

IInv == RunsOK /\ Asked /\ StoreInv /\ FlagsOK

LEMMA UnusedRun == Unused \in GoodRun
  BY Zeros, Lists DEF Unused, GoodRun, Phase

LEMMA InitInv ==
    ASSUME Init
    PROVE  IInv /\ Gate!Init
  <1>1. RunsOK /\ \A r \in Runs : run[r] = Unused
    BY UnusedRun DEF Init, AgentInit, RunsOK
  <1>2. /\ Unused.phase = "unused" /\ Unused.ro = TRUE /\ Unused.seed = {}
        /\ Unused.always = {} /\ Unused.ask = 0
    BY DEF Unused
  <1>3. \A r \in Runs : RunAsks(r)
    BY <1>1, <1>2 DEF RunAsks
  <1>4. Asked
    <2>1. /\ asks = <<>> /\ said = <<>> /\ pending = {} /\ card = 0 /\ answers = {}
          /\ persisted = {} /\ allowed = {}
      BY DEF Init, AgentInit
    <2>2. Len(<<>>) = 0 /\ <<>> \in Seq([by : Runs, tool : Tools])
          /\ <<>> \in Seq(Decision \cup {"none"})
      OBVIOUS
    <2> QED
      BY <1>3, <2>1, <2>2, AgentAssumption DEF Asked
  <1>5. StoreInv
    <2>1. sessions \in [Runs -> 0..MaxRuns] /\ link \in [Threads -> 0..MaxRuns]
      BY Zeros DEF Init, AgentInit, NoRun
    <2>2. fresh \subseteq Runs /\ call \in Calls
      BY Bounds DEF Init, Calls, NoCall
    <2>3. send \in Places
      BY NoPlace DEF Init, Places
    <2> QED
      BY <2>1, <2>2, <2>3, Zeros, Bounds, ChatAssumption
         DEF Init, StoreInv, StoreOK, Calls, Places, Place
  <1>6. FlagsOK
    BY DEF Init, FlagsOK
  <1>7. Gate!Init
    <2>1. {r \in Runs : run[r].phase # "unused"} = {}
      BY <1>1, <1>2
    <2>2. [r \in Runs |-> run[r].ro] = [r \in Runs |-> TRUE]
      BY <1>1, <1>2
    <2>3. [r \in Runs |-> run[r].always] = [r \in Runs |-> {}]
      BY <1>1, <1>2
    <2>4. [r \in Runs |-> run[r].ask] = [r \in Runs |-> 0]
      BY <1>1, <1>2
    <2> QED
      BY <2>1, <2>2, <2>3, <2>4 DEF Gate!Init, Init, AgentInit
  <1> QED
    BY <1>1, <1>4, <1>5, <1>6, <1>7 DEF IInv

LEMMA NextInv ==
    ASSUME IInv, [Next]_vars
    PROVE  IInv' /\ GateStep
  BY StepGate, StoreType, FlagsType DEF IInv

\* The types and what the permissions rest on hold in every state.
THEOREM InvariantKept == Spec => []IInv
  <1>1. Init => IInv
    BY InitInv
  <1>2. IInv /\ [Next]_vars => IInv'
    BY NextInv
  <1> QED
    BY <1>1, <1>2, PTL DEF Spec

\* TypeOK for every instance: among the rest, a Stop is never handed to the
\* driver (run_session) and no more events, calls and ids exist than the code
\* makes.
THEOREM TypeCorrect == Spec => []TypeOK
  <1>1. IInv => TypeOK
    <2> SUFFICES ASSUME IInv PROVE TypeOK
      OBVIOUS
    <2>1. Output \subseteq AgentEvent /\ Work \subseteq Command
      BY DEF Output, AgentEvent, Work, Command
    <2>2. Seq(Output) \subseteq Seq(AgentEvent) /\ Seq(Work) \subseteq Seq(Command)
      BY <2>1
    <2>3. GoodRun \subseteq Run
      BY <2>2 DEF GoodRun, Run
    <2>4. run \in [Runs -> Run]
      BY <2>3 DEF IInv, RunsOK
    <2>5. AgentTypeOK
      BY <2>4 DEF IInv, Asked, StoreInv, AgentTypeOK
    <2>6. CardOK
      BY AgentAssumption DEF IInv, Asked, CardOK
    <2> QED
      BY <2>5, <2>6 DEF IInv, StoreInv, TypeOK
  <1> QED
    BY <1>1, InvariantKept, PTL

\* The sessions of the bridge and the store implement PermissionGate: a tool
\* call is allowed only in a read-only session, by a stored grant, or by the
\* user's yes to the question of this very session (resolve_permission,
\* PendingPermissions, agent_answer_permission).
THEOREM PermissionsKept == Spec => GateKept
  <1>1. Init => Gate!Init
    BY InitInv
  <1>2. IInv /\ [Next]_vars => [Gate!Next]_(Gate!vars)
    BY NextInv DEF GateStep
  <1> QED
    BY <1>1, <1>2, InvariantKept, PTL DEF Spec, GateKept, Gate!Spec

-----------------------------------------------------------------------------
(* The session is at home.                                                 *)

Grows ==
    \A p \in Runs : run[p].phase # "unused" =>
        run'[p].phase # "unused" /\ run'[p].sid = run[p].sid

LEMMA StepGrows ==
    ASSUME IInv, [Next]_vars
    PROVE  Grows
  <1> USE DEF IInv
  <1>1. CASE RunStep
    BY <1>1 DEF RunStep, QuietStep, WithdrawStep, BeginStep, Quiet, Like, Grows
  <1>2. CASE Clicks
    BY <1>1, <1>2, ClicksStep
  <1>3. CASE run' = run
    BY <1>3 DEF Grows
  <1>4. CASE AnswerArrives
    <2>1. PICK a \in answers : agent_answer_permission(a[1], a[2])
      BY <1>4 DEF AnswerArrives
    <2>2. \A p \in Runs : \E n, set :
              run'[p] = [run[p] EXCEPT !.ask = n, !.always = set] \/ run'[p] = run[p]
      BY <2>1 DEF agent_answer_permission
    <2>3. \A p \in Runs : run'[p].phase = run[p].phase /\ run'[p].sid = run[p].sid
      BY <2>2 DEF RunsOK, GoodRun
    <2> QED
      BY <2>3 DEF Grows
  <1>5. ASSUME NEW r \in Runs, (Progress(r) /\ UNCHANGED chat) \/ Agent(r)
        PROVE  Grows
    <2>0. UNCHANGED <<store, said>>
      BY <1>5 DEF Agent, chat
    <2>1. CASE Progress(r) \/ Notifies(r)
      BY <1>1, <2>0, <2>1, ProgressStep
    <2>2. CASE \E t \in Tools : AllowsSilently(r, t)
      BY <1>3, <2>2 DEF AllowsSilently
    <2> QED
      BY <1>5, <2>1, <2>2 DEF Agent
  <1>6. ASSUME NEW r \in Runs,
               Continuation(r) \/ CallFails(r) \/ Breaks(r) \/ EventArrives(r)
        PROVE  Grows
    BY <1>1, <1>6, ContinuationStep, BreaksStep, EventStep
  <1>7. ASSUME NEW r \in Runs, NEW t \in Tools, PermissionShown(r, t)
        PROVE  Grows
    <2> DEFINE b == [run[r] EXCEPT !.ask = Len(asks) + 1]
    <2>1. run' = run \/ run' = [run EXCEPT ![r] = b]
      BY <1>7 DEF PermissionShown, AsksUser, RunsOK
    <2>2. b.phase = run[r].phase /\ b.sid = run[r].sid
      BY DEF RunsOK, GoodRun
    <2> HIDE DEF b
    <2>3. \A p \in Runs : run'[p].phase = run[p].phase /\ run'[p].sid = run[p].sid
      BY <2>1, <2>2 DEF RunsOK
    <2> QED
      BY <2>3 DEF Grows
  <1>8. CASE UNCHANGED vars \/ \E d \in Decision : Decide(d)
    BY <1>3, <1>8 DEF vars, bridge, Decide
  <1> QED
    BY <1>2, <1>4, <1>5, <1>6, <1>7, <1>8 DEF Next, User, Store, Clicks

\* SessionAtHome is not inductive: what a start in flight may bind is added.
CallHome(r) ==
    /\ call[r].generation <= generation
    /\ call[r].kind = "start" =>
          /\ run[r].phase # "unused" /\ run[r].sid = r
          /\ call[r].generation = generation => r \in fresh

Home ==
    /\ \A r \in Runs : CallHome(r)
    /\ sessionId # 0 => sessionId \in Runs /\ run[sessionId].phase # "unused"
    /\ SessionAtHome

\* What the session depends on, if no call ends or begins.
LEMMA HomeStays ==
    ASSUME Home, Grows, call' = call, generation' = generation, fresh' = fresh,
           sessionId' \in {0, sessionId}
    PROVE  Home'
  <1>1. ASSUME NEW r \in Runs
        PROVE  CallHome(r)'
    <2>1. CallHome(r)
      BY DEF Home
    <2> QED
      BY <2>1 DEF CallHome, Grows
  <1>2. sessionId' # 0 => sessionId' \in Runs /\ run'[sessionId'].phase # "unused"
    BY DEF Home, Grows
  <1>3. SessionAtHome'
    BY DEF Home, SessionAtHome
  <1> QED
    BY <1>1, <1>2, <1>3 DEF Home

\* A call ends, or one to change the scope begins.
LEMMA HomeCalls ==
    ASSUME IInv, Home, Grows, generation' = generation, fresh' = fresh,
           \A p \in Runs : \/ call'[p] = call[p]
                           \/ call'[p].generation = 0 /\ call'[p].kind # "start",
           sessionId' # sessionId =>
               /\ sessionId' \in Runs /\ run[sessionId'].phase # "unused"
               /\ sessionId' \in fresh
    PROVE  Home'
  <1>1. ASSUME NEW r \in Runs
        PROVE  CallHome(r)'
    <2>1. CallHome(r) /\ generation \in Nat
      BY DEF Home, IInv, StoreInv, StoreOK
    <2> QED
      BY <2>1 DEF CallHome, Grows
  <1>2. sessionId' # 0 => sessionId' \in Runs /\ run'[sessionId'].phase # "unused"
    BY DEF Home, Grows
  <1>3. SessionAtHome'
    BY DEF Home, SessionAtHome
  <1> QED
    BY <1>1, <1>2, <1>3 DEF Home

\* A start: the run is new, so it is not the store's session.
LEMMA HomeStarts ==
    ASSUME IInv, Home, Grows, UNCHANGED perms, NEW r \in Runs, Starts(r),
           sessionId' = 0, generation' = generation
    PROVE  Home'
  <1>1. BeginStep /\ run'[r].sid = r
    BY Started DEF IInv
  <1>2. run[r].phase = "unused" /\ run'[r].phase # "unused"
    BY <1>1 DEF Starts, agent_start, FreshRun, BeginStep, Fresh, Quiet, Like, Grows,
       Built, BuiltLoading, Unused, IInv, RunsOK, GoodRun
  <1>3. \A p \in Runs : p # r => call'[p] = call[p]
    BY DEF Starts, IInv, StoreInv, StoreOK
  <1>4. call'[r] = [kind |-> "start", generation |-> generation] /\ fresh' = fresh \cup {r}
    BY DEF Starts, IInv, StoreInv, StoreOK
  <1>5. ASSUME NEW p \in Runs
        PROVE  CallHome(p)'
    <2>1. CallHome(p) /\ generation \in Nat
      BY DEF Home, IInv, StoreInv, StoreOK
    <2>2. CASE p = r
      BY <1>1, <1>2, <1>4, <2>1, <2>2 DEF CallHome
    <2>3. CASE p # r
      BY <1>3, <1>4, <2>1, <2>3 DEF CallHome, Grows
    <2> QED
      BY <2>2, <2>3
  <1> QED
    BY <1>5 DEF Home, SessionAtHome

\* A switch of the context: the session is gone and all starts are stale.
LEMMA HomeSwitches ==
    ASSUME IInv, Home, Grows, call' = call, sessionId' = 0,
           generation' = generation + 1
    PROVE  Home'
  <1>1. ASSUME NEW r \in Runs
        PROVE  CallHome(r)'
    <2>1. CallHome(r) /\ generation \in Nat /\ call[r].generation \in Nat
      BY DEF Home, IInv, StoreInv, StoreOK
    <2> QED
      BY <2>1 DEF CallHome, Grows
  <1> QED
    BY <1>1 DEF Home, SessionAtHome

LEMMA SettledCalls ==
    ASSUME IInv, NEW r \in Runs, Settled(r)
    PROVE  \A p \in Runs : \/ call'[p] = call[p]
                           \/ call'[p].generation = 0 /\ call'[p].kind # "start"
  BY DEF Settled, NoCall, IInv, StoreInv, StoreOK

LEMMA HomeContinues ==
    ASSUME IInv, Home, Grows, NEW r \in Runs, Continuation(r) \/ CallFails(r)
    PROVE  Home'
  <1>0. CallHome(r)
    BY DEF Home
  <1>1. CASE StartDiscarded(r)
    BY <1>1, SettledCalls, HomeCalls DEF StartDiscarded
  <1>2. CASE StartBinds(r)
    <2>1. /\ run[r].sid = r /\ run[r].phase # "unused" /\ r \in fresh
      BY <1>0, <1>2 DEF StartBinds, Stale, CallHome
    <2>2. UNCHANGED <<generation, fresh>> /\ sessionId' = r
      BY <1>2, <2>1 DEF StartBinds
    <2> QED
      BY <1>2, <2>1, <2>2, SettledCalls, HomeCalls DEF StartBinds
  <1>3. CASE StartReconciles(r)
    <2>1. /\ run[r].sid = r /\ run[r].phase # "unused" /\ r \in fresh
      BY <1>0, <1>3 DEF StartReconciles, Stale, CallHome
    <2>2. UNCHANGED <<generation, fresh>> /\ sessionId' = r
      BY <1>3, <2>1 DEF StartReconciles
    <2>3. PICK q \in Runs : call' = [call EXCEPT ![r] = NoCall,
                                         ![q] = [kind |-> "scope", generation |-> 0]]
      BY <1>3 DEF StartReconciles
    <2>4. \A p \in Runs : \/ call'[p] = call[p]
                          \/ call'[p].generation = 0 /\ call'[p].kind # "start"
      BY <2>3 DEF NoCall, IInv, StoreInv, StoreOK
    <2> QED
      BY <2>1, <2>2, <2>4, HomeCalls
  <1>4. CASE ScopeResolves(r)
    BY <1>4, SettledCalls, HomeCalls DEF ScopeResolves
  <1>5. CASE CallFails(r)
    BY <1>5, SettledCalls, HomeCalls DEF CallFails
  <1> QED
    BY <1>1, <1>2, <1>3, <1>4, <1>5 DEF Continuation

LEMMA HomeClicks ==
    ASSUME IInv, Home, Grows, Clicks
    PROVE  Home'
  <1>1. CASE PrepareSession
    <2>1. UNCHANGED perms /\ UNCHANGED <<sessionId, generation>> /\ sessionId = 0
      BY <1>1 DEF PrepareSession, Starts, agent_start, perms
    <2>2. PICK r \in Runs : Starts(r)
      BY <1>1 DEF PrepareSession
    <2> QED
      BY <2>1, <2>2, HomeStarts
  <1>2. CASE ToggleReadOnly
    <2>1. \A p \in Runs : \/ call'[p] = call[p]
                          \/ call'[p].generation = 0 /\ call'[p].kind # "start"
      BY <1>2 DEF ToggleReadOnly, IInv, StoreInv, StoreOK
    <2>2. UNCHANGED <<sessionId, generation, fresh>>
      BY <1>2 DEF ToggleReadOnly
    <2> QED
      BY <2>1, <2>2, HomeCalls
  <1>3. CASE SelectAgent \/ \E t \in 0..MaxThreads : SwitchThread(t)
    BY <1>3, HomeSwitches DEF SelectAgent, SwitchThread, ContextSwitch
  <1>4. CASE \/ SendMessage \/ StopTurn
             \/ \E i \in Sends : SendCreated(i) \/ SendFails(i) \/ SendPrompt(i)
    BY <1>4, HomeStays DEF SendMessage, SendCreated, SendFails, SendPrompt, StopTurn
  <1>5. CASE SelectModel
    BY <1>5, HomeStays DEF SelectModel, store
  <1>6. CASE ClosePanel
    BY <1>6, HomeStays DEF ClosePanel
  <1>7. ASSUME NEW i \in Sends, SendAppended(i)
        PROVE  Home'
    <2>1. UNCHANGED perms /\ UNCHANGED <<sessionId, generation>>
      BY <1>7 DEF SendAppended, Starts, agent_start, bridge, perms
    <2>2. CASE sessionId = 0 /\ start = 0
      <3>1. PICK r \in Runs : Starts(r)
        BY <1>7, <2>2 DEF SendAppended
      <3> QED
        BY <2>1, <2>2, <3>1, HomeStarts
    <2>3. CASE ~(sessionId = 0 /\ start = 0)
      BY <1>7, <2>1, <2>3, HomeStays DEF SendAppended
    <2> QED
      BY <2>2, <2>3
  <1> QED
    BY <1>1, <1>2, <1>3, <1>4, <1>5, <1>6, <1>7 DEF Clicks

LEMMA HomeNext ==
    ASSUME IInv, Home, [Next]_vars
    PROVE  Home'
  <1>1. Grows
    BY StepGrows
  <1>2. CASE Clicks
    BY <1>1, <1>2, HomeClicks
  <1>3. CASE AnswerArrives \/ \E d \in Decision : Decide(d)
    BY <1>1, <1>3, HomeStays DEF AnswerArrives, Decide
  <1>4. ASSUME NEW r \in Runs, (Progress(r) /\ UNCHANGED chat) \/ Agent(r)
        PROVE  Home'
    BY <1>1, <1>4, HomeStays DEF Agent, chat, store
  <1>5. ASSUME NEW r \in Runs, Continuation(r) \/ CallFails(r)
        PROVE  Home'
    BY <1>1, <1>5, HomeContinues
  <1>6. ASSUME NEW r \in Runs, Breaks(r) \/ EventArrives(r)
        PROVE  Home'
    BY <1>1, <1>6, HomeStays DEF Breaks, EventArrives, store
  <1>7. ASSUME NEW r \in Runs, NEW t \in Tools, PermissionShown(r, t)
        PROVE  Home'
    BY <1>1, <1>7, HomeStays DEF PermissionShown
  <1>8. CASE UNCHANGED vars
    BY <1>1, <1>8, HomeStays DEF vars, chat, store
  <1> QED
    BY <1>2, <1>3, <1>4, <1>5, <1>6, <1>7, <1>8 DEF Next, User, Store, Clicks

\* The session that takes the store's prompts was started since the user last
\* switched the conversation, the agent or the persona: a start in flight across
\* newThread, openThread, selectAgent and selectPersona is never bound
\* (sessionStartGeneration), however many sends and rebuilds are under way.
THEOREM SessionStaysHome == Spec => []SessionAtHome
  <1>1. Init => Home
    <2> SUFFICES ASSUME Init PROVE Home
      OBVIOUS
    <2>1. \A r \in Runs : CallHome(r)
      BY DEF Init, NoCall, CallHome
    <2> QED
      BY <2>1 DEF Init, Home, SessionAtHome
  <1>2. IInv /\ Home /\ [Next]_vars => Home'
    BY HomeNext
  <1>3. Home => SessionAtHome
    BY DEF Home
  <1> QED
    BY <1>1, <1>2, <1>3, InvariantKept, PTL DEF Spec

=============================================================================
