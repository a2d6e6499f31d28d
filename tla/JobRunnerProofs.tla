--------------------------- MODULE JobRunnerProofs ---------------------------
(***************************************************************************)
(* Safety proofs for JobRunner, for every set of jobs, every configuration *)
(* of them and every number of manual triggers, clock ticks and faults.    *)
(***************************************************************************)
EXTENDS JobRunner, TLAPS, FiniteSetTheorems, WellFoundedInduction

(***************************************************************************)
(* What each phase of a task implies about what the task holds.            *)
(***************************************************************************)
Shape ==
    /\ pc[Runner] \notin Away => todo # <<>>
    /\ \A p \in Task :
          /\ pc[p] \in {"child", "query"} \cup Recording => run[p] \in RunRecord
          /\ pc[p] \in Executing => guard[p] # None
          /\ pc[p] \in Away \cup Deciding => guard[p] = None
    /\ \A m \in Manual :
          /\ pc[m] \notin {"delay", "idle"} \cup Deciding
          /\ pc[m] \in Recording => guard[m] # None

(***************************************************************************)
(* SuccessesDelivered and PrereqsDelivered are not inductive: a verdict    *)
(* is made before it is recorded, and the gate opens before the job is     *)
(* reserved.  History adds what holds in between.                          *)
(***************************************************************************)
Cleared(j) ==
    LET tz == gate_timezone(Config[j].schedule)
    IN  \A a \in Config[j].after : \E t \in delivered[a] :
            date_in_zone(t, tz) = date_in_zone(gate_at, tz)

VerdictsDelivered ==
    \A p \in Task : pc[p] \in Recording /\ run[p].status = "succeeded" =>
        guard[p] # None /\ run[p].last_run \in delivered[guard[p]]

GateHonoured ==
    /\ pc[Runner] = "reserve" => Cleared(Head(todo))
    /\ guard[Runner] # None => Cleared(guard[Runner])

-----------------------------------------------------------------------------
(* The schedule operators.                                                 *)

\* The search over candidate days finds one of them, or nothing.
LEMMA FirstResult ==
    ASSUME NEW S, NEW P(_)
    PROVE  First(S, P) \in S \cup {None}
  BY DEF First

\* A wall-clock reading is resolved to an instant that shows it, and no
\* earlier instant does; a reading that is not resolved is shown by none.
\* So an `at` time that a daylight-saving change repeats fires once.
THEOREM ResolveLocalCorrect ==
    ASSUME NEW reading \in Int, NEW tz \in Zone
    PROVE  LET u == resolve_local(reading, tz)
               Shows(v) == v + offset(v, tz) = reading
           IN  /\ u # None => u \in Int /\ Shows(u)
                              /\ \A v \in Int : Shows(v) => u <= v
               /\ u = None => \A v \in Int : ~ Shows(v)
  BY ScheduleAssumption DEF resolve_local, offset, Zone

LEMMA DateType ==
    ASSUME NEW t \in Int, NEW tz \in Zone
    PROVE  date_in_zone(t, tz) \in Int
  BY ScheduleAssumption DEF date_in_zone, offset, Zone

LEMMA FireOnType ==
    ASSUME NEW date \in Int, NEW s \in AtSchedule
    PROVE  fire_on(date, s) \in Int \cup {None}
  BY ScheduleAssumption
     DEF fire_on, resolve_local, AtSchedule, Zone

LEMMA MostRecentFireType ==
    ASSUME NEW t \in Int, NEW s \in AtSchedule
    PROVE  most_recent_fire(t, s) \in Int \cup {None}
<1> DEFINE today == date_in_zone(t, s.timezone)
           fire_(d) == fire_on(today - d, s)
           good(d) == fire_(d) # None /\ fire_(d) <= t
           hit == First(SearchDays, good)
<1>1. today \in Int
  BY DateType DEF AtSchedule
<1>2. hit \in SearchDays \cup {None}
  BY FirstResult
<1>3. \A d \in SearchDays : fire_(d) \in Int \cup {None}
  BY <1>1, FireOnType DEF SearchDays
<1>4. most_recent_fire(t, s) = IF hit = None THEN None ELSE fire_(hit)
  BY DEF most_recent_fire
<1> QED
  BY <1>2, <1>3, <1>4

-----------------------------------------------------------------------------
(* The after-graph.                                                        *)

\* Every non-empty set of numbers has a least member: what induction over the
\* steps of a walk rests on.
LEMMA LeastNumber ==
    ASSUME NEW T \in SUBSET Nat, T # {}
    PROVE  \E n \in T : \A m \in T : n <= m
<1>1. IsWellFoundedOn(OpToRel(<, Nat), Nat)
  BY NatLessThanWellFounded
<1>2. PICK n \in T : \A m \in T : ~ (<<m, n>> \in OpToRel(<, Nat))
  BY <1>1, WFMin, Zenon
<1>3. \A m \in T : ~ (m < n)
  BY <1>2 DEF OpToRel
<1> QED
  BY <1>3

\* A chain of m prerequisites from j to x.
Chain(path, j, x, m, after) ==
    /\ path[0] = j /\ path[m] = x
    /\ \A i \in 0..(m - 1) :
          path[i] \in DOMAIN after /\ path[i + 1] \in after[path[i]]

\* Such a chain exists among the names that an `after` list may hold.
Leads(j, x, m, after, Name) ==
    \E path \in [0..m -> Name] : Chain(path, j, x, m, after)

\* One step of the walk.
Walked(g, n, j, after) ==
    IF n = 0 THEN after[j]
    ELSE g[n - 1] \cup UNION {after[x] : x \in g[n - 1] \cap DOMAIN after}

\* The recursive definition of the walk has a solution.
LEMMA WalkExists ==
    ASSUME NEW j, NEW after, NEW n \in Nat
    PROVE  \E g : g = [i \in 0..n |-> Walked(g, i, j, after)]
<1> DEFINE Has(m) == \E g : g = [i \in 0..m |-> Walked(g, i, j, after)]
           T == {m \in Nat : ~ Has(m)}
<1> SUFFICES ASSUME T # {} PROVE FALSE
  OBVIOUS
<1>1. PICK m \in T : \A k \in T : m <= k
  BY LeastNumber
<1>2. Has(0)
  <2> DEFINE g == [i \in 0..0 |-> after[j]]
  <2>1. g = [i \in 0..0 |-> Walked(g, i, j, after)]
    BY DEF Walked
  <2> QED
    BY <2>1
<1>3. m \in Nat /\ m # 0 /\ ~ Has(m)
  BY <1>2
<1>4. Has(m - 1)
  <2>1. m - 1 \in Nat /\ ~ (m <= m - 1)
    BY <1>3
  <2> QED
    BY <1>1, <2>1
<1>5. PICK g : g = [i \in 0..(m - 1) |-> Walked(g, i, j, after)]
  BY <1>4
<1> DEFINE h == [i \in 0..m |-> IF i < m THEN g[i] ELSE Walked(g, m, j, after)]
<1>6. ASSUME NEW i \in 0..m PROVE h[i] = Walked(h, i, j, after)
  <2>1. i # 0 => h[i - 1] = g[i - 1]
    BY <1>3
  <2>2. Walked(h, i, j, after) = Walked(g, i, j, after)
    BY <2>1 DEF Walked
  <2>3. h[i] = Walked(g, i, j, after)
    BY <1>3, <1>5
  <2> QED
    BY <2>2, <2>3
<1>7. h = [i \in 0..m |-> Walked(h, i, j, after)]
  BY <1>6
<1> QED
  BY <1>3, <1>7

\* A chain is one prerequisite of j ...
LEMMA LeadsOne ==
    ASSUME NEW Name, NEW Known \in SUBSET Name, NEW after \in [Known -> SUBSET Name],
           NEW j \in Known, NEW x
    PROVE  Leads(j, x, 1, after, Name) <=> x \in after[j]
<1>1. ASSUME Leads(j, x, 1, after, Name) PROVE x \in after[j]
  <2>1. PICK path \in [0..1 -> Name] : Chain(path, j, x, 1, after)
    BY <1>1 DEF Leads
  <2>2. 0 \in 0..(1 - 1) /\ 0 + 1 = 1
    OBVIOUS
  <2> QED
    BY <2>1, <2>2 DEF Chain
<1>2. ASSUME x \in after[j] PROVE Leads(j, x, 1, after, Name)
  <2> DEFINE path == [i \in 0..1 |-> IF i = 0 THEN j ELSE x]
  <2>1. path \in [0..1 -> Name] /\ path[0] = j /\ path[1] = x
    BY <1>2
  <2>2. \A i \in 0..(1 - 1) : i = 0 /\ i + 1 = 1
    OBVIOUS
  <2>3. Chain(path, j, x, 1, after)
    BY <1>2, <2>1, <2>2 DEF Chain
  <2> QED
    BY <2>1, <2>3 DEF Leads
<1> QED
  BY <1>1, <1>2

\* ... or a shorter chain and one prerequisite more.
LEMMA LeadsMore ==
    ASSUME NEW Name, NEW Known \in SUBSET Name, NEW after \in [Known -> SUBSET Name],
           NEW j \in Known, NEW m \in Nat, NEW x
    PROVE  Leads(j, x, m + 1, after, Name)
             <=> \E y \in Known : Leads(j, y, m, after, Name) /\ x \in after[y]
<1>1. ASSUME Leads(j, x, m + 1, after, Name)
      PROVE  \E y \in Known : Leads(j, y, m, after, Name) /\ x \in after[y]
  <2>1. PICK path \in [0..(m + 1) -> Name] : Chain(path, j, x, m + 1, after)
    BY <1>1 DEF Leads
  <2>2. /\ path[0] = j /\ path[m + 1] = x
        /\ \A i \in 0..m : path[i] \in Known /\ path[i + 1] \in after[path[i]]
    BY <2>1 DEF Chain
  <2> DEFINE short == [i \in 0..m |-> path[i]]
  <2>3. short \in [0..m -> Name] /\ \A i \in 0..m : short[i] = path[i]
    BY <2>1
  <2> HIDE DEF short
  <2>4. \A i \in 0..(m - 1) : i \in 0..m /\ i + 1 \in 0..m
    OBVIOUS
  <2>5. 0 \in 0..m /\ m \in 0..m
    OBVIOUS
  <2>6. Chain(short, j, path[m], m, after)
    BY <2>2, <2>3, <2>4, <2>5 DEF Chain
  <2> QED
    BY <2>2, <2>3, <2>5, <2>6 DEF Leads
<1>2. ASSUME NEW y \in Known, Leads(j, y, m, after, Name), x \in after[y]
      PROVE  Leads(j, x, m + 1, after, Name)
  <2>1. PICK path \in [0..m -> Name] : Chain(path, j, y, m, after)
    BY <1>2 DEF Leads
  <2>2. /\ path[0] = j /\ path[m] = y
        /\ \A i \in 0..(m - 1) : path[i] \in Known /\ path[i + 1] \in after[path[i]]
    BY <2>1 DEF Chain
  <2> DEFINE long == [i \in 0..(m + 1) |-> IF i <= m THEN path[i] ELSE x]
  <2>3. /\ long \in [0..(m + 1) -> Name]
        /\ long[m + 1] = x
        /\ \A i \in 0..m : long[i] = path[i]
    BY <1>2, <2>1
  <2> HIDE DEF long
  <2>4. ASSUME NEW i \in 0..m
        PROVE  long[i] \in Known /\ long[i + 1] \in after[long[i]]
    <3>1. CASE i = m
      BY <1>2, <2>2, <2>3, <3>1
    <3>2. CASE i # m
      <4>1. i \in 0..(m - 1) /\ i + 1 \in 0..m
        BY <3>2
      <4> QED
        BY <2>2, <2>3, <4>1
    <3> QED
      BY <3>1, <3>2
  <2>5. (m + 1) - 1 = m /\ 0 \in 0..m
    OBVIOUS
  <2>6. Chain(long, j, x, m + 1, after)
    BY <2>2, <2>3, <2>4, <2>5 DEF Chain
  <2> QED
    BY <2>3, <2>6 DEF Leads
<1> QED
  BY <1>1, <1>2

\* A chain that visits a job twice can be cut short.
LEMMA LeadsLess ==
    ASSUME NEW Name, NEW after, NEW j, NEW x, NEW m \in Nat,
           NEW path \in [0..m -> Name], Chain(path, j, x, m, after),
           NEW a \in 0..(m - 1), NEW b \in 0..(m - 1), a < b, path[a] = path[b]
    PROVE  Leads(j, x, m - (b - a), after, Name)
<1> DEFINE cut == b - a
           n == m - cut
           short == [i \in 0..n |-> IF i <= a THEN path[i] ELSE path[i + cut]]
<1>1. cut \in Nat /\ cut > 0 /\ n \in Nat /\ a < n /\ n + cut = m
  OBVIOUS
<1>2. /\ path[0] = j /\ path[m] = x
      /\ \A i \in 0..(m - 1) :
            path[i] \in DOMAIN after /\ path[i + 1] \in after[path[i]]
  BY DEF Chain
<1>3. a + cut = b
  OBVIOUS
<1> HIDE DEF cut, n
<1>4. /\ \A i \in 0..n : i <= a => short[i] = path[i]
      /\ \A i \in 0..n : ~ (i <= a) => short[i] = path[i + cut]
      /\ \A i \in 0..n : i \in 0..m /\ i + cut \in 0..m
  BY <1>1
<1>5. short \in [0..n -> Name]
  BY <1>1, <1>4
<1> HIDE DEF short
<1>6. short[0] = j /\ short[n] = x
  BY <1>1, <1>2, <1>4
<1>7. ASSUME NEW i \in 0..(n - 1)
      PROVE  short[i] \in DOMAIN after /\ short[i + 1] \in after[short[i]]
  <2>1. i \in 0..n /\ i + 1 \in 0..n /\ i \in 0..(m - 1) /\ i + cut \in 0..(m - 1)
    BY <1>1
  <2>2. CASE i + 1 <= a
    BY <1>2, <1>4, <2>1, <2>2
  <2>3. CASE i = a
    <3>1. short[i] = path[i + cut] /\ short[i + 1] = path[(i + cut) + 1]
      BY <1>1, <1>3, <1>4, <2>1, <2>3
    <3> QED
      BY <1>2, <2>1, <3>1
  <2>4. CASE a < i
    <3>1. short[i] = path[i + cut] /\ short[i + 1] = path[(i + cut) + 1]
      BY <1>1, <1>4, <2>1, <2>4
    <3> QED
      BY <1>2, <2>1, <3>1
  <2> QED
    BY <2>2, <2>3, <2>4
<1>8. Chain(short, j, x, n, after)
  BY <1>6, <1>7 DEF Chain
<1> QED
  BY <1>5, <1>8 DEF Leads, n, cut

\* A chain from j back to j need not be longer than there are jobs.
LEMMA ShortCycle ==
    ASSUME NEW Name, NEW Known \in SUBSET Name, NEW after \in [Known -> SUBSET Name],
           IsFiniteSet(Known), NEW j \in Known,
           NEW l \in Nat \ {0}, Leads(j, j, l, after, Name)
    PROVE  \E m \in 1..Cardinality(Known) : Leads(j, j, m, after, Name)
<1> DEFINE T == {m \in Nat \ {0} : Leads(j, j, m, after, Name)}
<1>1. PICK m \in T : \A k \in T : m <= k
  <2>1. T \in SUBSET Nat /\ l \in T
    OBVIOUS
  <2> QED
    BY <2>1, LeastNumber
<1>2. PICK path \in [0..m -> Name] : Chain(path, j, j, m, after)
  BY DEF Leads
<1>3. m \in Nat /\ m # 0 /\ Leads(j, j, m, after, Name)
  OBVIOUS
<1> DEFINE visit == [i \in 0..(m - 1) |-> path[i]]
<1>4. visit \in [0..(m - 1) -> Known]
  BY <1>2, <1>3 DEF Chain
<1>5. ASSUME NEW a \in 0..(m - 1), NEW b \in 0..(m - 1), a < b, path[a] = path[b]
      PROVE  FALSE
  <2>1. Leads(j, j, m - (b - a), after, Name)
    BY <1>2, <1>3, <1>5, LeadsLess
  <2>2. m - (b - a) \in Nat \ {0} /\ ~ (m <= m - (b - a))
    BY <1>3, <1>5
  <2> QED
    BY <1>1, <2>1, <2>2
<1>6. \A a, b \in 0..(m - 1) : visit[a] = visit[b] => a = b
  <2> SUFFICES ASSUME NEW a \in 0..(m - 1), NEW b \in 0..(m - 1), path[a] = path[b]
               PROVE  a = b
    OBVIOUS
  <2>1. ~ (a < b) /\ ~ (b < a)
    BY <1>5
  <2> QED
    BY <1>3, <2>1
<1> HIDE DEF visit
<1>7. visit \in Injection(0..(m - 1), Known)
  BY <1>4, <1>6 DEF Injection, IsInjective
<1>8. Cardinality(0..(m - 1)) <= Cardinality(Known)
  BY <1>7, FS_Injection
<1>9. Cardinality(0..(m - 1)) = m
  BY <1>3, FS_Interval
<1>10. Cardinality(Known) \in Nat
  BY FS_CardinalityType
<1> QED
  BY <1>3, <1>8, <1>9, <1>10

\* validate_after accepts a job exactly if its prerequisites are known and no
\* chain of prerequisites of any length leads from the job back to it.  The
\* walk gives up after as many steps as there are jobs; a shortest cycle is not
\* longer, so none is overlooked, and a shared prerequisite is not taken for one.
THEOREM ValidateAfterCorrect ==
    ASSUME NEW Name, NEW Known \in SUBSET Name, NEW after \in [Known -> SUBSET Name],
           IsFiniteSet(Known), NEW j \in Known
    PROVE  validate_after(j, after) <=>
               /\ after[j] \subseteq Known
               /\ \A m \in Nat \ {0} : ~ Leads(j, j, m, after, Name)
<1> DEFINE K == Cardinality(Known)
           walk == CHOOSE g : g = [n \in 0..K |-> Walked(g, n, j, after)]
           Within(x, n) == \E m \in 1..(n + 1) : Leads(j, x, m, after, Name)
           Good(n) == \A x : x \in walk[n] <=> Within(x, n)
           T == {n \in 0..K : ~ Good(n)}
<1>0. K \in Nat /\ DOMAIN after = Known
  BY FS_CardinalityType
<1>1. after_walk(j, after) = walk[K]
  BY <1>0 DEF after_walk, Walked
<1>2. walk = [n \in 0..K |-> Walked(walk, n, j, after)]
  BY <1>0, WalkExists
<1> HIDE DEF walk, K
<1>3. T = {}
  <2> SUFFICES ASSUME T # {} PROVE FALSE
    OBVIOUS
  <2>1. T \in SUBSET Nat
    BY <1>0
  <2>2. PICK n \in T : \A m \in T : n <= m
    BY <2>1, LeastNumber
  <2>3. n \in 0..K /\ n \in Nat /\ ~ Good(n)
    BY <1>0
  <2>4. Good(0)
    <3>1. walk[0] = after[j]
      BY <1>0, <1>2 DEF Walked
    <3>2. \A m \in 1..(0 + 1) : m = 1
      OBVIOUS
    <3>3. 1 \in 1..(0 + 1)
      OBVIOUS
    <3> QED
      BY <3>1, <3>2, <3>3, LeadsOne
  <2>5. n # 0
    BY <2>3, <2>4
  <2>6. n - 1 \in 0..K /\ ~ (n <= n - 1)
    BY <1>0, <2>3, <2>5
  <2>7. Good(n - 1)
    BY <2>2, <2>6
  <2>8. \A x : x \in walk[n] <=> \/ x \in walk[n - 1]
                                  \/ \E y \in Known : y \in walk[n - 1] /\ x \in after[y]
    <3>1. walk[n] = walk[n - 1] \cup UNION {after[y] : y \in walk[n - 1] \cap Known}
      BY <1>0, <1>2, <2>3, <2>5 DEF Walked
    <3> QED
      BY <3>1, Zenon
  <2>9. \A y : y \in walk[n - 1] <=> \E m \in 1..n : Leads(j, y, m, after, Name)
    <3>1. (n - 1) + 1 = n
      BY <2>3
    <3> QED
      BY <2>7, <3>1
  <2>10. \A x : x \in walk[n] <=> Within(x, n)
    <3> TAKE x
    <3>1. ASSUME x \in walk[n] PROVE Within(x, n)
      <4>1. CASE x \in walk[n - 1]
        <5>1. PICK m \in 1..n : Leads(j, x, m, after, Name)
          BY <2>9, <4>1
        <5>2. m \in 1..(n + 1)
          BY <2>3
        <5> QED
          BY <5>1, <5>2
      <4>2. ASSUME NEW y \in Known, y \in walk[n - 1], x \in after[y]
            PROVE  Within(x, n)
        <5>1. PICK m \in 1..n : Leads(j, y, m, after, Name)
          BY <2>9, <4>2
        <5>2. m \in Nat /\ m + 1 \in 1..(n + 1)
          BY <2>3
        <5>3. Leads(j, x, m + 1, after, Name)
          BY <4>2, <5>1, <5>2, LeadsMore
        <5> QED
          BY <5>2, <5>3
      <4> QED
        BY <2>8, <3>1, <4>1, <4>2
    <3>2. ASSUME NEW m \in 1..(n + 1), Leads(j, x, m, after, Name)
          PROVE  x \in walk[n]
      <4>1. CASE m <= n
        <5>1. m \in 1..n
          BY <2>3, <4>1
        <5> QED
          BY <2>8, <2>9, <3>2, <5>1
      <4>2. CASE ~ (m <= n)
        <5>1. m = n + 1 /\ n \in 1..n
          BY <2>3, <2>5, <4>2
        <5>2. PICK y \in Known : Leads(j, y, n, after, Name) /\ x \in after[y]
          BY <2>3, <3>2, <5>1, LeadsMore
        <5> QED
          BY <2>8, <2>9, <5>1, <5>2
      <4> QED
        BY <4>1, <4>2
    <3> QED
      BY <3>1, <3>2
  <2> QED
    BY <2>3, <2>10
<1>4. j \in after_walk(j, after) <=> \E m \in 1..(K + 1) : Leads(j, j, m, after, Name)
  BY <1>0, <1>1, <1>3
<1>5. (\E m \in Nat \ {0} : Leads(j, j, m, after, Name))
        => \E m \in 1..K : Leads(j, j, m, after, Name)
  BY ShortCycle DEF K
<1>6. j \in after_walk(j, after) <=> \E m \in Nat \ {0} : Leads(j, j, m, after, Name)
  <2>1. \A m \in 1..(K + 1) : m \in Nat \ {0}
    BY <1>0
  <2>2. \A m \in 1..K : m \in 1..(K + 1)
    BY <1>0
  <2> QED
    BY <1>4, <1>5, <2>1, <2>2
<1>7. j \in after[j] => Leads(j, j, 1, after, Name)
  BY LeadsOne
<1>8. 1 \in Nat \ {0}
  OBVIOUS
<1> QED
  BY <1>0, <1>6, <1>7, <1>8 DEF validate_after
-----------------------------------------------------------------------------
(* The steps that several actions share.                                   *)

\* The runner's next entry: the rest of the list is shorter, and the phase
\* tells whether it is empty.
LEMMA NextEntryEffect ==
    ASSUME TypeOK, todo # <<>>, NextEntry
    PROVE  /\ todo' \in Seq(Job)
           /\ cloned' \in SUBSET Job
           /\ pc' \in [Task -> Phase]
           /\ pc'[Runner] \in {"idle", "check"}
           /\ pc'[Runner] = "check" => todo' # <<>>
           /\ \A q \in Task : q # Runner => pc'[q] = pc[q]
           /\ gate_at' = None
           /\ fire' = None
<1> DEFINE phase == IF Tail(todo) = <<>> THEN "idle" ELSE "check"
<1>1. /\ todo \in Seq(Job) /\ cloned \in SUBSET Job
      /\ pc \in [Task -> Phase] /\ Runner \in Task
  BY DEF TypeOK, Task
<1>2. /\ todo' = Tail(todo) /\ pc' = [pc EXCEPT ![Runner] = phase]
      /\ cloned' = IF Tail(todo) = <<>> THEN {} ELSE cloned
      /\ gate_at' = None /\ fire' = None
  BY DEF NextEntry, Goto
<1>3. todo' \in Seq(Job)
  BY <1>1, <1>2
<1>4. cloned' \in SUBSET Job
  BY <1>1, <1>2
<1>5. phase \in {"idle", "check"} /\ phase \in Phase
  BY DEF Phase, Away, Deciding
<1>6. phase = "check" => todo' # <<>>
  BY <1>2
<1> HIDE DEF phase
<1>7. /\ pc' \in [Task -> Phase]
      /\ pc'[Runner] = phase
      /\ \A q \in Task : q # Runner => pc'[q] = pc[q]
  BY <1>1, <1>2, <1>5
<1> QED
  BY <1>2, <1>3, <1>4, <1>5, <1>6, <1>7

\* Dropping a guard: the job's reservation goes, the runner moves on and a
\* manual task is over.
LEMMA LeaveEffect ==
    ASSUME TypeOK, Shape, NEW p \in Task, pc[p] \in Executing, Leave(p)
    PROVE  /\ registry' = registry \ {guard[p]}
           /\ guard' = [guard EXCEPT ![p] = None]
           /\ todo' \in Seq(Job)
           /\ cloned' \in SUBSET Job
           /\ pc' \in [Task -> Phase]
           /\ pc'[p] \in Away \cup Deciding
           /\ p # Runner => pc'[p] = "absent"
           /\ \A q \in Task : q # p => pc'[q] = pc[q]
           /\ pc'[Runner] \notin Away => todo' # <<>>
           /\ p = Runner => pc'[p] \in {"idle", "check"} /\ gate_at' = None /\ fire' = None
           /\ p # Runner => UNCHANGED <<todo, gate_at, fire>>
<1>1. CASE p = Runner
  <2>1. todo # <<>> /\ NextEntry
    BY <1>1 DEF Leave, Shape, Executing, Away
  <2> QED
    BY <1>1, <2>1, NextEntryEffect DEF Leave, Away, Deciding
<1>2. CASE p # Runner
  BY <1>2 DEF Leave, Goto, TypeOK, Shape, Task, Phase, Away
<1> QED
  BY <1>1, <1>2

\* Back from record(): a run goes on to its end, a missed fire to the next
\* entry.
LEMMA RecordedEffect ==
    ASSUME TypeOK, Shape, NEW p \in Task, pc[p] \in Recording, Recorded(p)
    PROVE  /\ snap' = [snap EXCEPT ![p] = EmptyFile]
           /\ run' = [run EXCEPT ![p] = None]
           /\ todo' \in Seq(Job)
           /\ cloned' \in SUBSET Job
           /\ pc' \in [Task -> Phase]
           /\ guard[p] # None => pc'[p] = "finish" /\ UNCHANGED <<todo, gate_at, fire>>
           /\ guard[p] = None => /\ p = Runner
                                  /\ pc'[p] \in {"idle", "check"}
                                  /\ gate_at' = None
                                  /\ fire' = None
           /\ \A q \in Task : q # p => pc'[q] = pc[q]
           /\ pc'[Runner] \notin Away => todo' # <<>>
<1>1. CASE guard[p] # None
  BY <1>1 DEF Recorded, Goto, TypeOK, Shape, Task, Phase, Executing, Recording, Away
<1>2. CASE guard[p] = None
  <2>1. p = Runner
    BY <1>2 DEF Shape, Task
  <2>2. todo # <<>> /\ NextEntry
    BY <1>2, <2>1 DEF Recorded, Shape, Recording, Away
  <2> QED
    BY <1>2, <2>1, <2>2, NextEntryEffect DEF Recorded, Away
<1> QED
  BY <1>1, <1>2

\* The job a recording task records is one of the vault's jobs.
LEMMA JobOfType ==
    ASSUME TypeOK, Shape, NEW p \in Task, pc[p] \in Recording
    PROVE  JobOf(p) \in Job
<1>1. CASE guard[p] # None
  BY <1>1 DEF JobOf, TypeOK
<1>2. CASE guard[p] = None
  <2>1. p = Runner /\ todo # <<>>
    BY <1>2 DEF Shape, Task, Recording, Away
  <2>2. Head(todo) \in Job
    BY <2>1 DEF TypeOK
  <2> QED
    BY <1>2, <2>2 DEF JobOf
<1> QED
  BY <1>1, <1>2

\* The record a task persists has the type of a record.
LEMMA EntryType ==
    ASSUME TypeOK, Shape, NEW p \in Task, pc[p] \in Recording,
           NEW records \in [Job -> Record \cup {None}]
    PROVE  /\ Entry(p, records) \in Record
           /\ Updated(p, records) \in [Job -> Record \cup {None}]
<1>1. JobOf(p) \in Job
  BY JobOfType
<1>2. run[p] \in RunRecord
  BY DEF Shape
<1>3. Entry(p, records) \in Record
  BY <1>1, <1>2 DEF Entry, Record, RunRecord
<1> QED
  BY <1>1, <1>3 DEF Updated

\* So has the entry of the history variable.
LEMMA ChronicleType ==
    ASSUME TypeOK, Shape, NEW p \in Task, pc[p] \in Recording
    PROVE  Chronicle(p) \in [Job -> Record \cup {None}]
<1>1. JobOf(p) \in Job
  BY JobOfType
<1>2. run[p] \in RunRecord
  BY DEF Shape
<1>3. \A S \in SUBSET Time : Latest(S) \in Time \cup {None}
  BY DEF Latest
<1>4. Latest(delivered[JobOf(p)]) \in Time \cup {None}
  BY <1>1, <1>3 DEF TypeOK
<1> QED
  BY <1>1, <1>2, <1>4 DEF Chronicle, Record, RunRecord, TypeOK

\* Counting the subprocesses a set of tasks leaves behind.
LEMMA AbandonedType ==
    ASSUME TypeOK, NEW S \in SUBSET Task
    PROVE  Abandoned(S) \in [Job -> Nat]
<1> DEFINE Left(j) == {p \in S : pc[p] = "child" /\ guard[p] = j}
           Count(j) == Cardinality(Left(j))
<1>1. IsFiniteSet(Task)
  BY RunnerAssumption, FS_Singleton, FS_Union DEF Task
<1>2. ASSUME NEW j \in Job PROVE Count(j) \in Nat
  <2>1. IsFiniteSet(Left(j))
    BY <1>1, FS_Subset
  <2> QED
    BY <2>1, FS_CardinalityType
<1>3. Abandoned(S) = [j \in Job |-> orphans[j] + Count(j)]
  BY DEF Abandoned
<1> HIDE DEF Count
<1> QED
  BY <1>2, <1>3 DEF TypeOK

\* An event of the environment takes one off its bound.
LEMMA SpendType ==
    ASSUME TypeOK, NEW fault \in Faults, Spend(fault)
    PROVE  budget' \in [Faults -> Nat]
<1>1. budget[fault] - 1 \in Nat
  BY DEF TypeOK, Spend
<1> QED
  BY <1>1 DEF TypeOK, Spend

\* Deciding a fire appends it to the job's history of decided fires.
LEMMA DecideType ==
    ASSUME TypeOK, NEW j \in Job, Decide(j)
    PROVE  served' \in [Job -> Seq(Int)]
<1>1. CASE fire = None
  BY <1>1 DEF Decide, TypeOK
<1>2. CASE fire # None
  <2>1. Append(served[j], fire) \in Seq(Int)
    BY <1>2 DEF TypeOK
  <2> QED
    BY <1>2, <2>1 DEF Decide, TypeOK
<1> QED
  BY <1>1, <1>2

\* Every way to judge a run gives a status.
LEMMA VerdictType ==
    /\ \A outcome \in Outcomes : \A j, writes :
          refine_agent_outcome(base_status(outcome), j, writes) \in Status
    /\ \A result : evaluate_success_when(result) \in Status
<1>1. ASSUME NEW outcome \in Outcomes PROVE base_status(outcome) \in Status
  BY RunnerAssumption DEF base_status, Status
<1> QED
  BY <1>1 DEF refine_agent_outcome, evaluate_success_when, Status

\* A verdict adds at most the run's own start to what its job delivered.
LEMMA CreditEffect ==
    ASSUME TypeOK, NEW p \in Task, guard[p] \in Job, run[p] \in RunRecord,
           NEW ok, Credit(p, ok)
    PROVE  /\ delivered' \in [Job -> SUBSET Time]
           /\ \A j \in Job : delivered[j] \subseteq delivered'[j]
           /\ ok => run[p].last_run \in delivered'[guard[p]]
<1>1. CASE ok
  <2> DEFINE more == delivered[guard[p]] \cup {run[p].last_run}
  <2>1. delivered' = [delivered EXCEPT ![guard[p]] = more]
    BY <1>1 DEF Credit
  <2>2. more \in SUBSET Time
    BY DEF TypeOK, RunRecord
  <2>3. run[p].last_run \in more /\ delivered[guard[p]] \subseteq more
    OBVIOUS
  <2> HIDE DEF more
  <2> QED
    BY <2>1, <2>2, <2>3 DEF TypeOK
<1>2. CASE ~ ok
  BY <1>2 DEF Credit, TypeOK
<1> QED
  BY <1>1, <1>2

\* Both verdicts on a run only ever add to what has been delivered.
LEMMA JudgeEffect ==
    ASSUME TypeOK, NEW p \in Task, guard[p] \in Job, run[p] \in RunRecord,
           Exit(p) \/ Query(p)
    PROVE  /\ delivered' \in [Job -> SUBSET Time]
           /\ \A j \in Job : delivered[j] \subseteq delivered'[j]
<1>1. \/ \E ok : Credit(p, ok)
      \/ UNCHANGED delivered
  <2>1. CASE Exit(p)
    BY <2>1, Zenon DEF Exit
  <2>2. CASE Query(p)
    BY <2>2, Zenon DEF Query
  <2> QED
    BY <2>1, <2>2
<1> QED
  BY <1>1, CreditEffect DEF TypeOK

-----------------------------------------------------------------------------
(* Type correctness.                                                       *)

LEMMA InitType == Init => TypeOK /\ Shape
<1> SUFFICES ASSUME Init PROVE TypeOK /\ Shape
  OBVIOUS
<1>1. TypeOK
  BY ScheduleAssumption, RunnerAssumption
     DEF Init, TypeOK, EmptyFile, Time, Phase, Away, Task
<1>2. Shape
  BY DEF Init, Shape, Away, Deciding, Recording, Executing, Task
<1> QED
  BY <1>1, <1>2

LEMMA TypeStep ==
    ASSUME TypeOK, Shape, [Next]_vars
    PROVE  TypeOK' /\ Shape'
<1> USE DEF daemon, env, history
<1>1. CASE UNCHANGED vars
  BY <1>1 DEF vars, TypeOK, Shape
<1>2. CASE Tick
  BY <1>2, ScheduleAssumption DEF Tick, TypeOK, Shape, Time
<1>3. CASE RemoveVault \/ AddVault
  <2>1. budget' \in [Faults -> Nat]
    BY <1>3, SpendType DEF RemoveVault, AddVault, Faults, TypeOK
  <2> QED
    BY <1>3, <2>1 DEF RemoveVault, AddVault, TypeOK, Shape
<1>4. ASSUME NEW j \in Job, ToggleEnabled(j)
      PROVE  TypeOK' /\ Shape'
  <2>1. budget' \in [Faults -> Nat]
    BY <1>4, SpendType DEF ToggleEnabled, Faults
  <2>2. enabled' \in [Job -> BOOLEAN]
    BY <1>4, Zenon DEF ToggleEnabled, TypeOK
  <2> QED
    BY <1>4, <2>1, <2>2 DEF ToggleEnabled, TypeOK, Shape
<1>5. ASSUME NEW j \in Job, OrphanExits(j)
      PROVE  TypeOK' /\ Shape'
  <2>1. orphans[j] - 1 \in Nat
    BY <1>5 DEF OrphanExits, TypeOK
  <2> QED
    BY <1>5, <2>1 DEF OrphanExits, TypeOK, Shape
<1>6. CASE Crash
  <2>1. Abandoned(Task) \in [Job -> Nat]
    BY AbandonedType
  <2>2. budget' \in [Faults -> Nat]
    BY <1>6, SpendType DEF Crash, Faults
  <2>3. TypeOK'
    BY <1>6, <2>1, <2>2 DEF Crash, TypeOK, EmptyFile, Phase, Away
  <2>4. Shape'
    BY <1>6 DEF Crash, Shape, Away, Deciding, Recording, Executing, Task
  <2> QED
    BY <2>3, <2>4
<1>7. CASE SuperviseSpawn
  <2>1. TypeOK'
    BY <1>7 DEF SuperviseSpawn, Goto, TypeOK, Phase, Away, Task
  <2>2. Shape'
    BY <1>7, RunnerAssumption
       DEF SuperviseSpawn, Goto, TypeOK, Shape, Away, Deciding, Recording,
           Executing, Task
  <2> QED
    BY <2>1, <2>2
<1>7a. CASE SuperviseAbort
  <2>1. Abandoned({Runner}) \in [Job -> Nat]
    BY AbandonedType DEF Task
  <2>2. TypeOK'
    <3>1. pc' \in [Task -> Phase] /\ guard' \in [Task -> Job \cup {None}]
          /\ run' \in [Task -> RunRecord \cup {None}]
      BY <1>7a DEF SuperviseAbort, Goto, TypeOK, Phase, Away
    <3>2. registry' \in SUBSET Job /\ cloned' \in SUBSET Job /\ todo' \in Seq(Job)
      BY <1>7a DEF SuperviseAbort, TypeOK
    <3> QED
      BY <1>7a, <2>1, <3>1, <3>2 DEF SuperviseAbort, TypeOK
  <2>3. Shape'
    BY <1>7a, RunnerAssumption DEF SuperviseAbort, Goto, TypeOK, Shape, Away,
       Deciding, Recording, Executing, Task
  <2> QED
    BY <2>2, <2>3
<1>8. CASE RunnerStarts \/ PassBegins
  BY <1>8, RunnerAssumption
     DEF RunnerStarts, PassBegins, Goto, TypeOK, Shape, Phase, Away, Deciding,
         Recording, Executing, Task
<1>9. CASE Check
  <2>1. todo # <<>> /\ Head(todo) \in Job
    BY <1>9 DEF Check, Shape, Away, TypeOK
  <2>2. CASE NextEntry
    BY <1>9, <2>1, <2>2, NextEntryEffect, RunnerAssumption
       DEF Check, TypeOK, Shape, Away, Deciding, Recording, Executing, Task
  <2>3. CASE ~ NextEntry
    <3> DEFINE j == Head(todo)
               s == Config[j].schedule
    <3>1. j \in Valid /\ UNCHANGED <<cloned, todo, gate_at>>
      BY <1>9, <2>3 DEF Check
    <3>2. /\ fire' = IF s.kind = "at" THEN most_recent_fire(now, s) ELSE None
          /\ \E next \in {"reserve", "gate"} : Goto(Runner, next)
      BY <1>9, <2>3 DEF Check
    <3>3. s \in Schedule
      BY <2>1, <3>1, RunnerAssumption DEF Valid, JobConfig
    <3>4. s.kind = "at" => s \in AtSchedule
      BY <3>3 DEF Schedule, EverySchedule
    <3>5. now \in Int
      BY DEF TypeOK, Time
    <3>6. fire' \in Int \cup {None}
      BY <3>2, <3>4, <3>5, MostRecentFireType
    <3>7. pc' \in [Task -> Phase]
      BY <3>2 DEF Goto, TypeOK, Phase, Deciding
    <3> QED
      BY <1>9, <2>1, <3>1, <3>2, <3>6, <3>7, RunnerAssumption
         DEF Check, Goto, TypeOK, Shape, Away, Deciding, Recording, Executing,
             Task
  <2> QED
    BY <2>2, <2>3
<1>10. CASE Gate
  <2> DEFINE j == Head(todo)
             decision == evaluate_gate(Config[j].after, Config[j].schedule, file, now)
  <2>1. todo # <<>> /\ j \in Job
    BY <1>10 DEF Gate, Shape, Away, TypeOK
  <2>2. CASE decision = "ready"
    BY <1>10, <2>1, <2>2, RunnerAssumption
       DEF Gate, Goto, TypeOK, Shape, Phase, Away, Deciding, Recording,
           Executing, Task
  <2>3. CASE decision = "blocked"
    BY <1>10, <2>1, <2>3, NextEntryEffect, RunnerAssumption
       DEF Gate, TypeOK, Shape, Away, Deciding, Recording, Executing, Task
  <2>4. CASE decision = "missed"
    <3>1. [last_run |-> now, status |-> "missed"] \in RunRecord
      BY DEF TypeOK, RunRecord, Status
    <3>2. served' \in [Job -> Seq(Int)]
      BY <1>10, <2>1, <2>4, DecideType DEF Gate
    <3> QED
      BY <1>10, <2>1, <2>4, <3>1, <3>2, RunnerAssumption
         DEF Gate, Goto, TypeOK, Shape, Phase, Away, Deciding, Recording,
             Executing, Task
  <2> QED
    BY <1>10, <2>2, <2>3, <2>4 DEF Gate
<1>11. CASE Reserve
  <2> DEFINE j == Head(todo)
  <2>1. todo # <<>> /\ j \in Job
    BY <1>11 DEF Reserve, Shape, Away, TypeOK
  <2>2. CASE NextEntry /\ UNCHANGED <<registry, guard, served>>
    BY <1>11, <2>1, <2>2, NextEntryEffect, RunnerAssumption
       DEF Reserve, TypeOK, Shape, Away, Deciding, Recording, Executing, Task
  <2>3. CASE /\ try_begin_run(Runner, j)
             /\ Goto(Runner, "enter")
             /\ Decide(j)
             /\ UNCHANGED <<cloned, todo, gate_at, fire>>
    <3>1. served' \in [Job -> Seq(Int)]
      BY <2>1, <2>3, DecideType
    <3> QED
      BY <1>11, <2>1, <2>3, <3>1, RunnerAssumption
         DEF Reserve, try_begin_run, Goto, TypeOK, Shape, Phase, Away, Deciding,
             Recording, Executing, Task
  <2> QED
    BY <1>11, <2>2, <2>3 DEF Reserve
<1>12. ASSUME NEW m \in Manual, NEW j \in Job, TriggerJob(m, j)
       PROVE  TypeOK' /\ Shape'
  <2>1. /\ m \in Task /\ m # Runner
        /\ pc' = [pc EXCEPT ![m] = "enter"]
        /\ registry' = registry \cup {j}
        /\ guard' = [guard EXCEPT ![m] = j]
        /\ UNCHANGED <<runner_started, cloned, todo, run, snap, now, live,
                       enabled, orphans, file, history>>
    BY <1>12, RunnerAssumption DEF TriggerJob, try_begin_run, Goto, Task
  <2>2. budget' \in [Faults -> Nat]
    BY <1>12 DEF TriggerJob, Spend, TypeOK, Faults
  <2>3. TypeOK'
    BY <2>1, <2>2 DEF TypeOK, history, Phase, Executing
  <2>4. Shape'
    BY <2>1, RunnerAssumption
       DEF TypeOK, Shape, history, Away, Deciding, Recording, Executing, Task
  <2> QED
    BY <2>3, <2>4
<1>13. ASSUME NEW p \in Task, WriteFails(p)
       PROVE  TypeOK' /\ Shape'
  <2>1. pc[p] \in Recording /\ Recorded(p)
    BY <1>13 DEF WriteFails, Recording
  <2>2. budget' \in [Faults -> Nat]
    BY <1>13, SpendType DEF WriteFails, Faults
  <2>3. EmptyFile \in [Job -> Record \cup {None}]
    BY DEF EmptyFile
  <2>4. TypeOK'
    BY <1>13, <2>1, <2>2, <2>3, RecordedEffect DEF WriteFails, TypeOK
  <2>5. Shape'
    BY <1>13, <2>1, RecordedEffect, RunnerAssumption
       DEF WriteFails, TypeOK, Shape, Away, Deciding, Recording, Executing, Task
  <2> QED
    BY <2>4, <2>5
<1>14. ASSUME NEW p \in Task, EnterNoVault(p) \/ Finish(p)
       PROVE  TypeOK' /\ Shape'
  <2>1. pc[p] \in Executing /\ Leave(p)
    BY <1>14 DEF EnterNoVault, Finish, Executing
  <2>2. UNCHANGED <<runner_started, run, snap, env, file, served, delivered,
                    ledger>>
    BY <1>14 DEF EnterNoVault, Finish
  <2>3. TypeOK'
    BY <2>1, <2>2, LeaveEffect DEF TypeOK
  <2>4. Shape'
    <3>1. pc'[Runner] \notin Away => todo' # <<>>
      BY <2>1, LeaveEffect
    <3>2. /\ pc'[p] \in Away \cup Deciding
          /\ p # Runner => pc'[p] = "absent"
          /\ \A q \in Task : q # p => pc'[q] = pc[q]
          /\ guard' = [guard EXCEPT ![p] = None]
      BY <2>1, LeaveEffect
    <3>3. guard'[p] = None /\ \A q \in Task : q # p => guard'[q] = guard[q]
      BY <3>2 DEF TypeOK
    <3> QED
      BY <2>2, <3>1, <3>2, <3>3, RunnerAssumption
         DEF Shape, Away, Deciding, Recording, Executing, Task
  <2> QED
    BY <2>3, <2>4
<1>15. ASSUME NEW p \in Task, EnterSpawn(p)
       PROVE  TypeOK' /\ Shape'
  <2>1. PICK next \in {"child", "query", "load"} : Goto(p, next)
    BY <1>15 DEF EnterSpawn, AfterChild
  <2>2. run' = [run EXCEPT ![p] = [last_run |-> now, status |-> "failed"]]
    BY <1>15 DEF EnterSpawn
  <2>3. [last_run |-> now, status |-> "failed"] \in RunRecord
    BY DEF TypeOK, RunRecord, Status
  <2>4. TypeOK'
    BY <1>15, <2>1, <2>2, <2>3
       DEF EnterSpawn, Goto, TypeOK, Phase, Executing, Recording
  <2>5. Shape'
    BY <1>15, <2>1, <2>2, <2>3, RunnerAssumption
       DEF EnterSpawn, Goto, TypeOK, Shape, Away, Deciding, Recording,
           Executing, Task
  <2> QED
    BY <2>4, <2>5
<1>16. ASSUME NEW p \in Task, Exit(p) \/ Query(p)
       PROVE  TypeOK' /\ Shape'
  <2>1. pc[p] \in {"child", "query"} /\ guard[p] \in Job
    BY <1>16 DEF Exit, Query, TypeOK, Shape, Executing
  <2>2. run[p] \in RunRecord
    BY <2>1 DEF Shape
  <2>3. PICK status \in Status : run' = [run EXCEPT ![p].status = status]
    <3>1. CASE Exit(p)
      BY <3>1, VerdictType DEF Exit
    <3>2. CASE Query(p)
      <4>1. "failed" \in Status
        BY DEF Status
      <4> QED
        BY <3>2, <4>1, VerdictType DEF Query
    <3> QED
      BY <1>16, <3>1, <3>2
  <2>4. [run[p] EXCEPT !.status = status] \in RunRecord
    BY <2>2 DEF RunRecord
  <2>5. run' = [run EXCEPT ![p] = [run[p] EXCEPT !.status = status]]
    BY <2>3
  <2>6. delivered' \in [Job -> SUBSET Time]
    BY <1>16, <2>1, <2>2, JudgeEffect
  <2>7. PICK next \in {"query", "load"} : Goto(p, next)
    BY <1>16 DEF Exit, Query, AfterChild
  <2>8. UNCHANGED <<registry, runner_started, cloned, todo, guard, snap, env,
                    file, gate_at, fire, served, ledger>>
    BY <1>16 DEF Exit, Query
  <2>9. TypeOK'
    BY <2>4, <2>5, <2>6, <2>7, <2>8
       DEF Goto, TypeOK, Phase, Executing, Recording
  <2>10. Shape'
    BY <2>1, <2>4, <2>5, <2>7, <2>8, RunnerAssumption
       DEF Goto, TypeOK, Shape, Away, Deciding, Recording, Executing, Task
  <2> QED
    BY <2>9, <2>10
<1>17. ASSUME NEW p \in Task, Load(p) \/ Truncate(p)
       PROVE  TypeOK' /\ Shape'
  <2>1. EmptyFile \in [Job -> Record \cup {None}]
    BY DEF EmptyFile
  <2>2. TypeOK'
    BY <1>17, <2>1 DEF Load, Truncate, Goto, TypeOK, Phase, Recording
  <2>3. Shape'
    BY <1>17, RunnerAssumption
       DEF Load, Truncate, Goto, TypeOK, Shape, Away, Deciding, Recording,
           Executing, Task
  <2> QED
    BY <2>2, <2>3
<1>18. ASSUME NEW p \in Task, Write(p)
       PROVE  TypeOK' /\ Shape'
  <2>1. pc[p] \in Recording /\ Recorded(p)
    BY <1>18 DEF Write, Recording
  <2>2. EmptyFile \in [Job -> Record \cup {None}]
    BY DEF EmptyFile
  <2>3. file' \in [Job -> Record \cup {None}]
    <3>1. snap[p] \in [Job -> Record \cup {None}]
      BY DEF TypeOK
    <3>2. Updated(p, snap[p]) \in [Job -> Record \cup {None}]
      BY <2>1, <3>1, EntryType
    <3> QED
      BY <1>18, <2>2, <3>2 DEF Write
  <2>4. ledger' \in [Job -> Record \cup {None}]
    BY <1>18, <2>1, ChronicleType DEF Write
  <2>5. TypeOK'
    BY <1>18, <2>1, <2>2, <2>3, <2>4, RecordedEffect DEF Write, TypeOK
  <2>6. Shape'
    BY <1>18, <2>1, RecordedEffect, RunnerAssumption
       DEF Write, TypeOK, Shape, Away, Deciding, Recording, Executing, Task
  <2> QED
    BY <2>5, <2>6
<1> QED
  BY <1>1, <1>2, <1>3, <1>4, <1>5, <1>6, <1>7, <1>7a, <1>8, <1>9, <1>10, <1>11,
     <1>12, <1>13, <1>14, <1>15, <1>16, <1>17, <1>18
     DEF Next, Environment, Supervisor, RunnerStep, RunStep

\* Every variable keeps its type: in particular every record that reaches
\* jobs-state.json has one of the five statuses and a last_success of the
\* clock, whichever way the run ended.
THEOREM TypeCorrect == Spec => []TypeOK
<1>1. Init => TypeOK /\ Shape
  BY InitType
<1>2. TypeOK /\ Shape /\ [Next]_vars => (TypeOK /\ Shape)'
  BY TypeStep
<1> QED
  BY <1>1, <1>2, PTL DEF Spec

-----------------------------------------------------------------------------
(* Reservations.                                                           *)

\* The registry mirrors the guards, and no two guards are for one job.
Mirrored ==
    /\ registry = {guard[p] : p \in Task} \ {None}
    /\ \A p, q \in Task : guard[p] = guard[q] /\ guard[p] # None => p = q

\* try_begin_run by a task without a guard.
LEMMA BeginEffect ==
    ASSUME TypeOK, Mirrored, NEW p \in Task, NEW j \in Job, guard[p] = None,
           try_begin_run(p, j)
    PROVE  Mirrored'
<1>1. /\ guard' \in [Task -> Job \cup {None}]
      /\ guard'[p] = j
      /\ \A q \in Task : q # p => guard'[q] = guard[q]
  BY DEF TypeOK, try_begin_run
<1>2. \A q \in Task : guard[q] # j
  BY RunnerAssumption DEF Mirrored, try_begin_run
<1>3. registry' = {guard'[q] : q \in Task} \ {None}
  <2>1. registry' = registry \cup {j}
    BY DEF try_begin_run
  <2> QED
    BY <1>1, <2>1, RunnerAssumption DEF Mirrored
<1>4. \A q, r \in Task : guard'[q] = guard'[r] /\ guard'[q] # None => q = r
  BY <1>1, <1>2 DEF Mirrored
<1> QED
  BY <1>3, <1>4 DEF Mirrored

\* Dropping the guard of one task.
LEMMA ReleaseEffect ==
    ASSUME TypeOK, Mirrored, NEW p \in Task,
           registry' = registry \ {guard[p]},
           guard' = [guard EXCEPT ![p] = None]
    PROVE  Mirrored'
<1>1. /\ guard'[p] = None
      /\ \A q \in Task : q # p => guard'[q] = guard[q]
  BY DEF TypeOK
<1>2. registry' = {guard'[q] : q \in Task} \ {None}
  BY <1>1 DEF Mirrored
<1>3. \A q, r \in Task : guard'[q] = guard'[r] /\ guard'[q] # None => q = r
  BY <1>1 DEF Mirrored
<1> QED
  BY <1>2, <1>3 DEF Mirrored

LEMMA MirroredStep ==
    ASSUME TypeOK, Shape, Mirrored, [Next]_vars
    PROVE  Mirrored'
<1>1. CASE UNCHANGED <<registry, guard>>
  BY <1>1 DEF Mirrored
<1>2. CASE Crash
  <2>1. registry' = {} /\ \A p \in Task : guard'[p] = None
    BY <1>2 DEF Crash
  <2> QED
    BY <2>1 DEF Mirrored
<1>3. CASE SuperviseAbort
  BY <1>3, ReleaseEffect DEF SuperviseAbort, Task
<1>4. CASE Reserve /\ try_begin_run(Runner, Head(todo))
  <2>1. Runner \in Task /\ guard[Runner] = None /\ Head(todo) \in Job
    BY <1>4 DEF Reserve, Shape, TypeOK, Away, Deciding, Task
  <2> QED
    BY <1>4, <2>1, BeginEffect
<1>5. ASSUME NEW m \in Manual, NEW j \in Job, TriggerJob(m, j)
      PROVE  Mirrored'
  <2>1. m \in Task /\ guard[m] = None
    BY <1>5 DEF TriggerJob, Shape, Away, Task
  <2> QED
    BY <1>5, <2>1, BeginEffect DEF TriggerJob
<1>6. ASSUME NEW p \in Task, EnterNoVault(p) \/ Finish(p)
      PROVE  Mirrored'
  BY <1>6, ReleaseEffect DEF EnterNoVault, Finish, Leave
<1>7. \/ UNCHANGED <<registry, guard>>
      \/ Crash
      \/ SuperviseAbort
      \/ Reserve /\ try_begin_run(Runner, Head(todo))
      \/ \E m \in Manual, j \in Job : TriggerJob(m, j)
      \/ \E p \in Task : EnterNoVault(p) \/ Finish(p)
  <2>1. CASE Environment
    BY <2>1, Zenon DEF Environment, Tick, RemoveVault, AddVault, ToggleEnabled,
                OrphanExits, WriteFails, daemon
  <2>2. CASE Supervisor
    BY <2>2, Zenon DEF Supervisor, SuperviseSpawn
  <2>3. CASE RunnerStep
    BY <2>3, Zenon DEF RunnerStep, RunnerStarts, PassBegins, Check, Gate, Reserve
  <2>4. ASSUME NEW p \in Task, RunStep(p)
        PROVE  UNCHANGED <<registry, guard>> \/ EnterNoVault(p) \/ Finish(p)
    BY <2>4, Zenon DEF RunStep, EnterSpawn, Exit, Query, Load, Truncate, Write
  <2>5. CASE UNCHANGED vars
    BY <2>5 DEF vars, daemon
  <2> QED
    BY <2>1, <2>2, <2>3, <2>4, <2>5 DEF Next
<1> QED
  BY <1>1, <1>2, <1>3, <1>4, <1>5, <1>6, <1>7

\* No two tasks, scheduled or manual, ever hold a reservation of one job, and
\* every exit path of a run gives its reservation back.
THEOREM ReservationsExclusive == Spec => []ReservationExclusive
<1> DEFINE Inv == TypeOK /\ Shape /\ Mirrored
<1>1. Init => Inv
  <2>1. Init => Mirrored
    BY DEF Init, Mirrored
  <2> QED
    BY <2>1, InitType
<1>2. Inv /\ [Next]_vars => Inv'
  BY TypeStep, MirroredStep
<1>3. Inv => ReservationExclusive
  BY DEF Shape, Mirrored, ReservationExclusive
<1> QED
  BY <1>1, <1>2, <1>3, PTL DEF Spec

-----------------------------------------------------------------------------
(* Successes.                                                              *)

\* No step takes back a delivery.
LEMMA DeliveredGrows ==
    ASSUME TypeOK, Shape, [Next]_vars
    PROVE  \A j \in Job : delivered[j] \subseteq delivered'[j]
<1>1. CASE UNCHANGED delivered
  BY <1>1
<1>2. ASSUME NEW p \in Task, Exit(p) \/ Query(p)
      PROVE  \A j \in Job : delivered[j] \subseteq delivered'[j]
  <2>1. guard[p] \in Job /\ run[p] \in RunRecord
    BY <1>2 DEF Exit, Query, TypeOK, Shape, Executing
  <2> QED
    BY <1>2, <2>1, JudgeEffect
<1>3. UNCHANGED delivered \/ \E p \in Task : Exit(p) \/ Query(p)
  <2>1. CASE Environment
    BY <2>1, Zenon DEF Environment, Tick, RemoveVault, AddVault, ToggleEnabled,
                OrphanExits, Crash, TriggerJob, WriteFails, history
  <2>2. CASE Supervisor
    BY <2>2, Zenon DEF Supervisor, SuperviseSpawn, SuperviseAbort, history
  <2>3. CASE RunnerStep
    BY <2>3, Zenon DEF RunnerStep, RunnerStarts, PassBegins, Check, Gate,
                Reserve, history
  <2>4. ASSUME NEW p \in Task, RunStep(p)
        PROVE  UNCHANGED delivered \/ Exit(p) \/ Query(p)
    BY <2>4, Zenon DEF RunStep, EnterNoVault, EnterSpawn, Load, Truncate,
                Write, Finish, history
  <2>5. CASE UNCHANGED vars
    BY <2>5 DEF vars, history
  <2> QED
    BY <2>1, <2>2, <2>3, <2>4, <2>5 DEF Next
<1> QED
  BY <1>1, <1>2, <1>3

\* The record a task persists claims no success that was not delivered.
LEMMA UpdatedTrusted ==
    ASSUME TypeOK, Shape, SuccessesDelivered, VerdictsDelivered,
           NEW p \in Task, pc[p] \in Recording
    PROVE  Trusted(Updated(p, snap[p]))
<1> DEFINE job == JobOf(p)
           entry == Entry(p, snap[p])
<1>1. job \in Job
  BY JobOfType
<1>2. snap[p] \in [Job -> Record \cup {None}] /\ Trusted(snap[p])
  BY DEF TypeOK, SuccessesDelivered
<1>3. entry.last_success # None => entry.last_success \in delivered[job]
  <2>1. CASE run[p].status = "succeeded"
    BY <2>1 DEF VerdictsDelivered, JobOf, Entry
  <2>2. CASE run[p].status # "succeeded"
    BY <1>1, <1>2, <2>2 DEF Trusted, Entry
  <2> QED
    BY <2>1, <2>2
<1>4. Updated(p, snap[p]) = [snap[p] EXCEPT ![job] = entry]
  BY DEF Updated
<1> HIDE DEF job, entry
<1> QED
  BY <1>1, <1>2, <1>3, <1>4 DEF Trusted

\* A run judged "succeeded" on its way to the store has just been credited.
LEMMA VerdictSound ==
    ASSUME TypeOK, NEW p \in Task, guard[p] \in Job, run[p] \in RunRecord,
           Exit(p) \/ Query(p),
           pc'[p] \in Recording, run'[p].status = "succeeded"
    PROVE  run'[p].last_run \in delivered'[guard[p]]
<1> DEFINE job == guard[p]
<1>1. CASE Exit(p)
  <2>1. PICK outcome \in Outcomes, writes \in 0..1 :
           /\ run' = [run EXCEPT ![p].status =
                         refine_agent_outcome(base_status(outcome), job, writes)]
           /\ Credit(p, ~ Config[job].success_when /\ Delivers(job, outcome, writes))
    BY <1>1, Zenon DEF Exit
  <2>2. /\ run'[p].status = refine_agent_outcome(base_status(outcome), job, writes)
        /\ run'[p].last_run = run[p].last_run
    BY <2>1 DEF TypeOK, RunRecord
  <2>3. ~ Config[job].success_when
    BY <1>1 DEF Exit, Goto, AfterChild, TypeOK, Recording
  <2>4. Delivers(job, outcome, writes)
    BY <2>2, RunnerAssumption
       DEF refine_agent_outcome, base_status, Delivers
  <2> QED
    BY <2>1, <2>2, <2>3, <2>4, CreditEffect
<1>2. CASE Query(p)
  <2>1. CASE run' = [run EXCEPT ![p].status = "failed"]
    BY <2>1 DEF TypeOK, RunRecord
  <2>2. CASE \E result \in QueryResult :
                /\ run' = [run EXCEPT ![p].status = evaluate_success_when(result)]
                /\ Credit(p, PredicateHolds(result))
    <3>1. PICK result \in QueryResult :
             /\ run' = [run EXCEPT ![p].status = evaluate_success_when(result)]
             /\ Credit(p, PredicateHolds(result))
      BY <2>2
    <3>2. /\ run'[p].status = evaluate_success_when(result)
          /\ run'[p].last_run = run[p].last_run
      BY <3>1 DEF TypeOK, RunRecord
    <3>3. PredicateHolds(result)
      <4>1. ~ result.error
        BY <3>2 DEF evaluate_success_when
      <4>2. result.rows \in 0..2
        BY <4>1 DEF QueryResult
      <4>3. IF result.rows = 1 /\ result.columns = 1 THEN result.truthy
            ELSE result.rows >= 1
        BY <3>2, <4>1 DEF evaluate_success_when
      <4> QED
        BY <4>1, <4>2, <4>3 DEF PredicateHolds
    <3> QED
      BY <3>1, <3>2, <3>3, CreditEffect
  <2> QED
    BY <1>2, <2>1, <2>2, Zenon DEF Query
<1> QED
  BY <1>1, <1>2

Sound == SuccessesDelivered /\ VerdictsDelivered

\* A step that starts no recording and touches no record.
LEMMA QuietStep ==
    ASSUME Sound, UNCHANGED <<file, snap>>,
           \A j \in Job : delivered[j] \subseteq delivered'[j],
           \A p \in Task : pc'[p] \in Recording =>
               pc[p] \in Recording /\ run'[p] = run[p] /\ guard'[p] = guard[p],
           TypeOK
    PROVE  Sound'
<1>1. SuccessesDelivered'
  BY DEF Sound, SuccessesDelivered, Trusted
<1>2. VerdictsDelivered'
  BY DEF Sound, VerdictsDelivered, TypeOK
<1> QED
  BY <1>1, <1>2 DEF Sound

LEMMA SoundStep ==
    ASSUME TypeOK, Shape, Sound, [Next]_vars
    PROVE  Sound'
<1> USE DEF daemon, env, history
<1>0. \A j \in Job : delivered[j] \subseteq delivered'[j]
  BY DeliveredGrows
<1>1. CASE UNCHANGED vars
  BY <1>0, <1>1, QuietStep DEF vars
<1>2. CASE Tick \/ RemoveVault \/ AddVault
  BY <1>0, <1>2, QuietStep DEF Tick, RemoveVault, AddVault
<1>3. ASSUME NEW j \in Job, ToggleEnabled(j) \/ OrphanExits(j)
      PROVE  Sound'
  BY <1>0, <1>3, QuietStep DEF ToggleEnabled, OrphanExits
<1>4. CASE Crash
  <2>1. /\ \A p \in Task : pc'[p] = "absent" /\ snap'[p] = EmptyFile
        /\ UNCHANGED <<file, delivered>>
    BY <1>4 DEF Crash
  <2> QED
    BY <2>1 DEF Sound, SuccessesDelivered, VerdictsDelivered, Trusted,
                EmptyFile, Recording
<1>5. CASE SuperviseSpawn \/ SuperviseAbort
  <2>1. /\ pc'[Runner] \notin Recording
        /\ \A q \in Task : q # Runner => /\ pc'[q] = pc[q]
                                        /\ run'[q] = run[q]
                                        /\ guard'[q] = guard[q]
    BY <1>5 DEF SuperviseSpawn, SuperviseAbort, Goto, TypeOK, Recording, Task
  <2>2. UNCHANGED <<file, snap>>
    BY <1>5 DEF SuperviseSpawn, SuperviseAbort
  <2> QED
    BY <1>0, <2>1, <2>2, QuietStep
<1>6. CASE RunnerStarts \/ PassBegins
  BY <1>0, <1>6, QuietStep
     DEF RunnerStarts, PassBegins, Goto, TypeOK, Recording, Task
<1>7. CASE Check
  <2>1. /\ pc'[Runner] \notin Recording
        /\ \A q \in Task : q # Runner => pc'[q] = pc[q]
    BY <1>7 DEF Check, NextEntry, Goto, TypeOK, Recording, Task
  <2> QED
    BY <1>0, <1>7, <2>1, QuietStep DEF Check
<1>8. CASE Gate
  <2>1. /\ pc'[Runner] \in Recording => run'[Runner].status # "succeeded"
        /\ \A q \in Task : q # Runner => pc'[q] = pc[q] /\ run'[q] = run[q]
    BY <1>8 DEF Gate, NextEntry, Goto, TypeOK, Recording, Task
  <2>2. UNCHANGED <<file, snap, guard, delivered>>
    BY <1>8 DEF Gate
  <2> QED
    BY <2>1, <2>2 DEF Sound, SuccessesDelivered, Trusted, VerdictsDelivered
<1>9. CASE Reserve
  <2>1. /\ pc'[Runner] \notin Recording
        /\ \A q \in Task : q # Runner => pc'[q] = pc[q] /\ guard'[q] = guard[q]
    BY <1>9 DEF Reserve, try_begin_run, NextEntry, Goto, TypeOK, Recording, Task
  <2> QED
    BY <1>0, <1>9, <2>1, QuietStep DEF Reserve
<1>10. ASSUME NEW m \in Manual, NEW j \in Job, TriggerJob(m, j)
       PROVE  Sound'
  <2>1. /\ pc'[m] \notin Recording
        /\ \A q \in Task : q # m => pc'[q] = pc[q] /\ guard'[q] = guard[q]
    BY <1>10 DEF TriggerJob, try_begin_run, Goto, TypeOK, Recording, Task
  <2> QED
    BY <1>0, <1>10, <2>1, QuietStep DEF TriggerJob
<1>11. ASSUME NEW p \in Task, EnterNoVault(p) \/ Finish(p)
       PROVE  Sound'
  <2>1. pc[p] \in Executing /\ Leave(p) /\ UNCHANGED <<file, snap, run>>
    BY <1>11 DEF EnterNoVault, Finish, Executing
  <2>2. /\ pc'[p] \notin Recording
        /\ \A q \in Task : q # p => pc'[q] = pc[q]
        /\ guard' = [guard EXCEPT ![p] = None]
    BY <2>1, LeaveEffect DEF Recording, Away, Deciding
  <2> QED
    BY <1>0, <2>1, <2>2, QuietStep DEF TypeOK
<1>12. ASSUME NEW p \in Task, EnterSpawn(p)
       PROVE  Sound'
  <2>1. /\ run'[p].status = "failed"
        /\ \A q \in Task : q # p => pc'[q] = pc[q] /\ run'[q] = run[q]
    BY <1>12 DEF EnterSpawn, Goto, TypeOK
  <2>2. UNCHANGED <<file, snap, guard, delivered>>
    BY <1>12 DEF EnterSpawn
  <2> QED
    BY <2>1, <2>2 DEF Sound, SuccessesDelivered, Trusted, VerdictsDelivered
<1>13. ASSUME NEW p \in Task, Exit(p) \/ Query(p)
       PROVE  Sound'
  <2>1. guard[p] \in Job /\ run[p] \in RunRecord
    BY <1>13 DEF Exit, Query, TypeOK, Shape, Executing
  <2>2. UNCHANGED <<file, snap, guard>>
    BY <1>13 DEF Exit, Query
  <2>3. \A q \in Task : q # p => pc'[q] = pc[q] /\ run'[q] = run[q]
    <3>1. CASE Exit(p)
      BY <3>1 DEF Exit, Goto, TypeOK
    <3>2. CASE Query(p)
      BY <3>2 DEF Query, Goto, TypeOK
    <3> QED
      BY <1>13, <3>1, <3>2
  <2>4. pc'[p] \in Recording /\ run'[p].status = "succeeded" =>
           run'[p].last_run \in delivered'[guard[p]]
    BY <1>13, <2>1, VerdictSound
  <2>5. SuccessesDelivered'
    BY <1>0, <2>2 DEF Sound, SuccessesDelivered, Trusted
  <2>6. VerdictsDelivered'
    <3> SUFFICES ASSUME NEW q \in Task, pc'[q] \in Recording,
                        run'[q].status = "succeeded"
                 PROVE  guard[q] # None /\ run'[q].last_run \in delivered'[guard[q]]
      BY <2>2 DEF VerdictsDelivered
    <3>1. CASE q = p
      BY <2>1, <2>4, <3>1, RunnerAssumption
    <3>2. CASE q # p
      BY <1>0, <2>3, <3>2 DEF Sound, VerdictsDelivered, TypeOK
    <3> QED
      BY <3>1, <3>2
  <2> QED
    BY <2>5, <2>6 DEF Sound
<1>14. ASSUME NEW p \in Task, Load(p) \/ Truncate(p)
       PROVE  Sound'
  <2>1. /\ \A q \in Task : pc'[q] \in Recording => pc[q] \in Recording
        /\ UNCHANGED <<run, guard, delivered>>
    BY <1>14 DEF Load, Truncate, Goto, TypeOK, Recording
  <2>2. /\ file' \in {file, EmptyFile}
        /\ \A q \in Task : snap'[q] \in {snap[q], file}
    BY <1>14 DEF Load, Truncate, TypeOK
  <2> QED
    BY <2>1, <2>2 DEF Sound, SuccessesDelivered, Trusted, VerdictsDelivered,
                      EmptyFile
<1>15. ASSUME NEW p \in Task, Write(p) \/ WriteFails(p)
       PROVE  Sound'
  <2>1. pc[p] \in Recording /\ Recorded(p) /\ UNCHANGED <<guard, delivered>>
    BY <1>15 DEF Write, WriteFails, Recording
  <2>2. file' \in {file, EmptyFile, Updated(p, snap[p])}
    BY <1>15 DEF Write, WriteFails
  <2>3. Trusted(file')
    BY <2>1, <2>2, UpdatedTrusted DEF Sound, SuccessesDelivered, Trusted,
                                      EmptyFile
  <2>4. /\ \A q \in Task : snap'[q] \in {snap[q], EmptyFile}
        /\ \A q \in Task : pc'[q] \in Recording =>
              pc[q] \in Recording /\ run'[q] = run[q]
    BY <2>1, RecordedEffect DEF TypeOK, Recording
  <2> QED
    BY <2>1, <2>3, <2>4 DEF Sound, SuccessesDelivered, Trusted,
                            VerdictsDelivered, EmptyFile
<1> QED
  BY <1>1, <1>2, <1>3, <1>4, <1>5, <1>6, <1>7, <1>8, <1>9, <1>10, <1>11,
     <1>12, <1>13, <1>14, <1>15
     DEF Next, Environment, Supervisor, RunnerStep, RunStep

\* Every success the store claims was delivered, through unlocked concurrent
\* rewrites of the file, truncated reads, failed writes, aborts and crashes:
\* jobs-state.json loses successes (DurableHistory fails) but invents none.
THEOREM SuccessesAreDelivered == Spec => []SuccessesDelivered
<1> DEFINE Inv == TypeOK /\ Shape /\ Sound
<1>1. Init => Inv
  <2>1. Init => Sound
    BY DEF Init, Sound, SuccessesDelivered, VerdictsDelivered, Trusted,
           EmptyFile, Recording
  <2> QED
    BY <2>1, InitType
<1>2. Inv /\ [Next]_vars => Inv'
  BY TypeStep, SoundStep
<1>3. Inv => SuccessesDelivered
  BY DEF Sound
<1> QED
  BY <1>1, <1>2, <1>3, PTL DEF Spec

-----------------------------------------------------------------------------
(* The same-day gate.                                                      *)

\* An open gate stays open while the runner holds on to the job.
LEMMA ClearedKept ==
    ASSUME TypeOK, NEW j \in Job, Cleared(j), gate_at' = gate_at,
           \A k \in Job : delivered[k] \subseteq delivered'[k]
    PROVE  Cleared(j)'
<1>1. Config[j].after \subseteq Job
  BY RunnerAssumption DEF JobConfig
<1> QED
  BY <1>1 DEF Cleared

\* The verdict "ready" opens the gate.
LEMMA ReadyClears ==
    ASSUME TypeOK, SuccessesDelivered, NEW j \in Job, gate_at' = now,
           evaluate_gate(Config[j].after, Config[j].schedule, file, now) = "ready",
           UNCHANGED delivered
    PROVE  Cleared(j)'
<1> DEFINE tz == gate_timezone(Config[j].schedule)
<1>1. Config[j].after \subseteq Job
  BY RunnerAssumption DEF JobConfig
<1>2. unmet_prereqs(Config[j].after, file, tz, now) = {}
  BY DEF evaluate_gate
<1>3. ASSUME NEW a \in Config[j].after
      PROVE  \E t \in delivered[a] : date_in_zone(t, tz) = date_in_zone(now, tz)
  <2>1. succeeded_on(file[a], date_in_zone(now, tz), tz)
    BY <1>2 DEF unmet_prereqs
  <2>2. file[a].last_success \in delivered[a]
    BY <1>1, <2>1 DEF succeeded_on, SuccessesDelivered, Trusted
  <2> QED
    BY <2>1, <2>2 DEF succeeded_on
<1> QED
  BY <1>3 DEF Cleared

LEMMA GateStep ==
    ASSUME TypeOK, Shape, SuccessesDelivered, GateHonoured, [Next]_vars
    PROVE  GateHonoured'
<1> USE DEF daemon, env, history
<1>0. \A j \in Job : delivered[j] \subseteq delivered'[j]
  BY DeliveredGrows
<1>1. Runner \in Task
  BY DEF Task
<1>2. pc[Runner] \notin Away => Head(todo) \in Job
  BY DEF Shape, TypeOK
<1>3. ASSUME UNCHANGED <<todo, gate_at>>, guard'[Runner] = guard[Runner],
             pc'[Runner] = "reserve" => pc[Runner] = "reserve"
      PROVE  GateHonoured'
  <2>1. pc'[Runner] = "reserve" => Cleared(Head(todo))'
    BY <1>0, <1>2, <1>3, ClearedKept DEF GateHonoured, Away
  <2>2. guard'[Runner] # None => Cleared(guard[Runner])'
    <3>1. guard[Runner] # None => guard[Runner] \in Job
      BY <1>1 DEF TypeOK
    <3> QED
      BY <1>0, <1>3, <3>1, ClearedKept DEF GateHonoured
  <2> QED
    BY <2>1, <2>2 DEF GateHonoured
<1>4. ASSUME guard'[Runner] = None, pc'[Runner] # "reserve"
      PROVE  GateHonoured'
  BY <1>4 DEF GateHonoured
<1>5. CASE UNCHANGED vars
  BY <1>3, <1>5 DEF vars
<1>6. CASE Tick \/ RemoveVault \/ AddVault
  BY <1>3, <1>6 DEF Tick, RemoveVault, AddVault
<1>7. ASSUME NEW j \in Job, ToggleEnabled(j) \/ OrphanExits(j)
      PROVE  GateHonoured'
  BY <1>3, <1>7 DEF ToggleEnabled, OrphanExits
<1>8. CASE Crash
  BY <1>1, <1>4, <1>8 DEF Crash
<1>9. CASE SuperviseSpawn
  BY <1>1, <1>3, <1>9 DEF SuperviseSpawn, Goto, TypeOK
<1>10. CASE SuperviseAbort
  BY <1>1, <1>4, <1>10 DEF SuperviseAbort, Goto, TypeOK
<1>11. CASE RunnerStarts \/ PassBegins
  <2>1. guard'[Runner] = None /\ pc'[Runner] # "reserve"
    BY <1>1, <1>11
       DEF RunnerStarts, PassBegins, Goto, TypeOK, Shape, Away, Deciding
  <2> QED
    BY <1>4, <2>1
<1>12. CASE Check
  <2>1. guard'[Runner] = None
    BY <1>1, <1>12 DEF Check, Shape, Deciding
  <2>2. CASE pc'[Runner] # "reserve"
    BY <1>4, <2>1, <2>2
  <2>3. CASE pc'[Runner] = "reserve"
    <3>1. UNCHANGED todo /\ Config[Head(todo)].after = {}
      BY <1>1, <1>12, <2>3 DEF Check, NextEntry, Goto, TypeOK
    <3>2. Cleared(Head(todo))'
      BY <3>1 DEF Cleared
    <3> QED
      BY <2>1, <3>1, <3>2 DEF GateHonoured
  <2> QED
    BY <2>2, <2>3
<1>13. CASE Gate
  <2>1. guard'[Runner] = None
    BY <1>1, <1>13 DEF Gate, Shape, Deciding
  <2>2. CASE pc'[Runner] # "reserve"
    BY <1>4, <2>1, <2>2
  <2>3. CASE pc'[Runner] = "reserve"
    <3> DEFINE j == Head(todo)
    <3>1. /\ evaluate_gate(Config[j].after, Config[j].schedule, file, now) = "ready"
          /\ gate_at' = now
          /\ UNCHANGED <<todo, delivered>>
      BY <1>1, <1>13, <2>3 DEF Gate, NextEntry, Goto, TypeOK
    <3>2. j \in Job
      BY <1>2, <1>13 DEF Gate, Away
    <3>3. Cleared(j)'
      BY <3>1, <3>2, ReadyClears
    <3> QED
      BY <2>1, <3>1, <3>3 DEF GateHonoured
  <2> QED
    BY <2>2, <2>3
<1>14. CASE Reserve
  <2>1. pc[Runner] = "reserve" /\ guard[Runner] = None
    BY <1>1, <1>14 DEF Reserve, Shape, Deciding
  <2>2. pc'[Runner] # "reserve"
    BY <1>1, <1>14 DEF Reserve, NextEntry, Goto, TypeOK
  <2>3. CASE UNCHANGED guard
    BY <1>4, <2>1, <2>2, <2>3
  <2>4. CASE try_begin_run(Runner, Head(todo)) /\ UNCHANGED <<todo, gate_at>>
    <3>1. guard'[Runner] = Head(todo) /\ Head(todo) \in Job
      BY <1>1, <1>2, <2>1, <2>4 DEF try_begin_run, TypeOK, Away
    <3>2. Cleared(Head(todo))'
      BY <1>0, <2>1, <2>4, <3>1, ClearedKept DEF GateHonoured
    <3> QED
      BY <2>2, <2>4, <3>1, <3>2 DEF GateHonoured
  <2> QED
    BY <1>14, <2>3, <2>4 DEF Reserve
<1>15. ASSUME NEW m \in Manual, NEW j \in Job, TriggerJob(m, j)
       PROVE  GateHonoured'
  BY <1>1, <1>3, <1>15, RunnerAssumption
     DEF TriggerJob, try_begin_run, Goto, TypeOK, Task
<1>16. ASSUME NEW p \in Task, EnterNoVault(p) \/ Finish(p)
       PROVE  GateHonoured'
  <2>1. pc[p] \in Executing /\ Leave(p)
    BY <1>16 DEF EnterNoVault, Finish, Executing
  <2>2. /\ guard' = [guard EXCEPT ![p] = None]
        /\ p = Runner => pc'[p] \in {"idle", "check"}
        /\ p # Runner => UNCHANGED <<todo, gate_at>> /\ pc'[Runner] = pc[Runner]
    BY <1>1, <2>1, LeaveEffect
  <2> QED
    BY <1>1, <1>3, <1>4, <2>2 DEF TypeOK
<1>17. ASSUME NEW p \in Task,
              EnterSpawn(p) \/ Exit(p) \/ Query(p) \/ Load(p) \/ Truncate(p)
       PROVE  GateHonoured'
  <2>1. UNCHANGED <<todo, gate_at, guard>>
    BY <1>17, Zenon DEF EnterSpawn, Exit, Query, Load, Truncate
  <2>2. \E next \in Recording \cup Executing : Goto(p, next)
    BY <1>17 DEF EnterSpawn, Exit, Query, Load, Truncate, AfterChild,
                 Recording, Executing
  <2>3. pc'[Runner] = "reserve" => pc[Runner] = "reserve"
    BY <1>1, <2>2 DEF Goto, TypeOK, Recording, Executing
  <2> QED
    BY <1>3, <2>1, <2>3
<1>18. ASSUME NEW p \in Task, Write(p) \/ WriteFails(p)
       PROVE  GateHonoured'
  <2>1. pc[p] \in Recording /\ Recorded(p) /\ UNCHANGED guard
    BY <1>18 DEF Write, WriteFails, Recording
  <2>2. CASE guard[p] # None
    BY <1>1, <1>3, <2>1, <2>2, RecordedEffect
  <2>3. CASE guard[p] = None
    BY <1>4, <2>1, <2>3, RecordedEffect
  <2> QED
    BY <2>2, <2>3
<1> QED
  BY <1>5, <1>6, <1>7, <1>8, <1>9, <1>10, <1>11, <1>12, <1>13, <1>14, <1>15,
     <1>16, <1>17, <1>18
     DEF Next, Environment, Supervisor, RunnerStep, RunStep

\* No scheduled run of a job with `after` is under way unless each of its
\* prerequisites delivered on the day the gate let it through, whatever manual
\* triggers, removals, crashes and lost writes happen around it.
THEOREM PrerequisitesDelivered == Spec => []PrereqsDelivered
<1> DEFINE Inv == TypeOK /\ Shape /\ Sound /\ GateHonoured
<1>1. Init => Inv
  <2>1. Init => Sound
    BY DEF Init, Sound, SuccessesDelivered, VerdictsDelivered, Trusted,
           EmptyFile, Recording
  <2>2. Init => GateHonoured
    BY DEF Init, GateHonoured, Task
  <2> QED
    BY <2>1, <2>2, InitType
<1>2. Inv /\ [Next]_vars => Inv'
  BY TypeStep, SoundStep, GateStep DEF Sound
<1>3. Inv => PrereqsDelivered
  BY DEF GateHonoured, Cleared, PrereqsDelivered
<1> QED
  BY <1>1, <1>2, <1>3, PTL DEF Spec

=============================================================================
