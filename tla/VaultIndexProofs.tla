-------------------------- MODULE VaultIndexProofs --------------------------
(***************************************************************************)
(* Proofs for VaultIndex, for every finite set of notes and every number   *)
(* of edits, lost reports, failed writes, restarts and concurrent scans.   *)
(***************************************************************************)
EXTENDS VaultIndex, FiniteSetTheorems, TLAPS

Notice == Paths \X Action

-----------------------------------------------------------------------------
(* The feed of changes.                                                    *)

\* A path is among the changes of s; its last change is a.
Tells(s, p) == \E n \in DOMAIN s : s[n][1] = p

LastIs(s, p, a) ==
    \E n \in DOMAIN s :
        /\ s[n] = <<p, a>>
        /\ \A m \in DOMAIN s : m > n => s[m][1] # p

LEMMA AppendFeed ==
    ASSUME NEW s \in Seq(Notice), NEW c \in Notice, NEW p \in Paths, NEW a \in Action
    PROVE  /\ Append(s, c) \in Seq(Notice)
           /\ Tells(Append(s, c), p) <=> Tells(s, p) \/ c[1] = p
           /\ LastIs(Append(s, c), p, a) <=>
                IF c[1] = p THEN c[2] = a ELSE LastIs(s, p, a)
  <1> DEFINE t == Append(s, c)
             n == Len(s)
  <1>1. t \in Seq(Notice) /\ Len(t) = n + 1 /\ n \in Nat
    OBVIOUS
  <1>2. \A k \in 1..n : t[k] = s[k]
    OBVIOUS
  <1>3. t[n + 1] = c /\ DOMAIN t = 1..(n + 1) /\ DOMAIN s = 1..n
    OBVIOUS
  <1> HIDE DEF t, n
  <1>4. Tells(t, p) <=> Tells(s, p) \/ c[1] = p
    BY <1>1, <1>2, <1>3 DEF Tells
  <1>5. CASE c[1] = p
    <2>1. c = <<p, c[2]>>
      BY <1>5 DEF Notice
    <2>2. c[2] = a => LastIs(t, p, a)
      BY <1>1, <1>3, <2>1 DEF LastIs
    <2>3. LastIs(t, p, a) => c[2] = a
      BY <1>1, <1>3, <1>5 DEF LastIs
    <2> QED
      BY <1>1, <1>4, <1>5, <2>2, <2>3 DEF t
  <1>6. CASE c[1] # p
    <2>1. LastIs(s, p, a) => LastIs(t, p, a)
      <3> SUFFICES ASSUME LastIs(s, p, a) PROVE LastIs(t, p, a)
        OBVIOUS
      <3>1. PICK k \in 1..n : s[k] = <<p, a>> /\ \A m \in 1..n : m > k => s[m][1] # p
        BY <1>3 DEF LastIs
      <3>2. k \in 1..(n + 1) /\ t[k] = <<p, a>>
        BY <1>1, <1>2, <3>1
      <3>3. \A m \in 1..(n + 1) : m > k => t[m][1] # p
        BY <1>1, <1>2, <1>3, <1>6, <3>1
      <3> QED
        BY <1>3, <3>2, <3>3 DEF LastIs
    <2>2. LastIs(t, p, a) => LastIs(s, p, a)
      <3> SUFFICES ASSUME LastIs(t, p, a) PROVE LastIs(s, p, a)
        OBVIOUS
      <3>1. PICK k \in 1..(n + 1) :
                t[k] = <<p, a>> /\ \A m \in 1..(n + 1) : m > k => t[m][1] # p
        BY <1>3 DEF LastIs
      <3>2. k \in 1..n
        BY <1>1, <1>3, <1>6, <3>1
      <3>3. s[k] = <<p, a>> /\ \A m \in 1..n : m > k => s[m][1] # p
        BY <1>1, <1>2, <3>1, <3>2
      <3> QED
        BY <1>3, <3>2, <3>3 DEF LastIs
    <2> QED
      BY <1>1, <1>4, <1>6, <2>1, <2>2 DEF t
  <1> QED
    BY <1>5, <1>6

LEMMA TailFeed ==
    ASSUME NEW s \in Seq(Notice), s # <<>>, NEW p \in Paths, NEW a \in Action
    PROVE  /\ Tail(s) \in Seq(Notice) /\ Head(s) \in Notice
           /\ Tells(s, p) <=> Head(s)[1] = p \/ Tells(Tail(s), p)
           /\ LastIs(Tail(s), p, a) => LastIs(s, p, a)
           /\ Head(s) = <<p, a>> /\ ~Tells(Tail(s), p) => LastIs(s, p, a)
  <1> DEFINE t == Tail(s)
             n == Len(s)
  <1>1. t \in Seq(Notice) /\ Head(s) \in Notice /\ n \in Nat /\ n > 0
    OBVIOUS
  <1>2. Head(s) = s[1] /\ DOMAIN s = 1..n /\ DOMAIN t = 1..(n - 1)
    OBVIOUS
  <1>3. \A k \in 1..(n - 1) : t[k] = s[k + 1]
    OBVIOUS
  <1> HIDE DEF t, n
  <1>4. \A k \in 1..n : k # 1 => k - 1 \in 1..(n - 1) /\ s[k] = t[k - 1]
    BY <1>1, <1>3
  <1>5. Tells(s, p) <=> s[1][1] = p \/ Tells(t, p)
    <2>1. Tells(s, p) => s[1][1] = p \/ Tells(t, p)
      BY <1>1, <1>2, <1>4 DEF Tells
    <2>2. Tells(t, p) => Tells(s, p)
      <3> SUFFICES ASSUME Tells(t, p) PROVE Tells(s, p)
        OBVIOUS
      <3>1. PICK k \in 1..(n - 1) : t[k][1] = p
        BY <1>2 DEF Tells
      <3>2. k + 1 \in 1..n /\ s[k + 1][1] = p
        BY <1>1, <1>3, <3>1
      <3> QED
        BY <1>2, <3>2 DEF Tells
    <2>3. s[1][1] = p => Tells(s, p)
      BY <1>1, <1>2 DEF Tells
    <2> QED
      BY <2>1, <2>2, <2>3
  <1>6. LastIs(t, p, a) => LastIs(s, p, a)
    <2> SUFFICES ASSUME LastIs(t, p, a) PROVE LastIs(s, p, a)
      OBVIOUS
    <2>1. PICK k \in 1..(n - 1) : t[k] = <<p, a>> /\ \A m \in 1..(n - 1) : m > k => t[m][1] # p
      BY <1>2 DEF LastIs
    <2>2. k + 1 \in 1..n /\ s[k + 1] = <<p, a>>
      BY <1>1, <1>3, <2>1
    <2>3. \A m \in 1..n : m > k + 1 => s[m][1] # p
      <3> SUFFICES ASSUME NEW m \in 1..n, m > k + 1 PROVE s[m][1] # p
        OBVIOUS
      <3>1. m - 1 \in 1..(n - 1) /\ m - 1 > k /\ s[m] = t[m - 1]
        BY <1>1, <1>4, <2>1
      <3> QED
        BY <2>1, <3>1
    <2> QED
      BY <1>2, <2>2, <2>3 DEF LastIs
  <1>7. s[1] = <<p, a>> /\ ~Tells(t, p) => LastIs(s, p, a)
    <2> SUFFICES ASSUME s[1] = <<p, a>>, ~Tells(t, p) PROVE LastIs(s, p, a)
      OBVIOUS
    <2>1. \A m \in 1..n : m > 1 => s[m][1] # p
      BY <1>1, <1>2, <1>4 DEF Tells
    <2> QED
      BY <1>1, <1>2, <2>1 DEF LastIs
  <1> QED
    BY <1>1, <1>2, <1>5, <1>6, <1>7 DEF t

-----------------------------------------------------------------------------
(* The invariant.                                                          *)

JobRecord == [at : {"idle", "read", "cache", "search"}, todo : SUBSET Paths,
              snap : [Paths -> Content \cup {Absent, Unread}]]

\* A job that stores has read all its paths, an idle one holds nothing, and
\* the watcher handles one path at a time.
JobShape(i) ==
    /\ job[i].at # "read" => job[i].todo = {}
    /\ job[i].at = "idle" => \A p \in Paths : job[i].snap[p] = Unread

Handled(i) == job[i].todo \cup Held(i)

JobsOK ==
    /\ \A i \in Indexer : JobShape(i)
    /\ \A p, q \in Handled("watcher") : p = q

\* Before the watcher is installed there is the scan at startup and no more.
Startup ==
    ~watching =>
        /\ \A i \in Indexer \ {"rescan"} : job[i] = NoJob
        /\ feed = <<>> /\ batch = NoBatch /\ ~working
        /\ Handled("rescan") = Paths

\* A job that has read p has read what the file says now, and if it is about to
\* write the full-text index the cache says so too.
UpToDate(i, p) ==
    /\ p \in Held(i)
    /\ job[i].snap[p] = Scanned(p)
    /\ job[i].at = "search" => cache[p] = Scanned(p)

\* A note that is not excused is indexed, or the newest thing on its way to the
\* indexes will bring them what its file says.
Sound(p) ==
    /\ ~watching => p \in job["rescan"].todo \/ UpToDate("rescan", p)
    /\ watching =>
          /\ LastIs(feed, p, "delete") => disk[p] = Absent
          /\ ~Tells(feed, p) =>
                /\ batch[p] = "delete" => disk[p] = Absent
                /\ batch[p] = "none" =>
                      \/ p \in job["watcher"].todo
                      \/ UpToDate("watcher", p)
                      \/ /\ p \notin Handled("watcher")
                         /\ cache[p] = Scanned(p) /\ search[p] = Scanned(p)

IInv ==
    /\ TypeOK
    /\ JobsOK
    /\ Startup
    /\ HealthHonest
    /\ \A p \in Paths : p \in excused \/ Sound(p)

LEMMA InvSettles == IInv => IndexSettled
  <1> SUFFICES ASSUME IInv, NEW p \in Paths, Settled(p), p \notin excused
               PROVE  cache[p] = Scanned(p) /\ search[p] = Scanned(p)
    BY DEF IndexSettled
  <1>1. Sound(p) /\ ~Tells(feed, p) /\ watching /\ batch[p] = "none"
    BY DEF IInv, Settled, Tells
  <1>2. p \notin job["watcher"].todo /\ p \notin Held("watcher")
    BY DEF Settled, Indexer
  <1> QED
    BY <1>1, <1>2 DEF Sound, UpToDate, Handled

LEMMA NoJobType ==
    /\ NoJob \in JobRecord /\ NoJob.at = "idle" /\ NoJob.todo = {}
    /\ \A p \in Paths : NoJob.snap[p] = Unread
    /\ \A S \in SUBSET Paths :
          /\ Reading(S) \in JobRecord /\ Reading(S).at = "read" /\ Reading(S).todo = S
          /\ \A p \in Paths : Reading(S).snap[p] = Unread
  BY DEF NoJob, JobRecord, Reading

LEMMA JobType ==
    ASSUME NEW a \in {"idle", "read", "cache", "search"}, NEW t \in SUBSET Paths,
           NEW f \in [Paths -> Content \cup {Absent, Unread}]
    PROVE  [at |-> a, todo |-> t, snap |-> f] \in JobRecord
  BY DEF JobRecord

LEMMA InitInv == Init => IInv
  <1> SUFFICES ASSUME Init PROVE IInv
    OBVIOUS
  <1>1. /\ job["rescan"] = Reading(Paths)
        /\ \A i \in Indexer \ {"rescan"} : job[i] = NoJob
        /\ job \in [Indexer -> JobRecord]
    BY NoJobType DEF Init, StartupJobs, Indexer
  <1>2. TypeOK
    <2>1. 1 \in Content /\ 0 \in 0..MaxUpsets
      BY VaultAssumption DEF Content
    <2>2. /\ disk \in [Paths -> Content \cup {Absent, Unreadable}]
          /\ cache \in [Paths -> Content \cup {Absent}]
          /\ search \in [Paths -> Content \cup {Absent}]
      BY <2>1 DEF Init
    <2>3. batch \in [Paths -> Action \cup {"none"}] /\ feed \in Seq(Paths \X Action)
      BY DEF Init, NoBatch
    <2> QED
      BY <1>1, <2>1, <2>2, <2>3 DEF Init, TypeOK, JobRecord
  <1>3. JobsOK
    <2>1. \A i \in Indexer : JobShape(i)
      BY <1>1, NoJobType DEF JobShape
    <2> QED
      BY <1>1, <2>1, NoJobType DEF JobsOK, Handled, Held, Indexer
  <1>4. Startup
    BY <1>1, NoJobType DEF Startup, Init, Handled, Held
  <1>5. HealthHonest
    BY DEF Init, HealthHonest
  <1>6. \A p \in Paths : Sound(p)
    BY <1>1, NoJobType DEF Init, Sound
  <1> QED
    BY <1>2, <1>3, <1>4, <1>5, <1>6 DEF IInv

-----------------------------------------------------------------------------
(* The files change.                                                       *)

LEMMA ReportFeed ==
    ASSUME NEW s \in Seq(Notice), NEW p \in Paths, NEW a \in Action, NEW lost
    PROVE  /\ s \o Report(p, a, lost) \in Seq(Notice)
           /\ p \notin lost =>
                 /\ Tells(s \o Report(p, a, lost), p)
                 /\ LastIs(s \o Report(p, a, lost), p, "delete") => a = "delete"
           /\ \A q \in Paths : q # p \/ p \in lost =>
                 /\ Tells(s \o Report(p, a, lost), q) <=> Tells(s, q)
                 /\ LastIs(s \o Report(p, a, lost), q, "delete") <=> LastIs(s, q, "delete")
  <1>1. CASE p \in lost
    <2>1. s \o Report(p, a, lost) = s
      BY <1>1 DEF Report
    <2> QED
      BY <1>1, <2>1
  <1>2. CASE p \notin lost
    <2>1. <<p, a>> \in Notice /\ "delete" \in Action /\ <<p, a>>[1] = p /\ <<p, a>>[2] = a
      BY DEF Notice, Action
    <2>2. s \o Report(p, a, lost) = Append(s, <<p, a>>)
      BY <1>2, <2>1 DEF Report
    <2>3. /\ Append(s, <<p, a>>) \in Seq(Notice)
          /\ Tells(Append(s, <<p, a>>), p)
          /\ LastIs(Append(s, <<p, a>>), p, "delete") => a = "delete"
          /\ \A q \in Paths : q # p =>
                 /\ Tells(Append(s, <<p, a>>), q) <=> Tells(s, q)
                 /\ LastIs(Append(s, <<p, a>>), q, "delete") <=> LastIs(s, q, "delete")
      BY <2>1, AppendFeed
    <2> QED
      BY <1>2, <2>2, <2>3
  <1> QED
    BY <1>1, <1>2

LEMMA ChangeSound ==
    ASSUME IInv, NEW changed \in SUBSET Paths, NEW lost, Missed(changed, lost),
           \A p \in Paths \ changed : disk'[p] = disk[p],
           \A p \in Paths : p \notin changed \/ p \in lost =>
               /\ Tells(feed', p) <=> Tells(feed, p)
               /\ LastIs(feed', p, "delete") <=> LastIs(feed, p, "delete"),
           \A p \in changed \ lost :
               Tells(feed', p) /\ (LastIs(feed', p, "delete") => disk'[p] = Absent),
           UNCHANGED <<cache, search, watching, batch>>,
           \A i \in {"watcher", "rescan"} : job'[i] = job[i]
    PROVE  \A p \in Paths : p \in excused' \/ Sound(p)'
  <1> SUFFICES ASSUME NEW p \in Paths, p \notin excused'
               PROVE  Sound(p)'
    OBVIOUS
  <1>1. p \notin excused /\ Sound(p)
    BY DEF Missed, IInv
  <1>2. CASE p \notin changed
    <2>1. Scanned(p)' = Scanned(p) /\ disk'[p] = disk[p]
      BY <1>2 DEF Scanned
    <2>2. \A i \in {"watcher", "rescan"} :
              (UpToDate(i, p) => UpToDate(i, p)') /\ Handled(i)' = Handled(i)
      BY <2>1 DEF UpToDate, Handled, Held
    <2> QED
      BY <1>1, <1>2, <2>1, <2>2 DEF Sound
  <1>3. CASE p \in changed /\ watching
    BY <1>3 DEF Missed, Sound
  <1>4. CASE p \in changed /\ ~watching
    <2>1. p \in job["rescan"].todo
      BY <1>4 DEF Missed
    <2> QED
      BY <1>4, <2>1 DEF Sound
  <1> QED
    BY <1>2, <1>3, <1>4

\* The types of a change of files, and what it leaves alone.
LEMMA ChangeType ==
    ASSUME IInv, NEW changed \in SUBSET Paths, IsFiniteSet(changed),
           NEW lost, Missed(changed, lost)
    PROVE  upsets' \in 0..MaxUpsets /\ excused' \subseteq Paths
  <1>1. IsFiniteSet(lost) /\ lost \subseteq Paths
    BY FS_Subset DEF Missed
  <1>2. Cardinality(lost) \in Nat
    BY <1>1, FS_CardinalityType
  <1>3. upsets \in 0..MaxUpsets /\ excused \subseteq Paths
    BY DEF IInv, TypeOK
  <1> QED
    BY <1>1, <1>2, <1>3, VaultAssumption DEF Missed

\* What Startup needs of a change of files.
LEMMA ChangeStartup ==
    ASSUME IInv, NEW p \in Paths, NEW a, NEW lost, ~watching => p \in lost
    PROVE  ~watching => feed \o Report(p, a, lost) = feed
  BY DEF Report, Startup, IInv

LEMMA EditStep ==
    ASSUME IInv, NEW p \in Paths, WriteFile(p) \/ DeleteFile(p)
    PROVE  IInv'
  <1>1. PICK a \in Action : Reported(p, a) /\ (a = "delete" => disk'[p] = Absent)
    <2>1. CASE WriteFile(p)
      BY <2>1 DEF WriteFile, Action
    <2>2. CASE DeleteFile(p)
      BY <2>2 DEF DeleteFile, Action, IInv, TypeOK
    <2> QED
      BY <2>1, <2>2
  <1>2. PICK lost \in SUBSET {p} :
            Missed({p}, lost) /\ feed' = feed \o Report(p, a, lost)
    BY <1>1 DEF Reported
  <1>3. /\ edits < MaxEdits /\ edits' = edits + 1
        /\ \E c \in {edits + 1, Unreadable, Absent} : disk' = [disk EXCEPT ![p] = c]
        /\ UNCHANGED <<indexes, watching, batch, working, job, health, failed>>
    BY DEF WriteFile, DeleteFile
  <1>4. feed \in Seq(Notice) /\ {p} \in SUBSET Paths /\ IsFiniteSet({p})
    BY FS_Singleton DEF IInv, TypeOK, Notice
  <1>5. upsets' \in 0..MaxUpsets /\ excused' \subseteq Paths
    BY <1>2, <1>4, ChangeType
  <1>6. edits + 1 \in Content /\ edits' \in Content
    BY <1>3, VaultAssumption DEF IInv, TypeOK, Content
  <1>7. feed' \in Seq(Notice)
    BY <1>2, <1>4, ReportFeed
  <1>8. TypeOK'
    <2>1. disk' \in [Paths -> Content \cup {Absent, Unreadable}]
      BY <1>3, <1>6 DEF IInv, TypeOK
    <2> QED
      BY <1>3, <1>5, <1>6, <1>7, <2>1 DEF IInv, TypeOK, indexes, Notice
  <1>9. JobsOK' /\ HealthHonest'
    BY <1>3 DEF IInv, JobsOK, JobShape, Handled, Held, HealthHonest
  <1>10. Startup'
    BY <1>2, <1>3, ChangeStartup DEF IInv, Startup, Missed, Handled, Held
  <1>11. \A q \in Paths : q \in excused' \/ Sound(q)'
    <2>1. \A q \in Paths \ {p} : disk'[q] = disk[q]
      BY <1>3 DEF IInv, TypeOK
    <2>2. \A q \in Paths : q \notin {p} \/ q \in lost =>
              /\ Tells(feed', q) <=> Tells(feed, q)
              /\ LastIs(feed', q, "delete") <=> LastIs(feed, q, "delete")
      BY <1>2, <1>4, ReportFeed
    <2>3. \A q \in {p} \ lost :
              Tells(feed', q) /\ (LastIs(feed', q, "delete") => disk'[q] = Absent)
      BY <1>1, <1>2, <1>4, ReportFeed
    <2> QED
      BY <1>2, <1>3, <1>4, <2>1, <2>2, <2>3, ChangeSound DEF indexes
  <1> QED
    BY <1>8, <1>9, <1>10, <1>11 DEF IInv

LEMMA MoveStep ==
    ASSUME IInv, NEW p \in Paths, NEW q \in Paths, MoveFile(p, q)
    PROVE  IInv'
  <1>1. PICK lost \in SUBSET {p, q} :
            /\ Missed({p, q}, lost)
            /\ feed' = feed \o Report(p, "upsert", lost) \o Report(q, "upsert", lost)
    BY DEF MoveFile
  <1>2. /\ edits < MaxEdits /\ edits' = edits + 1 /\ p # q
        /\ disk' = [disk EXCEPT ![p] = Absent, ![q] = disk[p]]
        /\ UNCHANGED <<indexes, watching, batch, working, job, health, failed>>
    BY DEF MoveFile
  <1> DEFINE mid == feed \o Report(p, "upsert", lost)
  <1>3. feed \in Seq(Notice) /\ {p, q} \in SUBSET Paths /\ "upsert" \in Action
    BY DEF IInv, TypeOK, Notice, Action
  <1>4. IsFiniteSet({p, q})
    <2>1. {p, q} = {p} \cup {q}
      OBVIOUS
    <2>2. IsFiniteSet({p}) /\ IsFiniteSet({q})
      BY FS_Singleton
    <2> QED
      BY <2>1, <2>2, FS_Union
  <1>5. upsets' \in 0..MaxUpsets /\ excused' \subseteq Paths
    BY <1>1, <1>3, <1>4, ChangeType
  <1>6. edits' \in Content
    BY <1>2, VaultAssumption DEF IInv, TypeOK, Content
  <1>7. mid \in Seq(Notice) /\ feed' = mid \o Report(q, "upsert", lost)
    BY <1>1, <1>3, ReportFeed
  <1>8. feed' \in Seq(Notice)
    BY <1>3, <1>7, ReportFeed
  <1>9. TypeOK'
    <2>1. disk' \in [Paths -> Content \cup {Absent, Unreadable}]
      BY <1>2 DEF IInv, TypeOK
    <2> QED
      BY <1>2, <1>5, <1>6, <1>8, <2>1 DEF IInv, TypeOK, indexes, Notice
  <1>10. JobsOK' /\ HealthHonest'
    BY <1>2 DEF IInv, JobsOK, JobShape, Handled, Held, HealthHonest
  <1>11. Startup'
    <2>1. ~watching => mid = feed
      BY <1>1, ChangeStartup DEF Missed
    <2>2. ~watching => feed' = feed
      BY <1>1, <1>7, <2>1, ChangeStartup DEF Missed
    <2> QED
      BY <1>2, <2>2 DEF IInv, Startup, Handled, Held
  <1>12. \A r \in Paths : r \in excused' \/ Sound(r)'
    <2>1. \A r \in Paths \ {p, q} : disk'[r] = disk[r]
      BY <1>2 DEF IInv, TypeOK
    <2>2. ASSUME NEW r \in Paths
          PROVE  /\ r = p /\ p \notin lost => Tells(mid, r) /\ ~LastIs(mid, r, "delete")
                 /\ r # p \/ p \in lost =>
                       /\ Tells(mid, r) <=> Tells(feed, r)
                       /\ LastIs(mid, r, "delete") <=> LastIs(feed, r, "delete")
      BY <1>3, ReportFeed
    <2> HIDE DEF mid
    <2>3. ASSUME NEW r \in Paths
          PROVE  /\ r = q /\ q \notin lost => Tells(feed', r) /\ ~LastIs(feed', r, "delete")
                 /\ r # q \/ q \in lost =>
                       /\ Tells(feed', r) <=> Tells(mid, r)
                       /\ LastIs(feed', r, "delete") <=> LastIs(mid, r, "delete")
      BY <1>3, <1>7, ReportFeed
    <2>4. \A r \in Paths : r \notin {p, q} \/ r \in lost =>
              /\ Tells(feed', r) <=> Tells(feed, r)
              /\ LastIs(feed', r, "delete") <=> LastIs(feed, r, "delete")
      BY <2>2, <2>3
    <2>5. \A r \in {p, q} \ lost :
              Tells(feed', r) /\ (LastIs(feed', r, "delete") => disk'[r] = Absent)
      BY <1>2, <2>2, <2>3
    <2> QED
      BY <1>1, <1>2, <1>3, <2>1, <2>4, <2>5, ChangeSound DEF indexes
  <1> QED
    BY <1>9, <1>10, <1>11, <1>12 DEF IInv

\* One job is replaced by a well-formed one.
LEMMA JobSet ==
    ASSUME IInv, NEW i \in Indexer, NEW rec \in JobRecord, job' = [job EXCEPT ![i] = rec],
           rec.at # "read" => rec.todo = {},
           rec.at = "idle" => \A p \in Paths : rec.snap[p] = Unread,
           i = "watcher" => \A p, q \in Paths :
               /\ p \in rec.todo \/ rec.snap[p] # Unread
               /\ q \in rec.todo \/ rec.snap[q] # Unread
               => p = q
    PROVE  /\ job' \in [Indexer -> JobRecord] /\ JobsOK'
           /\ job'[i] = rec /\ \A j \in Indexer \ {i} : job'[j] = job[j]
  <1>1. job \in [Indexer -> JobRecord] /\ JobsOK
    BY DEF IInv, TypeOK, JobRecord
  <1>2. job' \in [Indexer -> JobRecord]
    BY <1>1
  <1>3. job'[i] = rec /\ \A j \in Indexer \ {i} : job'[j] = job[j]
    BY <1>1
  <1>4. \A j \in Indexer : JobShape(j)'
    BY <1>1, <1>3 DEF JobsOK, JobShape
  <1>5. \A p, q \in Handled("watcher")' : p = q
    <2>1. CASE i = "watcher"
      <3>1. rec.todo \subseteq Paths
        BY DEF JobRecord
      <3> QED
        BY <1>3, <2>1, <3>1 DEF Handled, Held
    <2>2. CASE i # "watcher"
      <3>1. job'["watcher"] = job["watcher"]
        BY <1>3, <2>2 DEF Indexer
      <3> QED
        BY <1>1, <3>1 DEF JobsOK, Handled, Held
    <2> QED
      BY <2>1, <2>2
  <1> QED
    BY <1>2, <1>3, <1>4, <1>5 DEF JobsOK

LEMMA AgentStep ==
    ASSUME IInv, NEW p \in Paths, AgentWrites(p)
    PROVE  IInv'
  <1>1. PICK lost \in SUBSET {p} :
            Missed({p}, lost) /\ feed' = feed \o Report(p, "upsert", lost)
    BY DEF AgentWrites, Reported
  <1>2. /\ watching /\ edits < MaxEdits /\ edits' = edits + 1
        /\ disk' = [disk EXCEPT ![p] = edits + 1]
        /\ job' = [job EXCEPT !["agent"] = Reading({p})]
        /\ UNCHANGED <<indexes, watching, batch, working, health, failed>>
    BY DEF AgentWrites
  <1>3. /\ feed \in Seq(Notice) /\ {p} \in SUBSET Paths /\ IsFiniteSet({p})
        /\ "upsert" \in Action /\ "agent" \in Indexer
    BY FS_Singleton DEF IInv, TypeOK, Notice, Action, Indexer
  <1>4. upsets' \in 0..MaxUpsets /\ excused' \subseteq Paths
    BY <1>1, <1>3, ChangeType
  <1>5. edits + 1 \in Content /\ edits' \in Content
    BY <1>2, VaultAssumption DEF IInv, TypeOK, Content
  <1>6. feed' \in Seq(Notice)
    BY <1>1, <1>3, ReportFeed
  <1>7. /\ job' \in [Indexer -> JobRecord] /\ JobsOK'
        /\ \A j \in Indexer \ {"agent"} : job'[j] = job[j]
    BY <1>2, <1>3, NoJobType, JobSet
  <1>8. TypeOK'
    <2>1. disk' \in [Paths -> Content \cup {Absent, Unreadable}]
      BY <1>2, <1>5 DEF IInv, TypeOK
    <2> QED
      BY <1>2, <1>4, <1>5, <1>6, <1>7, <2>1 DEF IInv, TypeOK, indexes, Notice, JobRecord
  <1>9. HealthHonest' /\ Startup'
    BY <1>2, <1>7 DEF IInv, HealthHonest, Startup, Indexer
  <1>10. \A q \in Paths : q \in excused' \/ Sound(q)'
    <2>1. \A q \in Paths \ {p} : disk'[q] = disk[q]
      BY <1>2 DEF IInv, TypeOK
    <2>2. \A q \in Paths : q \notin {p} \/ q \in lost =>
              /\ Tells(feed', q) <=> Tells(feed, q)
              /\ LastIs(feed', q, "delete") <=> LastIs(feed, q, "delete")
      BY <1>1, <1>3, ReportFeed
    <2>3. \A q \in {p} \ lost :
              Tells(feed', q) /\ (LastIs(feed', q, "delete") => disk'[q] = Absent)
      BY <1>1, <1>3, ReportFeed
    <2>4. \A i \in {"watcher", "rescan"} : job'[i] = job[i]
      BY <1>7 DEF Indexer
    <2> QED
      BY <1>1, <1>2, <1>3, <2>1, <2>2, <2>3, <2>4, ChangeSound DEF indexes
  <1> QED
    BY <1>7, <1>8, <1>9, <1>10 DEF IInv

-----------------------------------------------------------------------------
(* The watcher.                                                            *)

LEMMA ReceiveStep ==
    ASSUME IInv, Receive
    PROVE  IInv'
  <1>1. /\ watching /\ feed # <<>> /\ feed' = Tail(feed)
        /\ batch' = [batch EXCEPT ![Head(feed)[1]] = Head(feed)[2]]
        /\ UNCHANGED <<disk, indexes, watching, working, job, health, counters, excused, failed>>
    BY DEF Receive, Recorded
  <1>2. /\ feed \in Seq(Notice) /\ Tail(feed) \in Seq(Notice) /\ Head(feed) \in Notice
        /\ batch \in [Paths -> Action \cup {"none"}] /\ "delete" \in Action
    BY <1>1 DEF IInv, TypeOK, Notice, Action
  <1>3. Head(feed)[1] \in Paths /\ Head(feed)[2] \in Action
        /\ Head(feed) = <<Head(feed)[1], Head(feed)[2]>>
    BY <1>2 DEF Notice
  <1>4. batch' \in [Paths -> Action \cup {"none"}]
    BY <1>1, <1>2, <1>3
  <1>5. TypeOK'
    BY <1>1, <1>2, <1>4 DEF IInv, TypeOK, indexes, counters, Notice
  <1>6. JobsOK' /\ HealthHonest' /\ Startup'
    BY <1>1 DEF IInv, JobsOK, JobShape, Handled, Held, HealthHonest, Startup
  <1>7. ASSUME NEW p \in Paths, p \notin excused'
        PROVE  Sound(p)'
    <2>1. Sound(p)
      BY <1>1, <1>7 DEF IInv
    <2>2. Scanned(p)' = Scanned(p) /\ Handled("watcher")' = Handled("watcher")
          /\ (UpToDate("watcher", p) => UpToDate("watcher", p)')
      BY <1>1 DEF Scanned, Handled, Held, UpToDate, indexes
    <2>3. LastIs(feed', p, "delete") => disk[p] = Absent
      BY <1>1, <1>2, <2>1, TailFeed DEF Sound
    <2>4. CASE Head(feed)[1] = p
      <3>1. batch'[p] = Head(feed)[2]
        BY <1>1, <1>2, <1>3, <2>4
      <3>2. batch'[p] # "none"
        BY <1>3, <3>1 DEF Action
      <3>3. ~Tells(feed', p) /\ batch'[p] = "delete" => disk[p] = Absent
        BY <1>1, <1>2, <1>3, <2>1, <2>4, <3>1, TailFeed DEF Sound
      <3> QED
        BY <1>1, <2>3, <3>2, <3>3 DEF Sound
    <2>5. CASE Head(feed)[1] # p
      <3>1. batch'[p] = batch[p]
        BY <1>1, <1>2, <2>5
      <3>2. ~Tells(feed', p) => ~Tells(feed, p)
        BY <1>1, <1>2, <2>5, TailFeed
      <3> QED
        BY <1>1, <2>1, <2>2, <2>3, <3>1, <3>2 DEF Sound, indexes
    <2> QED
      BY <2>4, <2>5
  <1> QED
    BY <1>5, <1>6, <1>7 DEF IInv

LEMMA BatchStep ==
    ASSUME IInv, ProcessPending \/ BatchDone
    PROVE  IInv'
  <1>1. /\ UNCHANGED <<disk, indexes, watching, feed, batch, job, health, counters,
                       excused, failed>>
        /\ working' \in BOOLEAN
    BY DEF ProcessPending, BatchDone
  <1>2. TypeOK'
    BY <1>1 DEF IInv, TypeOK, indexes, counters
  <1>3. JobsOK' /\ HealthHonest'
    BY <1>1 DEF IInv, JobsOK, JobShape, Handled, Held, HealthHonest
  <1>5. Startup'
    <2>1. watching
      BY DEF ProcessPending, BatchDone, IInv, Startup
    <2> QED
      BY <1>1, <2>1 DEF Startup
  <1>4. ASSUME NEW p \in Paths, p \notin excused'
        PROVE  Sound(p)'
    BY <1>1, <1>4 DEF IInv, Sound, Scanned, Handled, Held, UpToDate, indexes
  <1> QED
    BY <1>2, <1>3, <1>4, <1>5 DEF IInv

LEMMA HandleStep ==
    ASSUME IInv, NEW q \in Paths, HandleNoteChange(q)
    PROVE  IInv'
  <1> DEFINE now == batch[q] = "delete" \/ disk[q] = Absent
             rec == IF now THEN [NoJob EXCEPT !.at = "cache", !.snap[q] = Absent]
                    ELSE Reading({q})
  <1>1. /\ job["watcher"].at = "idle" /\ batch[q] # "none"
        /\ batch' = [batch EXCEPT ![q] = "none"]
        /\ job' = [job EXCEPT !["watcher"] = rec]
        /\ UNCHANGED <<disk, indexes, watching, feed, working, health, counters,
                       excused, failed>>
    BY DEF HandleNoteChange
  <1>2. /\ rec \in JobRecord /\ rec.at = (IF now THEN "cache" ELSE "read")
        /\ rec.todo = (IF now THEN {} ELSE {q})
        /\ \A p \in Paths : rec.snap[p] = IF now /\ p = q THEN Absent ELSE Unread
    <2>1. CASE now
      <3>1. rec = [NoJob EXCEPT !.at = "cache", !.snap[q] = Absent]
        BY <2>1
      <3>2. /\ rec.at = "cache" /\ rec.todo = {}
            /\ rec.snap = [NoJob.snap EXCEPT ![q] = Absent]
        BY <3>1 DEF NoJob
      <3>3. rec = [at |-> "cache", todo |-> {}, snap |-> [NoJob.snap EXCEPT ![q] = Absent]]
        BY <3>1 DEF NoJob
      <3>4. NoJob.snap \in [Paths -> Content \cup {Absent, Unread}]
        BY DEF NoJob
      <3>5. [NoJob.snap EXCEPT ![q] = Absent] \in [Paths -> Content \cup {Absent, Unread}]
        BY <3>4
      <3>6. rec \in JobRecord
        <4>1. {} \in SUBSET Paths
          OBVIOUS
        <4>2. [at |-> "cache", todo |-> {}, snap |-> [NoJob.snap EXCEPT ![q] = Absent]]
                  \in JobRecord
          BY <3>5, <4>1, JobType
        <4> QED
          BY <3>3, <4>2
      <3>7. \A p \in Paths : rec.snap[p] = IF p = q THEN Absent ELSE Unread
        BY <3>2, <3>4, NoJobType
      <3> QED
        BY <2>1, <3>2, <3>6, <3>7
    <2>2. CASE ~now
      BY <2>2, NoJobType
    <2> QED
      BY <2>1, <2>2
  <1> HIDE DEF rec, now
  <1>3. /\ job' \in [Indexer -> JobRecord] /\ JobsOK'
        /\ job'["watcher"] = rec /\ \A j \in Indexer \ {"watcher"} : job'[j] = job[j]
    <2>1. "watcher" \in Indexer
      BY DEF Indexer
    <2>2. rec.at # "read" => rec.todo = {}
      BY <1>2
    <2>3. rec.at # "idle"
      BY <1>2
    <2>4. \A p, r \in Paths :
               /\ p \in rec.todo \/ rec.snap[p] # Unread
               /\ r \in rec.todo \/ rec.snap[r] # Unread
               => p = r
      BY <1>2
    <2> QED
      BY <1>1, <1>2, <2>1, <2>2, <2>3, <2>4, JobSet
  <1>4. /\ job["watcher"].todo = {}
        /\ \A p \in Paths : job["watcher"].snap[p] = Unread
        /\ \A p \in Paths : p \notin Handled("watcher")
    BY <1>1 DEF IInv, JobsOK, JobShape, Handled, Held, Indexer
  <1>5. TypeOK'
    <2>1. batch' \in [Paths -> Action \cup {"none"}]
      BY <1>1 DEF IInv, TypeOK
    <2> QED
      BY <1>1, <1>3, <2>1 DEF IInv, TypeOK, indexes, counters, JobRecord
  <1>6. watching
    BY DEF HandleNoteChange, IInv, Startup
  <1>7. HealthHonest' /\ Startup'
    BY <1>1, <1>3, <1>6 DEF IInv, HealthHonest, Startup, Indexer
  <1>8. ASSUME NEW p \in Paths, p \notin excused'
        PROVE  Sound(p)'
    <2>1. Sound(p) /\ Scanned(p)' = Scanned(p)
      BY <1>1, <1>8 DEF IInv, Scanned
    <2>2. CASE p = q
      <3>1. batch'[p] = "none"
        BY <1>1, <2>2 DEF IInv, TypeOK
      <3>2. CASE ~Tells(feed, p) /\ now
        <4>1. disk[p] = Absent
          BY <1>6, <2>1, <2>2, <3>2 DEF Sound, now
        <4>2. Scanned(p) = Absent /\ Absent # Unread
          BY <4>1 DEF Scanned, Absent, Unreadable, Unread
        <4>3. UpToDate("watcher", p)'
          BY <1>2, <1>3, <2>1, <2>2, <3>2, <4>2 DEF UpToDate, Held
        <4> QED
          BY <1>1, <1>6, <2>1, <4>1, <4>3 DEF Sound
      <3>3. CASE Tells(feed, p)
        BY <1>1, <1>6, <2>1, <3>3 DEF Sound
      <3>4. CASE ~now
        <4>1. p \in job'["watcher"].todo
          BY <1>2, <1>3, <2>2, <3>4
        <4> QED
          BY <1>1, <1>6, <2>1, <3>1, <4>1 DEF Sound
      <3> QED
        BY <3>2, <3>3, <3>4
    <2>3. CASE p # q
      <3>1. batch'[p] = batch[p]
        BY <1>1, <2>3 DEF IInv, TypeOK
      <3>2. p \notin Handled("watcher")'
        BY <1>2, <1>3, <2>3 DEF Handled, Held
      <3>3. ~UpToDate("watcher", p)
        BY <1>4 DEF UpToDate, Handled
      <3> QED
        BY <1>1, <1>4, <1>6, <2>1, <3>1, <3>2, <3>3 DEF Sound, indexes
    <2> QED
      BY <2>2, <2>3
  <1> QED
    BY <1>3, <1>5, <1>7, <1>8 DEF IInv


-----------------------------------------------------------------------------
(* The steps of a job.                                                     *)

\* What a path's soundness rests on has not changed.
LEMMA SoundFrame ==
    ASSUME NEW p \in Paths, Sound(p),
           disk' = disk, cache'[p] = cache[p], search'[p] = search[p],
           UNCHANGED <<watching, feed>>, batch'[p] = batch[p],
           watching => job'["watcher"] = job["watcher"],
           ~watching => job'["rescan"] = job["rescan"]
    PROVE  Sound(p)'
  <1>1. Scanned(p)' = Scanned(p)
    BY DEF Scanned
  <1>2. CASE watching
    <2>1. /\ Handled("watcher")' = Handled("watcher")
          /\ UpToDate("watcher", p) => UpToDate("watcher", p)'
      BY <1>1, <1>2 DEF Handled, Held, UpToDate
    <2> QED
      BY <1>1, <1>2, <2>1 DEF Sound
  <1>3. CASE ~watching
    <2>1. UpToDate("rescan", p) => UpToDate("rescan", p)'
      BY <1>1, <1>3 DEF Held, UpToDate
    <2> QED
      BY <1>3, <2>1 DEF Sound
  <1> QED
    BY <1>2, <1>3

\* Before the watcher is installed only the scan at startup takes steps.
LEMMA Alone ==
    ASSUME IInv, NEW i \in Indexer, job[i].at # "idle", ~watching
    PROVE  i = "rescan"
  BY NoJobType DEF IInv, Startup

\* The paths of the watcher's job.
LEMMA One ==
    ASSUME IInv, NEW p \in Paths, NEW q \in Paths,
           q \in Handled("watcher"), p # q
    PROVE  p \notin Handled("watcher")
  BY DEF IInv, JobsOK

LEMMA ReadStep ==
    ASSUME IInv, NEW i \in Indexer, NEW q \in Paths, ReadFile(i, q)
    PROVE  IInv'
  <1>1. PICK next \in IF job[i].todo # {q} THEN {"read"} ELSE AfterRead(i) :
            job' = [job EXCEPT ![i] =
                       [at |-> next, todo |-> @.todo \ {q},
                        snap |-> [@.snap EXCEPT ![q] = Scanned(q)]]]
    BY DEF ReadFile
  <1>2. /\ job[i].at = "read" /\ q \in job[i].todo
        /\ i \in Scanner \/ disk[q] \in Content
        /\ UNCHANGED <<disk, indexes, watching, feed, batch, working, health, counters,
                       excused, failed>>
    BY DEF ReadFile
  <1> DEFINE rec == [at |-> next, todo |-> job[i].todo \ {q},
                     snap |-> [job[i].snap EXCEPT ![q] = Scanned(q)]]
  <1>3. job \in [Indexer -> JobRecord] /\ disk[q] \in Content \cup {Absent, Unreadable}
    BY DEF IInv, TypeOK, JobRecord
  <1>4. job[i] \in JobRecord
    BY <1>3
  <1>5. Scanned(q) \in Content \cup {Absent} /\ Scanned(q) # Unread
    BY <1>3, VaultAssumption DEF Scanned, Content, Absent, Unreadable, Unread
  <1>6. job' = [job EXCEPT ![i] = rec]
    BY <1>1, <1>3
  <1>7. /\ next \in {"read", "cache", "search"}
        /\ next # "read" => job[i].todo = {q}
        /\ i # "reindex" => next # "search"
    BY <1>1 DEF AfterRead
  <1>8. /\ rec \in JobRecord /\ rec.at = next /\ rec.todo = job[i].todo \ {q}
        /\ \A p \in Paths : rec.snap[p] = IF p = q THEN Scanned(q) ELSE job[i].snap[p]
    <2>1. rec.snap \in [Paths -> Content \cup {Absent, Unread}]
      BY <1>4, <1>5 DEF JobRecord
    <2>2. rec.todo \subseteq Paths
      BY <1>4 DEF JobRecord
    <2>3. \A p \in Paths : rec.snap[p] = IF p = q THEN Scanned(q) ELSE job[i].snap[p]
      BY <1>4 DEF JobRecord
    <2> QED
      BY <1>7, <2>1, <2>2, <2>3 DEF JobRecord
  <1> HIDE DEF rec
  <1>9. /\ job' \in [Indexer -> JobRecord] /\ JobsOK'
        /\ job'[i] = rec /\ \A j \in Indexer \ {i} : job'[j] = job[j]
    <2>1. rec.at # "read" => rec.todo = {}
      BY <1>7, <1>8
    <2>2. rec.at # "idle"
      BY <1>7, <1>8
    <2>3. i = "watcher" => \A p, r \in Paths :
               /\ p \in rec.todo \/ rec.snap[p] # Unread
               /\ r \in rec.todo \/ rec.snap[r] # Unread
               => p = r
      <3> SUFFICES ASSUME i = "watcher", NEW p \in Paths,
                          p \in rec.todo \/ rec.snap[p] # Unread
                   PROVE  p = q
        OBVIOUS
      <3>1. p = q \/ p \in job[i].todo \/ job[i].snap[p] # Unread
        BY <1>8
      <3>2. (p \in Handled("watcher") /\ q \in Handled("watcher")) \/ p = q
        BY <1>2, <3>1 DEF Handled, Held
      <3> QED
        BY <3>2, One
    <2> QED
      BY <1>6, <1>8, <2>1, <2>2, <2>3, JobSet
  <1>10. TypeOK'
    BY <1>2, <1>9 DEF IInv, TypeOK, indexes, counters, JobRecord
  <1>11. HealthHonest'
    <2>1. job["rescan"].at # "idle" => job'["rescan"].at # "idle"
      BY <1>7, <1>8, <1>9 DEF Indexer
    <2> QED
      BY <1>2, <2>1 DEF IInv, HealthHonest
  <1>12. \A p \in Paths : p \in Handled(i)' <=> p \in Handled(i)
    <2> SUFFICES ASSUME NEW p \in Paths PROVE p \in Handled(i)' <=> p \in Handled(i)
      OBVIOUS
    <2>1. p = q => p \in Handled(i) /\ p \in Handled(i)'
      BY <1>2, <1>5, <1>8, <1>9 DEF Handled, Held
    <2>2. p # q => (p \in Handled(i)' <=> p \in Handled(i))
      BY <1>8, <1>9 DEF Handled, Held
    <2> QED
      BY <2>1, <2>2
  <1>13. Startup'
    <2> SUFFICES ASSUME ~watching' PROVE Startup'
      BY DEF Startup
    <2>1. i = "rescan" /\ Startup /\ ~watching
      BY <1>2, Alone DEF IInv
    <2>2. Handled("rescan")' \subseteq Paths
      BY <1>8, <1>9, <2>1 DEF Handled, Held, JobRecord
    <2>3. Handled("rescan")' = Paths
      BY <1>12, <2>1, <2>2 DEF Startup
    <2> QED
      BY <1>2, <1>9, <2>1, <2>3 DEF Startup
  <1>14. ASSUME NEW p \in Paths, p \notin excused'
         PROVE  Sound(p)'
    <2>1. Sound(p) /\ Scanned(p)' = Scanned(p) /\ "watcher" \in Indexer /\ "rescan" \in Indexer
      BY <1>2, <1>14 DEF IInv, Scanned, Indexer
    <2>2. CASE watching /\ i # "watcher"
      BY <1>2, <1>9, <2>1, <2>2, SoundFrame DEF indexes
    <2>3. CASE watching /\ i = "watcher" /\ p = q
      <3>1. UpToDate("watcher", p)'
        BY <1>5, <1>7, <1>8, <1>9, <2>1, <2>3 DEF UpToDate, Held
      <3> QED
        BY <1>2, <2>1, <2>3, <3>1 DEF Sound
    <2>4. CASE watching /\ i = "watcher" /\ p # q
      <3>1. p \notin Handled("watcher")
        BY <1>2, <2>4, One DEF Handled
      <3>2. p \notin Handled("watcher")'
        BY <1>12, <2>4, <3>1
      <3> QED
        BY <1>2, <2>1, <2>4, <3>1, <3>2 DEF Sound, indexes, UpToDate, Handled
    <2>5. CASE ~watching
      <3>1. i = "rescan"
        BY <1>2, <2>5, Alone
      <3>2. p = q => UpToDate("rescan", p)'
        BY <1>5, <1>7, <1>8, <1>9, <2>1, <3>1 DEF UpToDate, Held
      <3>3. p # q /\ p \in job["rescan"].todo => p \in job'["rescan"].todo
        BY <1>8, <1>9, <3>1
      <3>4. p # q /\ UpToDate("rescan", p) => UpToDate("rescan", p)'
        BY <1>7, <1>8, <1>9, <2>1, <3>1 DEF UpToDate, Held
      <3> QED
        BY <1>2, <2>1, <2>5, <3>2, <3>3, <3>4 DEF Sound
    <2> QED
      BY <2>2, <2>3, <2>4, <2>5
  <1> QED
    BY <1>9, <1>10, <1>11, <1>13, <1>14 DEF IInv

LEMMA JobEnds ==
    ASSUME IInv, NEW i \in Indexer, job' = [job EXCEPT ![i] = NoJob]
    PROVE  /\ job' \in [Indexer -> JobRecord] /\ JobsOK'
           /\ job'[i] = NoJob /\ \A j \in Indexer \ {i} : job'[j] = job[j]
  BY NoJobType, JobSet

LEMMA StoredIndex ==
    ASSUME IInv, NEW i \in Indexer, NEW index \in [Paths -> Content \cup {Absent}]
    PROVE  /\ Stored(index, i) \in [Paths -> Content \cup {Absent}]
           /\ \A p \in Paths :
                 Stored(index, i)[p] = IF p \in Held(i) THEN job[i].snap[p] ELSE index[p]
  <1>1. job[i].snap \in [Paths -> Content \cup {Absent, Unread}]
    BY DEF IInv, TypeOK
  <1> QED
    BY <1>1 DEF Stored, Held

\* A job that is storing has nothing left to read.
LEMMA Storing ==
    ASSUME IInv, NEW i \in Indexer, job[i].at \in {"cache", "search"}
    PROVE  job[i].todo = {} /\ Handled(i) = Held(i)
  BY DEF IInv, JobsOK, JobShape, Handled

LEMMA StoreCacheStep ==
    ASSUME IInv, NEW i \in Indexer, StoreCache(i)
    PROVE  IInv'
  <1>1. PICK rec \in AfterCache(i) : job' = [job EXCEPT ![i] = rec]
    BY DEF StoreCache
  <1>0. PICK skipped \in SUBSET Skippable(i) :
            /\ Skips(skipped)
            /\ cache' = [p \in Paths |-> IF p \in skipped THEN Absent ELSE Stored(cache, i)[p]]
            /\ excused' = excused \cup Overtaken(i) \cup skipped
    BY DEF StoreCache
  <1>2. /\ job[i].at = "cache"
        /\ Overtaken(i) \subseteq excused' /\ excused \subseteq excused'
        /\ UNCHANGED <<disk, search, watching, feed, batch, working, health, edits, failed>>
    BY <1>0 DEF StoreCache
  <1>3. job[i] \in JobRecord /\ job[i].todo = {} /\ Handled(i) = Held(i)
    BY <1>2, Storing DEF IInv, TypeOK, JobRecord
  <1>4. \/ i = "reindex" /\ rec = NoJob
        \/ /\ rec \in JobRecord /\ rec.at = "search" /\ rec.todo = {}
           /\ rec.snap = job[i].snap
    BY <1>1, <1>3 DEF AfterCache, JobRecord
  <1>5. /\ job' \in [Indexer -> JobRecord] /\ JobsOK'
        /\ job'[i] = rec /\ \A j \in Indexer \ {i} : job'[j] = job[j]
    <2>1. CASE rec = NoJob
      BY <1>1, <2>1, JobEnds
    <2>2. CASE rec # NoJob
      <3>1. i = "watcher" => \A p, q \in Paths :
                 /\ p \in rec.todo \/ rec.snap[p] # Unread
                 /\ q \in rec.todo \/ rec.snap[q] # Unread
                 => p = q
        BY <1>4, <2>2 DEF IInv, JobsOK, Handled, Held
      <3> QED
        BY <1>1, <1>4, <2>2, <3>1, JobSet
    <2> QED
      BY <2>1, <2>2
  <1>6. /\ cache' \in [Paths -> Content \cup {Absent}]
        /\ \A p \in Paths \ excused' :
              cache'[p] = IF p \in Held(i) THEN job[i].snap[p] ELSE cache[p]
    <2>1. /\ Stored(cache, i) \in [Paths -> Content \cup {Absent}]
          /\ \A p \in Paths :
                Stored(cache, i)[p] = IF p \in Held(i) THEN job[i].snap[p] ELSE cache[p]
      BY <1>2, StoredIndex DEF IInv, TypeOK
    <2> QED
      BY <1>0, <2>1
  <1>7. excused' \subseteq Paths /\ upsets' \in 0..MaxUpsets
    <2>1. skipped \subseteq Paths /\ Overtaken(i) \subseteq Paths
      BY DEF Overtaken, Held, Skippable
    <2>2. Cardinality(skipped) \in Nat
      BY <2>1, VaultAssumption, FS_Subset, FS_CardinalityType
    <2>3. upsets \in 0..MaxUpsets /\ excused \subseteq Paths
      BY DEF IInv, TypeOK
    <2> QED
      BY <1>0, <2>1, <2>2, <2>3, VaultAssumption DEF Skips
  <1>8. TypeOK'
    BY <1>2, <1>5, <1>6, <1>7 DEF IInv, TypeOK, JobRecord
  <1>9. HealthHonest'
    <2>1. job["rescan"].at # "idle" => job'["rescan"].at # "idle"
      BY <1>4, <1>5 DEF Indexer
    <2> QED
      BY <1>2, <2>1 DEF IInv, HealthHonest
  <1>10. i # "reindex" => Held(i)' = Held(i) /\ Handled(i)' = Handled(i)
    BY <1>3, <1>4, <1>5 DEF Handled, Held
  <1>11. Startup'
    <2> SUFFICES ASSUME ~watching' PROVE Startup'
      BY DEF Startup
    <2>1. i = "rescan" /\ Startup /\ ~watching
      BY <1>2, Alone DEF IInv
    <2> QED
      BY <1>2, <1>5, <1>10, <2>1 DEF Startup
  <1>12. ASSUME NEW p \in Paths, p \notin excused'
         PROVE  Sound(p)'
    <2>1. Sound(p) /\ Scanned(p)' = Scanned(p) /\ "watcher" \in Indexer /\ "rescan" \in Indexer
      BY <1>2, <1>12 DEF IInv, Scanned, Indexer
    <2>2. i # "watcher" /\ p \in Held(i) => cache'[p] = Scanned(p)
      BY <1>2, <1>6, <1>12 DEF Overtaken
    <2>3. CASE watching /\ i # "watcher"
      <3>1. /\ job'["watcher"] = job["watcher"]
            /\ Handled("watcher")' = Handled("watcher")
        BY <1>5, <2>1, <2>3 DEF Handled, Held
      <3>2. cache'[p] = cache[p] \/ cache'[p] = Scanned(p)
        BY <1>6, <1>12, <2>2, <2>3
      <3>3. UpToDate("watcher", p) => UpToDate("watcher", p)'
        BY <2>1, <3>1, <3>2 DEF UpToDate, Held
      <3> QED
        BY <1>2, <2>1, <2>3, <3>1, <3>2, <3>3 DEF Sound
    <2>4. CASE watching /\ i = "watcher" /\ p \in Held(i)
      <3>1. UpToDate("watcher", p) => UpToDate("watcher", p)'
        BY <1>4, <1>5, <1>6, <1>12, <1>10, <2>1, <2>4 DEF UpToDate
      <3>2. p \notin job["watcher"].todo /\ p \in Handled("watcher")
        BY <1>3, <2>4
      <3> QED
        BY <1>2, <2>1, <2>4, <3>1, <3>2 DEF Sound
    <2>5. CASE watching /\ i = "watcher" /\ p \notin Held(i)
      <3>1. cache'[p] = cache[p] /\ p \notin Handled("watcher") /\ p \notin Handled("watcher")'
        BY <1>3, <1>6, <1>12, <1>10, <2>5
      <3> QED
        BY <1>2, <2>1, <2>5, <3>1 DEF Sound, UpToDate, Handled
    <2>6. CASE ~watching
      <3>1. i = "rescan"
        BY <1>2, <2>6, Alone
      <3>2. UpToDate("rescan", p)
        BY <1>3, <2>1, <2>6, <3>1 DEF Sound
      <3>3. UpToDate("rescan", p)'
        BY <1>4, <1>5, <1>6, <1>12, <1>10, <2>1, <3>1, <3>2 DEF UpToDate
      <3> QED
        BY <1>2, <2>6, <3>3 DEF Sound
    <2> QED
      BY <2>3, <2>4, <2>5, <2>6
  <1> QED
    BY <1>5, <1>8, <1>9, <1>11, <1>12 DEF IInv

LEMMA StoreSearchStep ==
    ASSUME IInv, NEW i \in Indexer, StoreSearch(i)
    PROVE  IInv'
  <1>1. /\ job[i].at = "search" /\ search' = Stored(search, i)
        /\ job' = [job EXCEPT ![i] = NoJob]
        /\ health' = Restored(i) /\ watching' = (watching \/ i = "rescan")
        /\ excused' = excused \cup Overtaken(i)
        /\ UNCHANGED <<disk, cache, feed, batch, working, counters, failed>>
    BY DEF StoreSearch
  <1>2. job[i].todo = {} /\ Handled(i) = Held(i)
    BY <1>1, Storing
  <1>3. /\ job' \in [Indexer -> JobRecord] /\ JobsOK'
        /\ job'[i] = NoJob /\ \A j \in Indexer \ {i} : job'[j] = job[j]
    BY <1>1, JobEnds
  <1>4. /\ search' \in [Paths -> Content \cup {Absent}]
        /\ \A p \in Paths :
              search'[p] = IF p \in Held(i) THEN job[i].snap[p] ELSE search[p]
    BY <1>1, StoredIndex DEF IInv, TypeOK
  <1>5. Overtaken(i) \subseteq Paths /\ health' \in {"healthy", "degraded"}
    BY <1>1 DEF Overtaken, Held, Restored, IInv, TypeOK
  <1>6. watching' \in BOOLEAN
    BY <1>1 DEF IInv, TypeOK
  <1>7. TypeOK'
    BY <1>1, <1>3, <1>4, <1>5, <1>6 DEF IInv, TypeOK, counters, JobRecord
  <1>8. HealthHonest'
    BY <1>1, <1>3 DEF IInv, HealthHonest, Restored, Indexer
  <1>9. watching'
    BY <1>1, Alone
  <1>10. Startup'
    BY <1>9 DEF Startup
  <1>11. ASSUME NEW p \in Paths, p \notin excused'
         PROVE  Sound(p)'
    <2>1. Sound(p) /\ Scanned(p)' = Scanned(p) /\ "watcher" \in Indexer /\ "rescan" \in Indexer
      BY <1>1, <1>11 DEF IInv, Scanned, Indexer
    <2>2. i # "watcher" /\ p \in Held(i) => search'[p] = Scanned(p)
      BY <1>1, <1>4, <1>11 DEF Overtaken
    <2>3. CASE watching /\ i # "watcher"
      <3>1. /\ job'["watcher"] = job["watcher"]
            /\ Handled("watcher")' = Handled("watcher")
        BY <1>3, <2>1, <2>3 DEF Handled, Held
      <3>2. search'[p] = search[p] \/ search'[p] = Scanned(p)
        BY <1>4, <2>2, <2>3
      <3>3. UpToDate("watcher", p) => UpToDate("watcher", p)'
        BY <1>1, <2>1, <3>1 DEF UpToDate, Held
      <3> QED
        BY <1>1, <1>9, <2>1, <2>3, <3>1, <3>2, <3>3 DEF Sound
    <2>4. CASE watching /\ i = "watcher"
      <3>1. p \notin Handled("watcher")'
        BY <1>3, <2>4, NoJobType DEF Handled, Held
      <3>2. p \notin Held(i) => search'[p] = search[p] /\ p \notin Handled("watcher")
        BY <1>2, <1>4, <2>4
      <3>3. UpToDate("watcher", p) => cache[p] = Scanned(p) /\ search'[p] = Scanned(p)
        BY <1>1, <1>4, <2>4 DEF UpToDate
      <3>4. p \notin job["watcher"].todo
        BY <1>2, <2>4
      <3>5. p \in Held(i) => p \in Handled("watcher")
        BY <1>2, <2>4
      <3> QED
        BY <1>1, <1>9, <2>1, <2>4, <3>1, <3>2, <3>3, <3>4, <3>5 DEF Sound
    <2>5. CASE ~watching
      <3>1. i = "rescan" /\ Startup
        BY <1>1, <2>5, Alone DEF IInv
      <3>2. UpToDate("rescan", p)
        BY <1>2, <2>1, <2>5, <3>1 DEF Sound
      <3>3. cache[p] = Scanned(p) /\ search'[p] = Scanned(p)
        BY <1>1, <1>4, <3>1, <3>2 DEF UpToDate
      <3>4. feed' = <<>> /\ batch'[p] = "none"
        BY <1>1, <2>5, <3>1 DEF Startup, NoBatch
      <3>5. ~LastIs(feed', p, "delete")
        BY <3>4 DEF LastIs
      <3>6. job'["watcher"] = NoJob
        BY <1>3, <2>1, <2>5, <3>1 DEF Startup
      <3>7. p \notin Handled("watcher")'
        BY <3>6, NoJobType DEF Handled, Held
      <3> QED
        BY <1>1, <1>9, <2>1, <3>3, <3>4, <3>5, <3>7 DEF Sound
    <2> QED
      BY <2>3, <2>4, <2>5
  <1> QED
    BY <1>3, <1>7, <1>8, <1>10, <1>11 DEF IInv

\* The watcher gives up its job and its batch.
LEMMA AbortSound ==
    ASSUME IInv, Aborted(Handled("watcher")), watching, job'["watcher"] = NoJob,
           UNCHANGED <<disk, indexes, watching, feed>>,
           NEW p \in Paths, p \notin excused'
    PROVE  Sound(p)'
  <1>1. p \notin Handled("watcher") /\ batch[p] = "none" /\ p \notin excused
    BY DEF Aborted
  <1>2. batch'[p] = "none" /\ p \notin Handled("watcher")'
    BY NoJobType DEF Aborted, NoBatch, Handled, Held
  <1>3. Sound(p) /\ Scanned(p)' = Scanned(p)
    BY <1>1 DEF IInv, Scanned
  <1> QED
    BY <1>1, <1>2, <1>3 DEF Sound, UpToDate, Handled, indexes

\* A job fails: ReadFails, WriterBusy and StoreFails.
LEMMA FailStep ==
    ASSUME IInv, NEW i \in Indexer, watching,
           job' = [job EXCEPT ![i] = NoJob],
           IF i = "watcher" THEN Aborted(Handled(i)) ELSE UNCHANGED <<batch, working, excused>>,
           failed' = (failed \/ (i = "rescan" /\ health = "degraded")),
           UNCHANGED <<disk, indexes, watching, feed, health, edits>>, upsets' \in 0..MaxUpsets
    PROVE  IInv'
  <1>1. /\ job' \in [Indexer -> JobRecord] /\ JobsOK'
        /\ job'[i] = NoJob /\ \A j \in Indexer \ {i} : job'[j] = job[j]
    BY JobEnds
  <1>2. TypeOK'
    <2>1. batch' \in [Paths -> Action \cup {"none"}] /\ working' \in BOOLEAN
      BY DEF IInv, TypeOK, Aborted, NoBatch
    <2>2. Handled("watcher") \subseteq Paths
      BY DEF IInv, TypeOK, Handled, Held, Indexer
    <2>3. excused' \subseteq Paths
      BY <2>2 DEF IInv, TypeOK, Aborted
    <2>4. failed' \in BOOLEAN
      BY DEF IInv, TypeOK
    <2> QED
      BY <1>1, <2>1, <2>3, <2>4 DEF IInv, TypeOK, indexes, JobRecord
  <1>3. HealthHonest'
    BY <1>1 DEF IInv, HealthHonest, Indexer
  <1>4. Startup'
    BY DEF Startup
  <1>5. ASSUME NEW p \in Paths, p \notin excused'
        PROVE  Sound(p)'
    <2>1. CASE i = "watcher"
      BY <1>1, <1>5, <2>1, AbortSound
    <2>2. CASE i # "watcher"
      <3>1. Sound(p) /\ job'["watcher"] = job["watcher"]
        BY <1>1, <1>5, <2>2 DEF IInv, Indexer
      <3> QED
        BY <2>2, <3>1, SoundFrame DEF indexes
    <2> QED
      BY <2>1, <2>2
  <1> QED
    BY <1>1, <1>2, <1>3, <1>4, <1>5 DEF IInv

LEMMA ReadFailsStep ==
    ASSUME IInv, NEW i \in Indexer, NEW q \in Paths, ReadFails(i, q)
    PROVE  IInv'
  <1>1. /\ i \notin Scanner /\ job[i].at = "read" /\ q \in job[i].todo
        /\ job' = [job EXCEPT ![i] = NoJob]
        /\ IF i = "watcher" THEN Aborted({q}) ELSE UNCHANGED <<batch, working, excused>>
        /\ UNCHANGED <<disk, indexes, watching, feed, health, counters, failed>>
    BY DEF ReadFails
  <1>2. watching /\ i # "rescan"
    BY <1>1, Alone DEF Scanner
  <1>3. i = "watcher" => Handled("watcher") = {q}
    <2> SUFFICES ASSUME i = "watcher" PROVE Handled("watcher") = {q}
      OBVIOUS
    <2>1. q \in Handled("watcher") /\ Handled("watcher") \subseteq Paths
      BY <1>1 DEF Handled, Held, IInv, TypeOK
    <2> QED
      BY <2>1, One
  <1>4. failed' = (failed \/ (i = "rescan" /\ health = "degraded"))
    BY <1>1, <1>2 DEF IInv, TypeOK
  <1>5. IF i = "watcher" THEN Aborted(Handled(i)) ELSE UNCHANGED <<batch, working, excused>>
    BY <1>1, <1>3
  <1>6. upsets' \in 0..MaxUpsets /\ UNCHANGED <<disk, indexes, watching, feed, health, edits>>
    BY <1>1 DEF IInv, TypeOK, counters
  <1> QED
    BY <1>1, <1>2, <1>4, <1>5, <1>6, FailStep

LEMMA GivesUpStep ==
    ASSUME IInv, NEW i \in Indexer, WriterBusy(i) \/ StoreFails(i)
    PROVE  IInv'
  <1>1. /\ job[i].at \in {"cache", "search"} /\ job' = [job EXCEPT ![i] = NoJob]
        /\ IF i = "watcher" THEN Aborted(Held(i)) ELSE UNCHANGED <<batch, working, excused>>
        /\ failed' = (failed \/ (i = "rescan" /\ health = "degraded"))
        /\ UNCHANGED <<disk, indexes, watching, feed, health, edits>>
    BY DEF WriterBusy, StoreFails, GivesUp
  <1>2. upsets' \in 0..MaxUpsets
    BY VaultAssumption DEF WriterBusy, StoreFails, IInv, TypeOK
  <1>3. watching
    <2>1. CASE WriterBusy(i)
      <3>1. PICK j \in Indexer \ {i} : job[j].at = "search"
        BY <2>1 DEF WriterBusy
      <3> QED
        BY <1>1, <3>1, Alone
    <2>2. CASE StoreFails(i)
      BY <2>2 DEF StoreFails
    <2> QED
      BY <2>1, <2>2
  <1>4. Handled(i) = Held(i)
    BY <1>1, Storing
  <1>5. IF i = "watcher" THEN Aborted(Handled(i)) ELSE UNCHANGED <<batch, working, excused>>
    BY <1>1, <1>4
  <1> QED
    BY <1>1, <1>2, <1>3, <1>5, FailStep

-----------------------------------------------------------------------------
(* Scans and restarts.                                                     *)

LEMMA ScanStep ==
    ASSUME IInv, Canary \/ ReindexVault
    PROVE  IInv'
  <1>1. PICK i \in Scanner : Scans(i) /\ (health' = "degraded" => i = "rescan" \/ health' = health)
    BY DEF Canary, ReindexVault, Scanner
  <1>2. /\ UNCHANGED <<disk, indexes, watching, feed, batch, working, edits,
                       excused, failed>>
        /\ upsets' \in 0..MaxUpsets /\ health' \in {"healthy", "degraded"}
    BY VaultAssumption DEF Canary, ReindexVault, counters, IInv, TypeOK
  <1>3. watching /\ i \in Indexer /\ job' = [job EXCEPT ![i] = Reading(Paths)]
    BY <1>1 DEF Scans, Scanner, Indexer
  <1>4. /\ job' \in [Indexer -> JobRecord] /\ JobsOK'
        /\ job'[i] = Reading(Paths) /\ \A j \in Indexer \ {i} : job'[j] = job[j]
    <2>1. i # "watcher"
      BY DEF Scanner
    <2>2. Paths \in SUBSET Paths
      OBVIOUS
    <2>3. Reading(Paths) \in JobRecord /\ Reading(Paths).at = "read"
      BY <2>2, NoJobType
    <2> QED
      BY <1>3, <2>1, <2>3, JobSet
  <1>5. TypeOK'
    BY <1>2, <1>4 DEF IInv, TypeOK, indexes, JobRecord
  <1>6. HealthHonest'
    <2>1. i = "rescan" => job'["rescan"].at # "idle"
      BY <1>4, NoJobType
    <2>2. i # "rescan" => job'["rescan"] = job["rescan"]
      BY <1>4 DEF Indexer
    <2> QED
      BY <1>1, <1>2, <2>1, <2>2 DEF IInv, HealthHonest
  <1>7. Startup'
    BY <1>2, <1>3 DEF Startup
  <1>8. ASSUME NEW p \in Paths, p \notin excused'
        PROVE  Sound(p)'
    <2>1. Sound(p) /\ job'["watcher"] = job["watcher"]
      BY <1>2, <1>4, <1>8 DEF IInv, Indexer, Scanner
    <2> QED
      BY <1>2, <1>3, <2>1, SoundFrame DEF indexes
  <1> QED
    BY <1>4, <1>5, <1>6, <1>7, <1>8 DEF IInv

LEMMA RestartStep ==
    ASSUME IInv, Restart
    PROVE  IInv'
  <1>1. /\ watching' = FALSE /\ feed' = <<>> /\ batch' = NoBatch /\ working' = FALSE
        /\ job' = StartupJobs /\ health' = "healthy" /\ excused' = {} /\ failed' = FALSE
        /\ UNCHANGED <<disk, indexes, edits>>
    BY DEF Restart
  <1>2. upsets' \in 0..MaxUpsets
    BY VaultAssumption DEF Restart, IInv, TypeOK
  <1>3. /\ job'["rescan"] = Reading(Paths)
        /\ \A i \in Indexer \ {"rescan"} : job'[i] = NoJob
        /\ job' \in [Indexer -> JobRecord]
    BY <1>1, NoJobType DEF StartupJobs, Indexer
  <1>4. TypeOK'
    <2>1. batch' \in [Paths -> Action \cup {"none"}] /\ feed' \in Seq(Paths \X Action)
      BY <1>1 DEF NoBatch
    <2> QED
      BY <1>1, <1>2, <1>3, <2>1 DEF IInv, TypeOK, indexes, JobRecord
  <1>5. JobsOK'
    <2>1. \A i \in Indexer : JobShape(i)'
      BY <1>3, NoJobType DEF JobShape
    <2> QED
      BY <1>3, <2>1, NoJobType DEF JobsOK, Handled, Held, Indexer
  <1>6. Startup'
    BY <1>1, <1>3, NoJobType DEF Startup, Handled, Held
  <1>7. HealthHonest'
    BY <1>1 DEF HealthHonest
  <1>8. \A p \in Paths : Sound(p)'
    BY <1>1, <1>3, NoJobType DEF Sound
  <1> QED
    BY <1>4, <1>5, <1>6, <1>7, <1>8 DEF IInv

-----------------------------------------------------------------------------
(* The theorems.                                                           *)

LEMMA NextInv == IInv /\ [Next]_vars => IInv'
  <1> SUFFICES ASSUME IInv, [Next]_vars PROVE IInv'
    OBVIOUS
  <1>1. CASE Change
    BY <1>1, EditStep, AgentStep, MoveStep DEF Change
  <1>2. CASE Watcher
    BY <1>2, ReceiveStep, BatchStep, HandleStep DEF Watcher
  <1>3. CASE Canary \/ ReindexVault
    BY <1>3, ScanStep
  <1>4. CASE Restart
    BY <1>4, RestartStep
  <1>5. CASE Jobs
    BY <1>5, StoreCacheStep, StoreSearchStep, GivesUpStep, ReadStep, ReadFailsStep DEF Jobs, Step
  <1>6. CASE UNCHANGED vars
    <2>1. TypeOK' /\ JobsOK' /\ HealthHonest' /\ Startup' /\ excused' = excused
      BY <1>6 DEF vars, indexes, counters, IInv, TypeOK, JobsOK, JobShape, Handled, Held,
                  HealthHonest, Startup
    <2>2. ASSUME NEW p \in Paths, p \notin excused' PROVE Sound(p)'
      BY <1>6, <2>2, SoundFrame DEF vars, indexes, IInv
    <2> QED
      BY <2>1, <2>2 DEF IInv
  <1> QED
    BY <1>1, <1>2, <1>3, <1>4, <1>5, <1>6 DEF Next

\* Along every behaviour the invariant above holds: it is what the other
\* theorems read off.
THEOREM InvariantKept == Spec => []IInv
  BY InitInv, NextInv, PTL DEF Spec

\* Every state the daemon's indexing can reach is well-typed; in particular no
\* file that cannot be read becomes a note of an index.
THEOREM TypeCorrect == Spec => []TypeOK
  <1>1. IInv => TypeOK
    BY DEF IInv
  <1> QED
    BY <1>1, InvariantKept, PTL

\* Whatever interleaving of edits, batches, scans and agents' writes, a note for
\* which nothing is on its way is indexed as its file says, unless its change
\* was not reported, given up with a batch, skipped by a scan that could not
\* write it, or overtaken by an older scan.
THEOREM IndexesSettle == Spec => []IndexSettled
  BY InvSettles, InvariantKept, PTL

\* The watcher's health says degraded only during a rescan of the canary or
\* after one failed.
THEOREM HealthStaysHonest == Spec => []HealthHonest
  <1>1. IInv => HealthHonest
    BY DEF IInv
  <1> QED
    BY <1>1, InvariantKept, PTL

=============================================================================
