--------------------------- MODULE FireTimesProofs ---------------------------
(***************************************************************************)
(* The searches of jobs/schedule.rs find the right fire for every length   *)
(* of the day, every time of day, every civil time zone and at every       *)
(* instant: a week is enough, however a weekend and a change of the clock  *)
(* fall together.                                                          *)
(***************************************************************************)
EXTENDS FireTimes, TLAPS

-----------------------------------------------------------------------------
(* Days of the wall clock.                                                 *)

LEMMA DaySplit ==
    ASSUME NEW q \in Int, NEW r \in 0..(DayLen - 1), NEW x \in Int,
           x = q * DayLen + r
    PROVE  x \div DayLen = q /\ x % DayLen = r
  BY ScheduleAssumption

LEMMA DayParts ==
    ASSUME NEW x \in Int
    PROVE  /\ x \div DayLen \in Int
           /\ x % DayLen \in 0..(DayLen - 1)
           /\ x = (x \div DayLen) * DayLen + (x % DayLen)
  BY ScheduleAssumption

LEMMA DayGrows ==
    ASSUME NEW x \in Int, NEW y \in Int, x <= y
    PROVE  x \div DayLen <= y \div DayLen
  BY ScheduleAssumption

\* Two readings of one day are less than a day apart.
LEMMA SameDay ==
    ASSUME NEW x \in Int, NEW y \in Int, x \div DayLen = y \div DayLen
    PROVE  x - y < DayLen
<1>1. /\ x = (x \div DayLen) * DayLen + (x % DayLen)
      /\ y = (y \div DayLen) * DayLen + (y % DayLen)
      /\ x % DayLen \in 0..(DayLen - 1) /\ y % DayLen \in 0..(DayLen - 1)
      /\ x \div DayLen \in Int
  BY DayParts
<1> DEFINE m == (x \div DayLen) * DayLen
<1>2. m \in Int
  BY <1>1, ScheduleAssumption
<1>3. x = m + (x % DayLen) /\ y = m + (y % DayLen)
  BY <1>1
<1> HIDE DEF m
<1> QED
  BY <1>1, <1>2, <1>3, ScheduleAssumption

\* The same time on two days is at least a day apart.
LEMMA LaterDay ==
    ASSUME NEW d \in Int, NEW e \in Int, d < e
    PROVE  /\ d * DayLen \in Int /\ e * DayLen \in Int
           /\ e * DayLen - d * DayLen >= DayLen
  BY ScheduleAssumption

-----------------------------------------------------------------------------
(* The wall clock.                                                         *)

\* The zone of the schedule.
zone == s.timezone

LEMMA ScheduleType ==
    ASSUME s \in Schedules
    PROVE  /\ zone \in Zone /\ CivilZone(zone)
           /\ zone.before \in Int /\ zone.after \in Int /\ zone.change \in Int
           /\ s.time \in 0..(DayLen - 1)
           /\ s.time \in Int
           /\ s.weekdays_only \in BOOLEAN
<1>1. zone \in Zones /\ s.time \in Times /\ s.weekdays_only \in BOOLEAN
  BY DEF Schedules, zone
<1>2. zone \in Zone /\ CivilZone(zone) /\ s.time \in 0..(DayLen - 1)
  BY <1>1, FireTimesAssumption
<1>3. s.time \in Int
  BY <1>2, ScheduleAssumption
<1> QED
  BY <1>1, <1>2, <1>3 DEF Zone

LEMMA ReadingType ==
    ASSUME s \in Schedules, NEW t \in Int
    PROVE  /\ reading(t) \in Int
           /\ t < zone.change => reading(t) = t + zone.before
           /\ t >= zone.change => reading(t) = t + zone.after
           /\ date_in_zone(t, s.timezone) = reading(t) \div DayLen
           /\ date_in_zone(t, s.timezone) \in Int
<1>1. reading(t) \in Int
  BY ScheduleType DEF reading, offset, zone
<1>2. date_in_zone(t, s.timezone) = reading(t) \div DayLen
  BY DEF date_in_zone, reading
<1> QED
  BY <1>1, <1>2, ScheduleType, DayParts DEF reading, offset, zone

\* A wall-clock reading is resolved to the first instant that shows it; one that
\* is not resolved is skipped by the change.
LEMMA Resolved ==
    ASSUME s \in Schedules, NEW x \in Int
    PROVE  LET u == resolve_local(x, s.timezone)
           IN  /\ u # None => /\ u \in Int /\ reading(u) = x
                              /\ \A v \in Int : reading(v) = x => u <= v
               /\ u = None => /\ x >= zone.change + zone.before
                              /\ x < zone.change + zone.after
                              /\ \A v \in Int : reading(v) # x
<1>1. /\ s.timezone.before \in Int /\ s.timezone.after \in Int
      /\ s.timezone.change \in Int
  BY ScheduleType DEF zone
<1> QED
  BY <1>1, ScheduleAssumption DEF resolve_local, reading, offset, zone

\* The date never goes back.
LEMMA DatesGrow ==
    ASSUME s \in Schedules, NEW t \in Int, NEW v \in Int, t <= v
    PROVE  date_in_zone(t, s.timezone) <= date_in_zone(v, s.timezone)
<1> DEFINE c == zone.change
           date(x) == date_in_zone(x, s.timezone)
<1>1. c \in Int /\ c - 1 \in Int
  BY ScheduleType
<1>2. ASSUME NEW x \in Int, NEW y \in Int, x <= y, x < c <=> y < c
      PROVE  date(x) <= date(y)
  <2>1. reading(x) <= reading(y)
    BY <1>1, <1>2, ReadingType, ScheduleType
  <2> QED
    BY <2>1, ReadingType, DayGrows
<1>3. CASE t < c <=> v < c
  BY <1>2, <1>3
<1>4. CASE ~ (t < c <=> v < c)
  <2>1. t <= c - 1 /\ t < c /\ c <= v
    BY <1>1, <1>4
  <2>2. date(t) <= date(c - 1)
    BY <1>1, <1>2, <2>1
  <2>3. date(c) <= date(v)
    BY <1>1, <1>2, <2>1
  <2>4. date(c - 1) <= date(c)
    BY ScheduleType DEF CivilZone, zone
  <2>5. /\ date(t) \in Int /\ date(c - 1) \in Int /\ date(c) \in Int
        /\ date(v) \in Int
    BY <1>1, ReadingType
  <2>6. \A h, i, j, k \in Int : h <= i /\ i <= j /\ j <= k => h <= k
    OBVIOUS
  <2> QED
    BY <2>2, <2>3, <2>4, <2>5, <2>6, Zenon
<1> QED
  BY <1>3, <1>4

-----------------------------------------------------------------------------
(* The fire of a date.                                                     *)

\* A date on which the schedule fires.
Allowed(d) == s.weekdays_only => weekday(d) \notin {Saturday, Sunday}

LEMMA FireOnIs ==
    ASSUME s \in Schedules, NEW d \in Int
    PROVE  /\ d * DayLen + s.time \in Int
           /\ fire_on(d, s) = IF Allowed(d)
                              THEN resolve_local(d * DayLen + s.time, s.timezone)
                              ELSE None
  BY ScheduleType, ScheduleAssumption DEF fire_on, Allowed

\* What fire_on answers is a fire, on that date.
LEMMA FireOnFires ==
    ASSUME s \in Schedules, NEW d \in Int, fire_on(d, s) # None
    PROVE  /\ fire_on(d, s) \in Int
           /\ IsFire(fire_on(d, s))
           /\ date_in_zone(fire_on(d, s), s.timezone) = d
<1> DEFINE f == fire_on(d, s)
           x == d * DayLen + s.time
<1>1. Allowed(d) /\ f = resolve_local(x, s.timezone) /\ x \in Int
  BY FireOnIs
<1>2. f \in Int /\ reading(f) = x /\ \A v \in Int : reading(v) = x => f <= v
  BY <1>1, Resolved
<1>3. x \div DayLen = d /\ x % DayLen = s.time
  BY <1>1, ScheduleType, DaySplit
<1> HIDE DEF f, x
<1>4. \A u \in (f - DayLen)..(f - 1) : reading(u) # reading(f)
  BY <1>2, ScheduleAssumption
<1>5. IsFire(f)
  BY <1>1, <1>2, <1>3, <1>4 DEF IsFire, Allowed
<1>6. date_in_zone(f, s.timezone) = d
  BY <1>2, <1>3, ReadingType
<1> QED
  BY <1>2, <1>5, <1>6 DEF f

\* Every fire is what fire_on answers for its date.
LEMMA FireIsOn ==
    ASSUME s \in Schedules, NEW t \in Int, IsFire(t)
    PROVE  fire_on(date_in_zone(t, s.timezone), s) = t
<1> DEFINE x == reading(t)
           d == date_in_zone(t, s.timezone)
           u == resolve_local(x, s.timezone)
           c == zone.change
<1>1. x \in Int /\ d = x \div DayLen /\ d \in Int
  BY ReadingType
<1>2. x = d * DayLen + s.time /\ Allowed(d)
  <2>1. x = (x \div DayLen) * DayLen + (x % DayLen)
    BY <1>1, DayParts
  <2>2. x % DayLen = s.time /\ Allowed(x \div DayLen)
    BY DEF IsFire, Allowed
  <2> QED
    BY ONLY <1>1, <2>1, <2>2, Zenon
<1>3. fire_on(d, s) = u
  BY <1>1, <1>2, FireOnIs
<1>4. u # None /\ u \in Int /\ reading(u) = reading(t) /\ u <= t
  BY <1>1, Resolved
<1>5. ASSUME u < t
      PROVE  FALSE
  <2>0. c \in Int /\ zone.before \in Int /\ zone.after \in Int /\ DayLen \in Nat
    BY ScheduleType, ScheduleAssumption
  <2> HIDE DEF x, d, u
  <2>1. u < c /\ c <= t /\ t - u = zone.before - zone.after
    BY <1>4, <1>5, <2>0, ReadingType
  <2>2. reading(c - 1) = c - 1 + zone.before /\ reading(c) = c + zone.after
    BY <2>0, ReadingType
  <2>3. reading(c) <= reading(c - 1)
    BY <1>4, <1>5, <2>0, <2>1, <2>2
  <2>4. reading(c) \div DayLen = reading(c - 1) \div DayLen
    <3>1. reading(c) \div DayLen <= reading(c - 1) \div DayLen
      BY <2>0, <2>3, ReadingType, DayGrows
    <3>2. reading(c - 1) \div DayLen <= reading(c) \div DayLen
      BY <2>0, ReadingType, ScheduleType DEF CivilZone, zone
    <3>3. reading(c) \div DayLen \in Int /\ reading(c - 1) \div DayLen \in Int
      BY <2>0, ReadingType, DayParts
    <3> QED
      BY <3>1, <3>2, <3>3
  <2>5. reading(c - 1) - reading(c) < DayLen
    <3>1. reading(c) \in Int /\ reading(c - 1) \in Int
      BY <2>0, ReadingType
    <3> QED
      BY <2>4, <3>1, SameDay
  <2>6. u \in (t - DayLen)..(t - 1)
    BY <1>4, <1>5, <2>0, <2>1, <2>2, <2>5
  <2> QED
    BY <1>4, <2>6 DEF IsFire
<1> QED
  BY <1>3, <1>4, <1>5

\* A change of the clock skips the fire of one day at most.
LEMMA OneSkipped ==
    ASSUME s \in Schedules, NEW d \in Int, NEW e \in Int, d < e,
           Allowed(d), Allowed(e), fire_on(d, s) = None
    PROVE  fire_on(e, s) # None
<1> SUFFICES ASSUME fire_on(e, s) = None
             PROVE  FALSE
  OBVIOUS
<1> DEFINE x == d * DayLen + s.time
           y == e * DayLen + s.time
<1>1. x \in Int /\ y \in Int /\ x >= zone.change + zone.before /\ y < zone.change + zone.after
  BY FireOnIs, Resolved
<1>2. y - x >= DayLen
  BY LaterDay, ScheduleType, ScheduleAssumption
<1>3. zone.after - zone.before <= DayLen
  BY ScheduleType DEF CivilZone
<1> HIDE DEF x, y
<1> QED
  BY <1>1, <1>2, <1>3, ScheduleType, ScheduleAssumption

\* Of the next five days one has a fire.
LEMMA FireInWeek ==
    ASSUME s \in Schedules, NEW d \in Int
    PROVE  \E k \in 1..5 : fire_on(d + k, s) # None
<1>1. \/ Allowed(d + 1) /\ Allowed(d + 3)
      \/ Allowed(d + 1) /\ Allowed(d + 5)
      \/ Allowed(d + 3) /\ Allowed(d + 5)
  <2>1. \A n \in {1, 3, 5} : weekday(d + n) = (d + n) % 7
    BY DEF weekday
  <2>2. \/ (d + 1) % 7 \notin {5, 6} /\ (d + 3) % 7 \notin {5, 6}
        \/ (d + 1) % 7 \notin {5, 6} /\ (d + 5) % 7 \notin {5, 6}
        \/ (d + 3) % 7 \notin {5, 6} /\ (d + 5) % 7 \notin {5, 6}
    OBVIOUS
  <2> QED
    BY <2>1, <2>2 DEF Allowed, Saturday, Sunday
<1>2. fire_on(d + 1, s) # None \/ fire_on(d + 3, s) # None \/ fire_on(d + 5, s) # None
  BY <1>1, OneSkipped
<1> QED
  BY <1>2

-----------------------------------------------------------------------------
(* The searches.                                                           *)

\* No fire after t up to v.
NoFire(t, v) == \A u \in (t + 1)..v : ~ IsFire(u)

\* The last fire up to v is found: a later day has none up to v, and a fire
\* that is more than five days old would not be the last.
LEMMA RecentFireIs ==
    ASSUME s \in Schedules, NEW t \in Int, NEW v \in Int, t <= v,
           IsFire(t), NoFire(t, v)
    PROVE  most_recent_fire(v, s) = t
<1> DEFINE today == date_in_zone(v, s.timezone)
           day == date_in_zone(t, s.timezone)
           back == today - day
           fire_(d) == fire_on(today - d, s)
           good(d) == fire_(d) # None /\ fire_(d) <= v
           least(d) == good(d) /\ \A e \in SearchDays : e < d => ~ good(e)
           hit == First(SearchDays, good)
<1>1. today \in Int /\ day \in Int /\ day <= today /\ back \in Nat
  <2>1. today \in Int /\ day \in Int /\ day <= today
    BY ReadingType, DatesGrow
  <2> HIDE DEF today, day
  <2> QED
    BY <2>1
<1>2. fire_on(day, s) = t
  BY FireIsOn
<1>3. ASSUME NEW d \in Int, day < d, fire_on(d, s) # None
      PROVE  fire_on(d, s) \in Int /\ fire_on(d, s) > v
  <2> DEFINE f == fire_on(d, s)
  <2>1. f \in Int /\ IsFire(f) /\ date_in_zone(f, s.timezone) = d
    BY <1>3, FireOnFires
  <2> HIDE DEF f
  <2>2. ~ (f <= t)
    <3> SUFFICES ASSUME f <= t PROVE FALSE
      OBVIOUS
    <3>1. d <= day
      BY <2>1, DatesGrow
    <3> QED
      BY <1>1, <1>3, <3>1
  <2>3. f > v
    BY <2>1, <2>2 DEF NoFire
  <2> QED
    BY <2>1, <2>3 DEF f
<1>4. back <= 5
  <2>1. PICK k \in 1..5 : fire_on(day + k, s) # None
    BY <1>1, FireInWeek
  <2> DEFINE d == day + k
             f == fire_on(d, s)
  <2>2. d \in Int /\ day < d
    BY <1>1
  <2>3. f \in Int /\ f > v /\ date_in_zone(f, s.timezone) = d
    BY <1>3, <2>1, <2>2, FireOnFires
  <2>4. today <= d
    BY <2>3, DatesGrow
  <2> HIDE DEF today, day
  <2> QED
    BY <1>1, <2>1, <2>4
<1> HIDE DEF today, day
<1>5. back \in SearchDays /\ today - back = day
  BY <1>1, <1>4 DEF SearchDays
<1>6. good(back) /\ fire_(back) = t
  <2>1. fire_(back) = t
    BY <1>2, <1>5
  <2>2. t # None
    BY ScheduleAssumption
  <2> HIDE DEF fire_
  <2> QED
    BY <2>1, <2>2
<1>7. \A e \in SearchDays : e < back => ~ good(e)
  <2> SUFFICES ASSUME NEW e \in SearchDays, e < back, fire_(e) # None, fire_(e) <= v
               PROVE  FALSE
    OBVIOUS
  <2>1. today - e \in Int /\ day < today - e
    BY <1>1 DEF SearchDays
  <2>2. fire_(e) \in Int /\ fire_(e) > v
    BY <1>3, <2>1
  <2> HIDE DEF fire_
  <2> QED
    BY <2>2
<1>8. hit = IF \E d \in SearchDays : least(d)
            THEN CHOOSE d \in SearchDays : least(d) ELSE None
  BY DEF First
<1>9. most_recent_fire(v, s) = IF hit = None THEN None ELSE fire_(hit)
  BY DEF most_recent_fire, today
<1> HIDE DEF good, fire_, hit, back
<1>10. least(back)
  BY <1>6, <1>7
<1>11. hit \in SearchDays /\ least(hit)
  BY <1>5, <1>8, <1>10
<1>12. hit = back
  <2>1. hit \in Int /\ back \in Int
    BY <1>5, <1>11 DEF SearchDays
  <2>2. ~ (hit < back) /\ ~ (back < hit)
    BY <1>5, <1>10, <1>11
  <2> QED
    BY <2>1, <2>2
<1>13. hit # None
  BY <1>11, ScheduleAssumption DEF SearchDays
<1> QED
  BY <1>6, <1>9, <1>12, <1>13

\* The next fire after t is found, and there always is one.
LEMMA NextFireIs ==
    ASSUME s \in Schedules, NEW t \in Int
    PROVE  LET n == next_fire(t, s)
           IN  n \in Int /\ n > t /\ IsFire(n) /\ NoFire(t, n - 1)
<1> DEFINE today == date_in_zone(t, s.timezone)
           fire_(d) == fire_on(today + d, s)
           good(d) == fire_(d) # None /\ fire_(d) > t
           least(d) == good(d) /\ \A e \in SearchDays : e < d => ~ good(e)
           hit == First(SearchDays, good)
<1>1. today \in Int
  BY ReadingType
<1>2. PICK k \in SearchDays : good(k)
  <2>1. PICK k \in 1..5 : fire_on(today + k, s) # None
    BY <1>1, FireInWeek
  <2> DEFINE d == today + k
             f == fire_on(d, s)
  <2>2. f \in Int /\ date_in_zone(f, s.timezone) = d /\ d \in Int /\ today < d
    BY <1>1, <2>1, FireOnFires
  <2>3. ~ (f <= t)
    <3> SUFFICES ASSUME f <= t PROVE FALSE
      OBVIOUS
    <3>1. d <= today
      BY <2>2, DatesGrow
    <3> HIDE DEF d, today
    <3> QED
      BY <1>1, <2>2, <3>1
  <2>4. f > t
    BY <2>2, <2>3
  <2> QED
    BY <2>1, <2>4 DEF SearchDays
<1>3. \E d \in SearchDays : least(d)
  <2> HIDE DEF good
  <2>1. \/ good(0) \/ good(1) \/ good(2) \/ good(3) \/ good(4) \/ good(5)
        \/ good(6) \/ good(7)
    BY <1>2 DEF SearchDays
  <2>2. CASE good(0)
    BY <2>2 DEF SearchDays
  <2>3. CASE good(1) /\ ~ good(0)
    BY <2>3 DEF SearchDays
  <2>4. CASE good(2) /\ ~ good(1) /\ ~ good(0)
    BY <2>4 DEF SearchDays
  <2>5. CASE good(3) /\ ~ good(2) /\ ~ good(1) /\ ~ good(0)
    BY <2>5 DEF SearchDays
  <2>6. CASE good(4) /\ ~ good(3) /\ ~ good(2) /\ ~ good(1) /\ ~ good(0)
    BY <2>6 DEF SearchDays
  <2>7. CASE /\ good(5) /\ ~ good(4) /\ ~ good(3) /\ ~ good(2) /\ ~ good(1)
             /\ ~ good(0)
    BY <2>7 DEF SearchDays
  <2>8. CASE /\ good(6) /\ ~ good(5) /\ ~ good(4) /\ ~ good(3) /\ ~ good(2)
             /\ ~ good(1) /\ ~ good(0)
    BY <2>8 DEF SearchDays
  <2>9. CASE /\ good(7) /\ ~ good(6) /\ ~ good(5) /\ ~ good(4) /\ ~ good(3)
             /\ ~ good(2) /\ ~ good(1) /\ ~ good(0)
    BY <2>9 DEF SearchDays
  <2> QED
    BY <2>1, <2>2, <2>3, <2>4, <2>5, <2>6, <2>7, <2>8, <2>9
<1>4. hit = IF \E d \in SearchDays : least(d)
            THEN CHOOSE d \in SearchDays : least(d) ELSE None
  BY DEF First
<1>5. next_fire(t, s) = IF hit = None THEN None ELSE fire_(hit)
  BY DEF next_fire
<1> HIDE DEF hit
<1>6. hit \in SearchDays /\ least(hit) /\ hit # None
  <2> HIDE DEF good
  <2>1. hit \in SearchDays /\ least(hit)
    BY <1>3, <1>4
  <2> QED
    BY <2>1, ScheduleAssumption DEF SearchDays
<1> DEFINE n == fire_(hit)
           day == today + hit
<1>7. n = next_fire(t, s)
  BY <1>5, <1>6
<1>8. day \in Int
  BY <1>1, <1>6 DEF SearchDays
<1>9. n \in Int /\ n > t /\ IsFire(n) /\ date_in_zone(n, s.timezone) = day
  BY <1>6, <1>8, FireOnFires
<1>10. ASSUME NEW u \in (t + 1)..(n - 1), IsFire(u)
       PROVE  FALSE
  <2> DEFINE date == date_in_zone(u, s.timezone)
  <2>1. u \in Int /\ t < u /\ u < n
    BY <1>9
  <2>2. date \in Int /\ today <= date /\ date <= day
    BY <1>9, <2>1, ReadingType, DatesGrow
  <2>3. fire_on(date, s) = u
    BY <1>10, <2>1, FireIsOn
  <2>4. date # day
    BY <1>9, <2>1, <2>3
  <2> DEFINE e == date - today
  <2>5. e \in SearchDays /\ e < hit /\ today + e = date
    <3> HIDE DEF date, today
    <3> QED
      BY <1>1, <1>6, <2>2, <2>4 DEF SearchDays
  <2>6. fire_(e) = u
    BY <2>3, <2>5
  <2>7. good(e)
    BY <2>1, <2>6, ScheduleAssumption
  <2> HIDE DEF good, e
  <2> QED
    BY <1>6, <2>5, <2>7
<1> HIDE DEF n
<1> QED
  BY <1>7, <1>9, <1>10 DEF NoFire

-----------------------------------------------------------------------------
(* The theorems.                                                           *)

TypeOK == s \in Schedules /\ now \in Int

LEMMA TypeKept == Spec => []TypeOK
<1>1. Init => TypeOK
  BY DEF Init, TypeOK
<1>2. TypeOK /\ [Tick]_vars => TypeOK'
  BY DEF TypeOK, Tick, vars
<1> QED
  BY <1>1, <1>2, PTL DEF Spec

\* The runner catches up on the right fire: at every instant most_recent_fire
\* is the last time the wall clock showed the schedule's time, for the first
\* time, on a day that counts.  That needs the search to look back five days,
\* over a weekend and a fire that the change of the clock skipped; the code
\* looks back seven.
THEOREM LatestFireFound == Spec => []LatestFire
<1>1. TypeOK => LatestFire
  <2> SUFFICES ASSUME TypeOK, NEW t \in (now - Horizon)..now, IsFire(t),
                      \A u \in (t + 1)..now : ~ IsFire(u)
               PROVE  most_recent_fire(now, s) = t
    BY DEF LatestFire
  <2>1. Horizon \in Int
    BY ScheduleAssumption DEF Horizon
  <2>2. t \in Int /\ now \in Int /\ t <= now
    BY <2>1 DEF TypeOK
  <2> QED
    BY <2>2, RecentFireIs DEF TypeOK, NoFire
<1> QED
  BY <1>1, TypeKept, PTL

\* What the UI announces happens: next_fire always has an answer, keeps it
\* until that instant, and then most_recent_fire is that fire, so that the job
\* is due for what was announced.
THEOREM AnnouncedFiresCome == Spec => AnnouncedFireComes
<1> DEFINE n == next_fire(now, s)
           Kept == /\ n # None
                   /\ IF now' < n THEN next_fire(now', s) = n
                      ELSE most_recent_fire(now', s) = n
<1>1. ASSUME TypeOK, Tick
      PROVE  Kept
  <2>1. now \in Int /\ now' = now + 1 /\ now' \in Int /\ s \in Schedules
    BY <1>1 DEF TypeOK, Tick
  <2>2. n \in Int /\ n > now /\ IsFire(n) /\ NoFire(now, n - 1)
    BY <2>1, NextFireIs
  <2>3. n # None
    BY <2>2, ScheduleAssumption
  <2>4. CASE now + 1 < n
    <3> DEFINE m == next_fire(now + 1, s)
    <3>1. m \in Int /\ m > now + 1 /\ IsFire(m) /\ NoFire(now + 1, m - 1)
      BY <2>1, NextFireIs
    <3> HIDE DEF n, m
    <3>2. ~ (m < n)
      BY <2>1, <2>2, <3>1 DEF NoFire
    <3>3. ~ (n < m)
      BY <2>1, <2>2, <2>4, <3>1 DEF NoFire
    <3>4. m = n
      BY <2>2, <3>1, <3>2, <3>3
    <3> QED
      BY <2>1, <2>3, <2>4, <3>4 DEF m
  <2>5. CASE ~ (now + 1 < n)
    <3>1. now + 1 = n
      BY <2>1, <2>2, <2>5
    <3>2. NoFire(now + 1, now + 1)
      BY <2>1 DEF NoFire
    <3>3. most_recent_fire(now + 1, s) = n
      <4>1. IsFire(now + 1)
        BY <2>2, <3>1
      <4>2. most_recent_fire(now + 1, s) = now + 1
        BY <2>1, <3>2, <4>1, RecentFireIs
      <4> QED
        BY <3>1, <4>2
    <3> HIDE DEF n
    <3> QED
      BY <2>1, <2>3, <2>5, <3>3
  <2> QED
    BY <2>4, <2>5
<1>2. TypeOK /\ [Tick]_vars => [Kept]_vars
  BY <1>1
<1> QED
  BY <1>2, TypeKept, PTL DEF Spec, AnnouncedFireComes

=============================================================================
