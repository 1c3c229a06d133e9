------------------------------ MODULE HikMarkProofs ------------------------------
(***************************************************************************)
(* What holds with one controller only: the serial and the time of a        *)
(* persisted mark are those of one event, although live and replayed events *)
(* advance them by separate comparisons and in any order, and a backfill    *)
(* that ran to its end has fired what was logged while the entry was down.  *)
(***************************************************************************)
EXTENDS HikIngestProofs

USE DEF deviceVars, backfillVars, budgetVars

\* MarkNamesOneEvent of any store of the sensors' states.
Names(m, c, r) ==
    IF m.lastSerial = 0
    THEN m.lastTime = 0 /\ m.count = 0
    ELSE /\ m.lastSerial <= Len(log[c])
         /\ log[c][m.lastSerial].reader = r
         /\ log[c][m.lastSerial].time = m.lastTime

MarksName(sen) == \A c \in Controllers, r \in Readers : Names(sen[c][r], c, r)

\* A later serial has no earlier time, and none a time to come by its
\* controller's clock.
LogOrdered ==
    \A c \in Controllers :
        /\ \A i \in 1..Len(log[c]) : log[c][i].time <= now + lead[c]
        /\ \A i, j \in 1..Len(log[c]) : i <= j => log[c][i].time <= log[c][j].time

MarkInv == LogOrdered /\ MarksName(sensor) /\ MarksName(disk.sensor)

LEMMA OrderedStep ==
    ASSUME TypeOK, LogOrdered, [Next]_vars
    PROVE  LogOrdered'
<1> USE DEF TypeOK
<1>1. /\ now \in Nat /\ lead' = lead
      /\ \A c \in Controllers : log[c] \in Seq(Event) /\ lead[c] \in Nat
    BY LeadStays, Stamped DEF DeviceTypeOK
<1>2. ASSUME NEW c \in Controllers, Occur(c) PROVE LogOrdered'
    <2>1. PICK e \in Event : log' = [log EXCEPT ![c] = Append(@, e)]
                        /\ e.time = now + lead[c]
        <3>1. PICK r \in Readers \cup {NoReader}, card \in BOOLEAN :
                  log' = [log EXCEPT ![c] =
                             Append(@, [time |-> now + lead[c], reader |-> r, card |-> card])]
            BY <1>2 DEF Occur
        <3> DEFINE e == [time |-> now + lead[c], reader |-> r, card |-> card]
        <3>2. e \in Event /\ e.time = now + lead[c]
            BY <1>1 DEF Event
        <3> QED
            BY <3>1, <3>2
    <2>2. now' = now
        BY <1>2 DEF Occur
    <2>3. ASSUME NEW d \in Controllers
          PROVE  /\ \A i \in 1..Len(log'[d]) : log'[d][i].time <= now + lead[d]
                 /\ \A i, j \in 1..Len(log'[d]) :
                        i <= j => log'[d][i].time <= log'[d][j].time
        <3>1. CASE d # c
            BY <2>1, <3>1 DEF LogOrdered, DeviceTypeOK
        <3>2. CASE d = c
            <4>1. log'[c] = Append(log[c], e)
                BY <2>1 DEF DeviceTypeOK
            <4>2. /\ Len(log'[c]) = Len(log[c]) + 1 /\ Len(log[c]) \in Nat
                  /\ \A i \in 1..Len(log[c]) : log'[c][i] = log[c][i]
                  /\ log'[c][Len(log[c]) + 1] = e
                BY <1>1, <4>1
            <4>3. \A i \in 1..Len(log'[c]) : log'[c][i].time <= now + lead[c]
                BY <1>1, <2>1, <4>2 DEF LogOrdered
            <4>4. ASSUME NEW i \in 1..Len(log'[c]), NEW j \in 1..Len(log'[c]), i <= j
                  PROVE  log'[c][i].time <= log'[c][j].time
                <5>1. CASE j = Len(log[c]) + 1
                    BY <2>1, <4>2, <4>3, <5>1
                <5>2. CASE j # Len(log[c]) + 1
                    <6>1. i \in 1..Len(log[c]) /\ j \in 1..Len(log[c])
                        BY <4>2, <4>4, <5>2
                    <6> QED
                        BY <4>2, <4>4, <6>1 DEF LogOrdered
                <5> QED
                    BY <5>1, <5>2
            <4> QED
                BY <3>2, <4>3, <4>4
        <3> QED
            BY <3>1, <3>2
    <2> QED
        BY <1>1, <2>2, <2>3 DEF LogOrdered
<1>3. CASE Tick
    <2>1. log' = log /\ now' = now + 1
        BY <1>3 DEF Tick
    <2>2. \A c \in Controllers : \A i \in 1..Len(log[c]) : log[c][i].time \in Nat
        <3>1. ASSUME NEW c \in Controllers, NEW i \in 1..Len(log[c])
              PROVE  log[c][i] \in Event
            BY <1>1
        <3> QED
            BY <3>1 DEF Event
    <2> QED
        BY <1>1, <2>1, <2>2 DEF LogOrdered
<1>4. CASE UNCHANGED <<now, log>>
    BY <1>1, <1>4 DEF LogOrdered
<1>5. \/ \E c \in Controllers : Occur(c)
      \/ Tick
      \/ UNCHANGED <<now, log>>
    BY DEF Next, vars, Dump, Crash, Load, Unload, Close, Connect, Drop, Live, Fetch, Cap,
           FetchFails, Replay, Import, Finish
<1> QED
    BY <1>2, <1>3, <1>4, <1>5

\* What a mark names, it still names once the log has grown.
LEMMA NamesGrow ==
    ASSUME TypeOK, [Next]_vars, NEW sen \in [Controllers -> [Readers -> Sensor]],
           MarksName(sen)
    PROVE  MarksName(sen)'
<1> SUFFICES ASSUME NEW c \in Controllers, NEW r \in Readers
             PROVE  Names(sen[c][r], c, r)'
    BY DEF MarksName
<1> DEFINE m == sen[c][r]
<1>1. m \in Sensor /\ m.lastSerial \in Nat
    BY DEF Sensor
<1>2. Names(m, c, r)
    BY DEF MarksName
<1>3. CASE m.lastSerial = 0
    BY <1>2, <1>3 DEF Names
<1>4. CASE m.lastSerial # 0
    <2>1. Len(log[c]) \in Nat /\ Len(log'[c]) \in Nat /\ Len(log[c]) <= MaxLog
        BY DeviceTypeStep DEF TypeOK, DeviceTypeOK
    <2>2. m.lastSerial <= Len(log[c]) /\ m.lastSerial \in Serials
        BY <1>1, <1>2, <1>4, <2>1, SerialsType, BoundsAssumption DEF Names
    <2>3. Len(log[c]) <= Len(log'[c]) /\ log'[c][m.lastSerial] = log[c][m.lastSerial]
        BY <2>2, LogGrows DEF TypeOK
    <2> QED
        BY <1>1, <1>2, <1>4, <2>1, <2>2, <2>3 DEF Names
<1> QED
    BY <1>3, <1>4

\* A mark that advances names the later one of its event and the one at hand.
LEMMA AdvanceNames ==
    ASSUME TypeOK, LogOrdered, NEW c \in Controllers, NEW r \in Readers,
           NEW m \in Sensor, Names(m, c, r),
           NEW s \in Serials, s <= Len(log[c]), log[c][s].reader = r
    PROVE  Names(Advance(m, s, log[c][s]), c, r)
<1> DEFINE e == log[c][s]
           n == Advance(m, s, e)
<1>1. log[c] \in Seq(Event) /\ s \in 1..Len(log[c]) /\ s \in Nat /\ s # 0
    BY SerialsType DEF TypeOK, DeviceTypeOK
<1>2. e.time \in Nat /\ m.lastSerial \in Nat /\ m.lastTime \in Nat
    <2>1. e \in Event
        BY <1>1
    <2> QED
        BY <2>1 DEF Event, Sensor
<1>3. /\ n.lastSerial = IF s > m.lastSerial THEN s ELSE m.lastSerial
      /\ n.lastTime = IF e.time > m.lastTime THEN e.time ELSE m.lastTime
    BY DEF Advance
<1> HIDE DEF n
<1>4. CASE m.lastSerial = 0
    <2>1. n.lastSerial = s /\ n.lastTime = e.time
        BY <1>1, <1>2, <1>3, <1>4 DEF Names
    <2> QED
        BY <1>1, <2>1 DEF Names, n
<1>5. CASE m.lastSerial # 0
    <2>1. /\ m.lastSerial \in 1..Len(log[c])
          /\ log[c][m.lastSerial].reader = r /\ log[c][m.lastSerial].time = m.lastTime
        BY <1>1, <1>2, <1>5 DEF Names
    <2>2. CASE s > m.lastSerial
        <3>1. m.lastTime <= e.time
            BY <1>1, <1>2, <2>1, <2>2 DEF LogOrdered
        <3>2. n.lastSerial = s /\ n.lastTime = e.time
            BY <1>2, <1>3, <2>2, <3>1
        <3> QED
            BY <1>1, <3>2 DEF Names, n
    <2>3. CASE ~(s > m.lastSerial)
        <3>1. e.time <= m.lastTime
            BY <1>1, <1>2, <2>1, <2>3 DEF LogOrdered
        <3>2. n.lastSerial = m.lastSerial /\ n.lastTime = m.lastTime
            BY <1>2, <1>3, <2>3, <3>1
        <3> QED
            BY <1>5, <2>1, <3>2 DEF Names, n
    <2> QED
        BY <2>2, <2>3
<1> QED
    BY <1>4, <1>5

\* With one controller every event that a sensor hears is in that controller's log,
\* and every mark that is restored was one that a sensor had.
LEMMA MarkStep ==
    ASSUME NEW c0, Controllers = {c0}, TypeOK, MarkInv, [Next]_vars
    PROVE  MarkInv'
<1>1. LogOrdered'
    BY OrderedStep DEF MarkInv
<1>2. /\ sensor \in [Controllers -> [Readers -> Sensor]]
      /\ disk.sensor \in [Controllers -> [Readers -> Sensor]]
    BY DEF TypeOK, EntryTypeOK, StoreTypeOK
<1>3. ASSUME NEW sen, sen = sensor \/ sen = disk.sensor
      PROVE  MarksName(sen)'
    <2>1. sen \in [Controllers -> [Readers -> Sensor]] /\ MarksName(sen)
        BY <1>2, <1>3 DEF MarkInv
    <2> QED
        BY <2>1, NamesGrow
<1>4. CASE UNCHANGED <<sensor, disk>>
    BY <1>1, <1>3, <1>4 DEF MarkInv
<1>5. CASE Dump
    BY <1>1, <1>3, <1>5 DEF MarkInv, Dump
<1>6. CASE Crash
    BY <1>1, <1>3, <1>6 DEF MarkInv, Crash
<1>7. ASSUME NEW c \in Controllers, NEW s \in Serials, s <= Len(log[c]),
             Deliver(c, s), UNCHANGED <<log, disk>>
      PROVE  MarkInv'
    <2>1. ASSUME NEW d \in Controllers, NEW r \in Readers
          PROVE  Names(sensor'[d][r], d, r)
        <3>1. Names(sensor[d][r], d, r) /\ sensor[d][r] \in Sensor /\ d = c
            BY <1>2 DEF MarkInv, MarksName
        <3>2. log[c][s].reader = r => Names(Advance(sensor[c][r], s, log[c][s]), c, r)
            BY <1>7, <3>1, AdvanceNames DEF MarkInv
        <3>3. \/ sensor'[c][r] = sensor[c][r]
              \/ /\ log[c][s].reader = r
                 /\ sensor'[c][r] = Advance(sensor[c][r], s, log[c][s])
            BY <1>7 DEF Deliver
        <3> QED
            BY <3>1, <3>2, <3>3
    <2>2. MarksName(sensor)'
        BY <1>7, <2>1 DEF MarksName, Names
    <2>3. MarksName(disk.sensor)'
        BY <1>3, <1>7
    <2> QED
        BY <1>1, <2>2, <2>3 DEF MarkInv
<1>8. CASE \E c \in Controllers : Live(c) \/ Replay(c)
    <2>1. PICK c \in Controllers : Live(c) \/ Replay(c)
        BY <1>8
    <2>2. UNCHANGED <<log, disk>>
        BY <2>1 DEF Live, Replay
    <2>3. CASE UNCHANGED <<sensor, fired, ingested>>
        BY <1>4, <2>2, <2>3
    <2>4. CASE \E s \in Serials : s <= Len(log[c]) /\ Deliver(c, s)
        BY <1>7, <2>2, <2>4
    <2> QED
        BY <2>1, <2>3, <2>4, Deliveries
<1> QED
    BY <1>4, <1>5, <1>6, <1>8
       DEF Next, vars, Tick, Occur, Load, Unload, Close, Connect, Drop, Fetch, Cap,
           FetchFails, Import, Finish

LEMMA MarkInvariant ==
    ASSUME NEW c0, Controllers = {c0}
    PROVE  Spec => []MarkInv
<1>1. Init => MarkInv
    BY DEF Init, MarkInv, LogOrdered, MarksName, Names, NewSensors, NewSensor
<1>2. TypeOK /\ MarkInv /\ [Next]_vars => MarkInv'
    BY MarkStep
<1> QED
    BY <1>1, <1>2, TypeCorrect, PTL DEF Spec

\* With one controller, whatever order the live and the replayed events come in, and
\* whatever a restart restores, a sensor's persisted serial and time are those of one
\* logged event of its reader (TotalSwipesSensor._on_event).
THEOREM OneEventMarks ==
    ASSUME NEW c0, Controllers = {c0}
    PROVE  Spec => []MarkNamesOneEvent
<1>1. MarkInv => MarkNamesOneEvent
    BY DEF MarkInv, MarksName, Names, MarkNamesOneEvent
<1> QED
    BY <1>1, MarkInvariant, PTL

-----------------------------------------------------------------------------
(* The pager: the ranks of the matches are 1, 2, ... without a gap, so a    *)
(* cursor that moves by the length of each page skips none, and an empty     *)
(* page means that none is left.                                             *)

RankIn(M, s) == Cardinality({t \in M : t <= s})
PageOf(M, n) == {s \in M : n < RankIn(M, s) /\ RankIn(M, s) <= n + PageSize}

LEMMA Ranks ==
    ASSUME NEW M \in SUBSET Serials
    PROVE  /\ IsFiniteSet(M) /\ Cardinality(M) \in Nat
           /\ \A s \in M : RankIn(M, s) \in 1..Cardinality(M)
           /\ \A s, t \in M : s < t => RankIn(M, s) < RankIn(M, t)
           /\ \A n \in 1..Cardinality(M) : \E s \in M : RankIn(M, s) = n
<1> DEFINE Upto(s) == {t \in M : t <= s}
           N == Cardinality(M)
<1>1. IsFiniteSet(M) /\ N \in Nat /\ M \subseteq Nat
    <2>1. IsFiniteSet(Serials) /\ Serials \subseteq Nat
        BY FS_Interval, BoundsAssumption DEF Serials
    <2> QED
        BY <2>1, FS_Subset, FS_CardinalityType
<1>2. ASSUME NEW s \in M
      PROVE  IsFiniteSet(Upto(s)) /\ Cardinality(Upto(s)) \in 1..N
    <2>1. Upto(s) \subseteq M /\ s \in Upto(s)
        BY <1>1
    <2>2. IsFiniteSet(Upto(s)) /\ Cardinality(Upto(s)) \in Nat /\ Cardinality(Upto(s)) <= N
        BY <1>1, <2>1, FS_Subset, FS_CardinalityType
    <2>3. Cardinality(Upto(s)) # 0
        BY <2>1, <2>2, FS_EmptySet
    <2> HIDE DEF Upto
    <2> QED
        BY <1>1, <2>2, <2>3
<1>3. ASSUME NEW s \in M, NEW t \in M, s < t
      PROVE  Cardinality(Upto(s)) < Cardinality(Upto(t))
    <2>1. Upto(s) \cup {t} \subseteq Upto(t) /\ t \notin Upto(s)
        <3>1. s \in Nat /\ t \in Nat /\ \A u \in M : u \in Nat
            BY <1>1
        <3>2. \A u \in M : u <= s => u <= t
            BY <1>3, <3>1
        <3>3. ~(t <= s) /\ t <= t
            BY <1>3, <3>1
        <3> QED
            BY <3>2, <3>3
    <2>2. Cardinality(Upto(s) \cup {t}) = Cardinality(Upto(s)) + 1
        BY <1>2, <2>1, FS_AddElement
    <2>3. Cardinality(Upto(s) \cup {t}) <= Cardinality(Upto(t))
        BY <1>2, <2>1, FS_Subset
    <2>4. Cardinality(Upto(s)) \in Nat /\ Cardinality(Upto(t)) \in Nat
        BY <1>2
    <2> HIDE DEF Upto
    <2> QED
        BY <2>2, <2>3, <2>4
<1>4. ASSUME NEW n \in 1..N PROVE \E s \in M : Cardinality(Upto(s)) = n
    <2> DEFINE f == [s \in M |-> Cardinality(Upto(s))]
    <2>1. f \in [M -> 1..N]
        BY <1>2
    <2>2. ASSUME NEW s \in M, NEW t \in M, f[s] = f[t] PROVE s = t
        <3>1. s < t \/ t < s \/ s = t
            BY <1>1
        <3>2. Cardinality(Upto(s)) = Cardinality(Upto(t))
            BY <2>2
        <3>3. Cardinality(Upto(s)) \in Nat /\ Cardinality(Upto(t)) \in Nat
            BY <1>2
        <3> HIDE DEF Upto
        <3> QED
            BY <1>3, <3>1, <3>2, <3>3
    <2>3. f \in Injection(M, 1..N)
        BY <2>1, <2>2 DEF Injection, IsInjective
    <2>4. IsFiniteSet(1..N) /\ Cardinality(1..N) = N
        BY <1>1, FS_Interval
    <2>5. f \in Surjection(M, 1..N)
        BY <2>3, <2>4, FS_Injection
    <2> QED
        BY <2>5 DEF Surjection
<1> QED
    BY <1>1, <1>2, <1>3, <1>4 DEF RankIn

LEMMA PageSizes ==
    ASSUME NEW M \in SUBSET Serials, NEW n \in 0..Cardinality(M)
    PROVE  /\ Cardinality(PageOf(M, n)) \in 0..PageSize
           /\ n + Cardinality(PageOf(M, n)) <= Cardinality(M)
           /\ PageOf(M, n) = {} => \A s \in M : RankIn(M, s) <= n
<1> DEFINE P == PageOf(M, n)
           N == Cardinality(M)
<1>1. N \in Nat /\ n \in Nat /\ n <= N /\ PageSize \in Nat /\ PageSize > 0
    BY Ranks, PagingAssumption
<1>2. \A s \in M : RankIn(M, s) \in 1..N
    BY Ranks
<1>3. ASSUME NEW m \in Nat, \A s \in P : RankIn(M, s) \in (n + 1)..m, n <= m
      PROVE  Cardinality(P) \in Nat /\ Cardinality(P) <= m - n
    <2> DEFINE f == [s \in P |-> RankIn(M, s)]
    <2>1. f \in [P -> (n + 1)..m]
        BY <1>3
    <2>2. ASSUME NEW s \in P, NEW t \in P, f[s] = f[t] PROVE s = t
        <3>1. s \in M /\ t \in M /\ s \in Nat /\ t \in Nat
            BY SerialsType DEF PageOf
        <3>2. RankIn(M, s) = RankIn(M, t) /\ RankIn(M, s) \in Nat
            BY <1>2, <2>2, <3>1
        <3>3. s < t => RankIn(M, s) < RankIn(M, t)
            BY <3>1, Ranks
        <3>4. t < s => RankIn(M, t) < RankIn(M, s)
            BY <3>1, Ranks
        <3> QED
            BY <3>1, <3>2, <3>3, <3>4
    <2>3. f \in Injection(P, (n + 1)..m)
        BY <2>1, <2>2 DEF Injection, IsInjective
    <2>4. IsFiniteSet((n + 1)..m) /\ Cardinality((n + 1)..m) = m - n
        <3>1. n + 1 \in Int /\ m \in Int
            BY <1>1, <1>3
        <3>2. /\ IsFiniteSet((n + 1)..m)
              /\ Cardinality((n + 1)..m) = IF n + 1 > m THEN 0 ELSE m - (n + 1) + 1
            BY <3>1, FS_Interval
        <3> QED
            BY <1>1, <1>3, <3>2
    <2>5. IsFiniteSet(P) /\ Cardinality(P) <= Cardinality((n + 1)..m)
        BY <2>3, <2>4, FS_Injection
    <2> QED
        BY <2>4, <2>5, FS_CardinalityType
<1>4. \A s \in P : RankIn(M, s) \in (n + 1)..N /\ RankIn(M, s) \in (n + 1)..(n + PageSize)
    BY <1>1, <1>2 DEF PageOf
<1>5. Cardinality(P) \in Nat /\ Cardinality(P) <= N - n
    BY <1>1, <1>3, <1>4
<1>6. Cardinality(P) <= (n + PageSize) - n
    BY <1>1, <1>3, <1>4
<1>7. ASSUME P = {}, NEW s \in M PROVE RankIn(M, s) <= n
    <2>1. SUFFICES ASSUME RankIn(M, s) > n PROVE FALSE
        BY <1>1, <1>2
    <2>2. n + 1 \in 1..N
        BY <1>1, <1>2, <2>1
    <2>3. PICK t \in M : RankIn(M, t) = n + 1
        BY <2>2, Ranks
    <2>4. t \in P
        BY <1>1, <2>3 DEF PageOf
    <2> QED
        BY <1>7, <2>4
<1> HIDE DEF P, N
<1>8. Cardinality(P) \in 0..PageSize /\ n + Cardinality(P) <= N
    BY <1>1, <1>5, <1>6
<1> QED
    BY <1>7, <1>8 DEF P, N

-----------------------------------------------------------------------------
(* A completed backfill has fired the downtime.  What was logged while the  *)
(* entry was down is above every mark, so the search contains what of it is *)
(* within the configured window, and the filter lets it pass.                *)

OfflineAt(c) ==
    /\ 1 <= offline[c].first /\ offline[c].first <= Len(log[c]) + 1
    /\ offline[c].last <= Len(log[c])
    /\ entry[c] = "down" =>
           /\ offline[c].last = 0
           /\ \A r \in Readers : /\ sensor[c][r].lastSerial < offline[c].first
                                 /\ disk.sensor[c][r].lastSerial < offline[c].first

Found(c) ==
    result[c] = "complete" =>
        \A s \in offline[c].first..offline[c].last :
            Reached(c, s) => fired[c][s] >= 1

SearchAt(c) ==
    /\ ~Running(c) => pos[c] = 0 /\ seen[c] = {}
    /\ Running(c) =>
           /\ \A s \in offline[c].first..offline[c].last :
                  /\ s > window[c].high
                  /\ Reached(c, s) => s \in Matches(c)
           /\ \A s \in seen[c] : s > window[c].high => fired[c][s] >= 1
           /\ ~StuckCursor =>
                  /\ pos[c] <= Cardinality(Matches(c))
                  /\ \A s \in Matches(c) :
                         RankIn(Matches(c), s) <= pos[c] => s \in seen[c] \cup page[c]

DowntimeInv == \A c \in Controllers : OfflineAt(c) /\ SearchAt(c) /\ Found(c)

LEMMA OfflineStep ==
    ASSUME NEW c \in Controllers, Controllers = {c}, TypeOK, MarkInv, [Next]_vars,
           OfflineAt(c)
    PROVE  OfflineAt(c)'
<1> USE DEF TypeOK
<1>1. /\ Len(log[c]) \in Nat /\ Len(log'[c]) \in Nat /\ Len(log[c]) <= Len(log'[c])
      /\ offline[c].first \in Nat /\ offline[c].last \in Nat
    BY Kinds DEF RecordTypeOK
<1>2. ASSUME NEW r \in Readers
      PROVE  /\ sensor[c][r].lastSerial \in Nat /\ sensor[c][r].lastSerial <= Len(log[c])
             /\ disk.sensor[c][r].lastSerial \in Nat
             /\ disk.sensor[c][r].lastSerial <= Len(log[c])
    <2>1. sensor[c][r] \in Sensor /\ disk.sensor[c][r] \in Sensor
        BY DEF EntryTypeOK, StoreTypeOK
    <2>2. Names(sensor[c][r], c, r) /\ Names(disk.sensor[c][r], c, r)
        BY DEF MarkInv, MarksName
    <2>3. sensor[c][r].lastSerial \in Nat /\ disk.sensor[c][r].lastSerial \in Nat
        BY <2>1 DEF Sensor
    <2> QED
        BY <1>1, <2>2, <2>3 DEF Names
<1>3. CASE Occur(c)
    <2>1. UNCHANGED <<entry, sensor, disk, offline>>
        BY <1>3 DEF Occur
    <2> QED
        BY <1>1, <2>1 DEF OfflineAt
<1>4. CASE Load(c)
    <2>1. /\ entry'[c] = "loaded" /\ log' = log
          /\ offline'[c].first = offline[c].first /\ offline'[c].last = Len(log[c])
        BY <1>4 DEF Load, EntryTypeOK, RecordTypeOK
    <2> QED
        BY <1>1, <2>1 DEF OfflineAt
<1>5. CASE Unload(c)
    <2>1. entry'[c] = "unloading" /\ UNCHANGED <<log, offline>>
        BY <1>5 DEF Unload, EntryTypeOK
    <2> QED
        BY <2>1 DEF OfflineAt
<1>6. CASE Close(c)
    <2>1. /\ offline'[c] = [first |-> Len(log[c]) + 1, last |-> 0]
          /\ UNCHANGED <<log, sensor, disk>>
        BY <1>6 DEF Close, RecordTypeOK
    <2> QED
        BY <1>1, <1>2, <2>1 DEF OfflineAt
<1>7. CASE Crash
    <2>1. /\ offline'[c] = IF entry[c] = "down" THEN [offline[c] EXCEPT !.last = 0]
                           ELSE [first |-> Len(log[c]) + 1, last |-> 0]
          /\ sensor' = disk.sensor /\ UNCHANGED <<log, disk>>
        BY <1>7 DEF Crash
    <2>2. CASE entry[c] = "down"
        <3>1. offline'[c].first = offline[c].first /\ offline'[c].last = 0
            BY <2>1, <2>2 DEF RecordTypeOK
        <3> QED
            BY <1>1, <2>1, <2>2, <3>1 DEF OfflineAt
    <2>3. CASE entry[c] # "down"
        BY <1>1, <1>2, <2>1, <2>3 DEF OfflineAt
    <2> QED
        BY <2>2, <2>3
<1>8. CASE Dump
    <2>1. disk'.sensor = sensor /\ UNCHANGED <<log, entry, sensor, offline>>
        BY <1>8 DEF Dump
    <2> QED
        BY <2>1 DEF OfflineAt
<1>9. CASE Live(c) \/ Replay(c)
    <2>1. UNCHANGED <<log, entry, disk, offline>>
        BY <1>9 DEF Live, Replay
    <2>2. entry[c] = "down" => \A r \in Readers : sensor'[c][r] = sensor[c][r]
        <3>1. CASE UNCHANGED <<sensor, fired, ingested>>
            BY <3>1
        <3>2. CASE \E s \in Serials : s <= Len(log[c]) /\ Deliver(c, s)
            BY <3>2 DEF Deliver, Listening
        <3> QED
            BY <1>9, <3>1, <3>2, Deliveries
    <2> QED
        BY <2>1, <2>2 DEF OfflineAt
<1>10. CASE UNCHANGED <<log, entry, sensor, disk, offline>>
    BY <1>10 DEF OfflineAt
<1> QED
    BY <1>3, <1>4, <1>5, <1>6, <1>7, <1>8, <1>9, <1>10
       DEF Next, vars, Tick, Connect, Drop, Fetch, Cap, FetchFails, Import, Finish

LEMMA MatchesType ==
    ASSUME TypeOK, NEW c \in Controllers
    PROVE  /\ Matches(c) \in SUBSET Serials
           /\ \A s \in Matches(c) : s \in Nat /\ s <= Len(log[c])
           /\ Answer(c) = PageOf(Matches(c), IF StuckCursor THEN 0 ELSE pos[c])
<1>1. Len(log[c]) \in Nat /\ Len(log[c]) <= MaxLog
    BY DEF TypeOK, DeviceTypeOK
<1>2. Matches(c) \subseteq 1..Len(log[c])
    BY DEF Matches
<1>3. Answer(c) = PageOf(Matches(c), IF StuckCursor THEN 0 ELSE pos[c])
    BY DEF Answer, PageOf, Rank, RankIn
<1> QED
    BY <1>1, <1>2, <1>3, BoundsAssumption DEF Serials

\* An event that is logged while the backfill runs comes after all that matched.
LEMMA MatchesGrow ==
    ASSUME TypeOK, [Next]_vars, NEW c \in Controllers, window'[c] = window[c]
    PROVE  /\ Matches(c) \subseteq Matches(c)'
           /\ Cardinality(Matches(c)) <= Cardinality(Matches(c)')
           /\ \A s \in Matches(c) : RankIn(Matches(c)', s) = RankIn(Matches(c), s)
           /\ \A s \in Matches(c)' :
                  s \notin Matches(c) => RankIn(Matches(c)', s) > Cardinality(Matches(c))
<1> DEFINE M == Matches(c)
           N == Matches(c)'
<1>1. /\ Len(log[c]) \in Nat /\ Len(log'[c]) \in Nat /\ Len(log[c]) <= Len(log'[c])
      /\ Len(log'[c]) <= MaxLog
      /\ \A s \in 1..Len(log[c]) : log'[c][s] = log[c][s]
    <2>1. DeviceTypeOK'
        BY DeviceTypeStep
    <2>2. Len(log'[c]) <= MaxLog /\ Len(log[c]) <= MaxLog
        BY <2>1 DEF TypeOK, DeviceTypeOK
    <2> QED
        BY <2>2, Kinds, BoundsAssumption DEF Serials
<1>2. N = {s \in 1..Len(log'[c]) : window[c].from <= log'[c][s].time
                                   /\ log'[c][s].time <= window[c].until}
    BY DEF Matches
<1>3. M = {s \in N : s <= Len(log[c])}
    BY <1>1, <1>2 DEF Matches
<1>4. M \in SUBSET Serials /\ N \in SUBSET Serials /\ M \subseteq N
    <2>1. N \subseteq 1..Len(log'[c])
        BY <1>2
    <2> QED
        BY <1>1, <1>3, <2>1, BoundsAssumption DEF Serials
<1>5. /\ IsFiniteSet(M) /\ IsFiniteSet(N)
      /\ Cardinality(M) \in Nat /\ Cardinality(N) \in Nat /\ Cardinality(M) <= Cardinality(N)
    BY <1>4, Ranks, FS_Subset
<1> HIDE DEF M, N
<1>6. ASSUME NEW s \in M PROVE RankIn(N, s) = RankIn(M, s)
    <2>1. \A t \in N : t <= s => t \in M
        BY <1>1, <1>3, <1>4, SerialsType
    <2>2. {t \in N : t <= s} = {t \in M : t <= s}
        BY <1>4, <2>1
    <2> QED
        BY <2>2 DEF RankIn
<1>7. ASSUME NEW s \in N, s \notin M PROVE RankIn(N, s) > Cardinality(M)
    <2>1. s > Len(log[c]) /\ s \in Nat
        BY <1>1, <1>3, <1>4, <1>7, SerialsType
    <2>2. \A t \in M : t \in N /\ t <= s
        BY <1>1, <1>3, <1>4, <2>1, SerialsType
    <2>3. M \cup {s} \subseteq {t \in N : t <= s}
        BY <2>1, <2>2
    <2>4. Cardinality(M \cup {s}) = Cardinality(M) + 1
        BY <1>5, <1>7, FS_AddElement
    <2>5. /\ IsFiniteSet({t \in N : t <= s})
          /\ Cardinality({t \in N : t <= s}) \in Nat
        BY <1>5, FS_Subset, FS_CardinalityType
    <2>6. Cardinality(M \cup {s}) <= RankIn(N, s)
        BY <2>3, <2>5, FS_Subset DEF RankIn
    <2> QED
        BY <1>5, <2>4, <2>5, <2>6 DEF RankIn
<1> QED
    BY <1>4, <1>5, <1>6, <1>7 DEF M, N

\* A load's window holds the downtime, as far as the option reaches.
LEMMA LoadWindow ==
    ASSUME NEW c \in Controllers, Controllers = {c}, TypeOK, MarkInv, OfflineAt(c),
           Load(c), bfpc'[c] = "fetch",
           NEW s \in offline'[c].first..offline'[c].last
    PROVE  /\ s > window'[c].high
           /\ Reached(c, s)' => s \in Matches(c)'
<1> USE DEF TypeOK
<1>1. /\ log' = log /\ now' = now /\ lead' = lead /\ entry[c] = "down"
      /\ offline'[c].first = offline[c].first /\ offline'[c].last = Len(log[c])
    BY DEF Load, RecordTypeOK
<1>2. /\ Len(log[c]) \in Nat /\ offline[c].first \in Nat /\ offline[c].first >= 1
      /\ s \in 1..Len(log[c]) /\ s >= offline[c].first /\ now \in Nat
    <2>1. Len(log[c]) \in Nat /\ offline[c].first \in Nat /\ now \in Nat
        BY DEF DeviceTypeOK, RecordTypeOK
    <2> QED
        BY <1>1, <2>1 DEF OfflineAt
<1>3. PICK w \in Windows, high \in SerialMarks(c), latest \in TimeMarks(c) :
          window'[c] = [high  |-> high, deep |-> Before(End, w),
                        from  |-> Later(latest, Before(End, w)), until |-> End]
    BY DEF Load, BackfillTypeOK
<1>4. /\ log[c][s].time \in Nat /\ log[c][s].time <= now + lead[c]
      /\ now \in Nat /\ lead[c] \in Nat /\ HomeLead \in Nat
    <2>1. log[c] \in Seq(Event)
        BY DEF DeviceTypeOK
    <2>2. log[c][s] \in Event
        BY <1>2, <2>1
    <2> QED
        BY <1>2, <2>2, Stamped DEF Event, MarkInv, LogOrdered
<1>5. ASSUME NEW r \in Readers
      PROVE  /\ sensor[c][r].lastSerial < s
             /\ sensor[c][r].lastTime \in Nat /\ sensor[c][r].lastTime <= log[c][s].time
    <2>1. sensor[c][r] \in Sensor /\ Names(sensor[c][r], c, r)
        BY DEF EntryTypeOK, MarkInv, MarksName
    <2>2. sensor[c][r].lastSerial \in Nat /\ sensor[c][r].lastTime \in Nat
        BY <2>1 DEF Sensor
    <2>3. sensor[c][r].lastSerial < s
        BY <1>1, <1>2, <2>2 DEF OfflineAt
    <2>4. CASE sensor[c][r].lastSerial = 0
        BY <1>4, <2>1, <2>2, <2>3, <2>4 DEF Names
    <2>5. CASE sensor[c][r].lastSerial # 0
        <3>1. /\ sensor[c][r].lastSerial \in 1..Len(log[c])
              /\ log[c][sensor[c][r].lastSerial].time = sensor[c][r].lastTime
            BY <1>2, <2>1, <2>2, <2>5 DEF Names
        <3>2. log[c][sensor[c][r].lastSerial].time <= log[c][s].time
            BY <1>2, <2>2, <2>3, <3>1 DEF MarkInv, LogOrdered
        <3> QED
            BY <2>2, <2>3, <3>1, <3>2
    <2> QED
        BY <2>4, <2>5
<1>6. high = 0 \/ \E r \in Readers : high = sensor[c][r].lastSerial
    BY DEF SerialMarks, MarkedSensors
<1>7. latest = 0 \/ \E r \in Readers : latest = sensor[c][r].lastTime
    BY DEF TimeMarks, MarkedSensors
<1>8. high < s /\ latest \in Nat /\ latest <= log[c][s].time
    BY <1>2, <1>4, <1>5, <1>6, <1>7
<1>9. ASSUME Reached(c, s)'
      PROVE  window'[c].from <= log[c][s].time /\ log[c][s].time <= window'[c].until
    <2>1. /\ window'[c].from = Later(latest, window'[c].deep) /\ window'[c].until = now + HomeLead
          /\ log[c][s].time >= window'[c].deep
          /\ lead[c] > HomeLead => log[c][s].time <= window'[c].until
        BY <1>1, <1>3, <1>9 DEF Reached, End
    <2>2. log[c][s].time <= window'[c].until
        BY <1>4, <2>1
    <2> QED
        BY <1>8, <2>1, <2>2 DEF Later
<1>10. s > window'[c].high
    BY <1>2, <1>3, <1>8
<1> QED
    BY <1>1, <1>2, <1>9, <1>10 DEF Matches

LEMMA SearchStep ==
    ASSUME NEW c \in Controllers, Controllers = {c}, TypeOK, MarkInv, [Next]_vars,
           PageAt(c), OfflineAt(c), SearchAt(c), Found(c)
    PROVE  SearchAt(c)' /\ Found(c)'
<1> USE DEF TypeOK
<1> DEFINE Downtime == offline[c].first..offline[c].last
<1>1. /\ fired[c] \in [Serials -> Nat] /\ pos[c] \in Nat
      /\ Len(log[c]) \in Nat /\ page[c] \subseteq Serials /\ seen[c] \subseteq Serials
      /\ window[c].high \in Nat /\ lead' = lead
    BY Kinds DEF BackfillTypeOK
<1>2. ASSUME NEW s \in Downtime
      PROVE  s \in Serials /\ s <= Len(log[c]) /\ log'[c][s] = log[c][s]
    <2>1. s \in Nat /\ 1 <= s /\ s <= Len(log[c]) /\ Len(log[c]) <= MaxLog
        BY <1>1, <1>2 DEF OfflineAt, DeviceTypeOK, RecordTypeOK
    <2> QED
        BY <2>1, Kinds, SerialsType, BoundsAssumption, SMTT(30)
\* The search and its window stay; events may be logged or fired.
<1>3. ASSUME window'[c] = window[c], result'[c] = result[c],
             \/ offline'[c] = offline[c]
             \/ offline'[c].first..offline'[c].last = {},
             \A s \in Serials : fired[c][s] >= 1 => fired'[c][s] >= 1
      PROVE  /\ Found(c)'
             /\ bfpc'[c] = bfpc[c] /\ pos'[c] = pos[c] /\ page'[c] = page[c]
                /\ seen'[c] = seen[c] => SearchAt(c)'
    <2>1. Found(c)'
        BY <1>1, <1>2, <1>3 DEF Found, Reached
    <2>2. ASSUME bfpc'[c] = bfpc[c], pos'[c] = pos[c], page'[c] = page[c],
                 seen'[c] = seen[c]
          PROVE  SearchAt(c)'
        <3>1. CASE ~Running(c)
            BY <2>2, <3>1 DEF SearchAt, Running
        <3>2. CASE Running(c)
            <4>1. ASSUME NEW s \in offline'[c].first..offline'[c].last
                  PROVE  /\ s > window[c].high
                         /\ Reached(c, s)' => s \in Matches(c)'
                <5>1. /\ s \in Downtime /\ log'[c][s] = log[c][s]
                      /\ Reached(c, s)' <=> Reached(c, s)
                    BY <1>1, <1>2, <1>3, <4>1 DEF Reached
                <5> QED
                    BY <1>3, <3>2, <5>1, MatchesGrow DEF SearchAt
            <4>2. \A s \in seen[c] : s > window[c].high => fired'[c][s] >= 1
                BY <1>1, <1>3, <3>2 DEF SearchAt
            <4>3. ASSUME ~StuckCursor
                  PROVE  /\ pos[c] <= Cardinality(Matches(c)')
                         /\ \A s \in Matches(c)' :
                                RankIn(Matches(c)', s) <= pos[c] => s \in seen[c] \cup page[c]
                <5> DEFINE M == Matches(c)
                           N == Matches(c)'
                <5>1. /\ pos[c] <= Cardinality(M)
                      /\ \A s \in M : RankIn(M, s) <= pos[c] => s \in seen[c] \cup page[c]
                    BY <3>2, <4>3 DEF SearchAt
                <5>2. /\ Cardinality(M) <= Cardinality(N)
                      /\ \A s \in M : RankIn(N, s) = RankIn(M, s)
                      /\ \A s \in N : s \notin M => RankIn(N, s) > Cardinality(M)
                    BY <1>3, MatchesGrow
                <5>3. /\ Cardinality(M) \in Nat /\ Cardinality(N) \in Nat
                      /\ \A s \in N : RankIn(N, s) \in Nat
                    <6>1. TypeOK'
                        BY DeviceTypeStep, EntryTypeStep, BackfillTypeStep, StoreTypeStep,
                           RecordTypeStep
                    <6>2. M \in SUBSET Serials /\ N \in SUBSET Serials
                        <7>1. M \in SUBSET Serials
                            BY MatchesType
                        <7>2. N \in SUBSET Serials
                            <8>1. Len(log'[c]) \in Nat /\ Len(log'[c]) <= MaxLog
                                BY <6>1 DEF DeviceTypeOK
                            <8>2. N \subseteq 1..Len(log'[c])
                                BY DEF Matches
                            <8> QED
                                BY <8>1, <8>2, BoundsAssumption DEF Serials
                        <7> QED
                            BY <7>1, <7>2
                    <6> HIDE DEF M, N
                    <6> QED
                        BY <6>2, Ranks
                <5> HIDE DEF M, N
                <5>4. ASSUME NEW s \in N, RankIn(N, s) <= pos[c]
                      PROVE  s \in seen[c] \cup page[c]
                    <6>1. s \in M
                        BY <1>1, <5>1, <5>2, <5>3, <5>4
                    <6> QED
                        BY <5>1, <5>2, <5>4, <6>1
                <5>5. pos[c] <= Cardinality(N)
                    BY <1>1, <5>1, <5>2, <5>3
                <5> QED
                    BY <5>4, <5>5 DEF M, N
            <4>4. Running(c)' /\ window'[c] = window[c]
                BY <1>3, <2>2, <3>2 DEF Running
            <4> QED
                BY <2>2, <4>1, <4>2, <4>3, <4>4 DEF SearchAt
        <3> QED
            BY <3>1, <3>2
    <2> QED
        BY <2>1, <2>2
\* The search ends; the result is not "complete" if it was not.
<1>4. ASSUME window'[c] = window[c], offline'[c] = offline[c], fired'[c] = fired[c],
             ~(Running(c)'), pos'[c] = 0, seen'[c] = {},
             result'[c] # result[c] => result'[c] # "complete"
      PROVE  SearchAt(c)' /\ Found(c)'
    <2>1. Found(c)'
        BY <1>1, <1>2, <1>4 DEF Found, Reached
    <2> QED
        BY <1>4, <2>1 DEF SearchAt
<1>5. CASE Tick \/ Dump \/ UNCHANGED vars \/ Occur(c) \/ Unload(c) \/ Connect(c) \/ Drop(c)
    <2>1. UNCHANGED <<window, result, offline, fired, bfpc, pos, page, seen>>
        BY <1>5 DEF Tick, Dump, vars, Occur, Unload, Connect, Drop
    <2> QED
        BY <1>3, <2>1
<1>6. CASE Close(c)
    <2>1. /\ UNCHANGED <<window, result, fired, bfpc, pos, page, seen>>
          /\ offline'[c].first..offline'[c].last = {}
        BY <1>1, <1>6 DEF Close, RecordTypeOK
    <2> QED
        BY <1>3, <2>1
<1>7. CASE Crash
    <2>1. bfpc'[c] = "off" /\ pos'[c] = 0 /\ seen'[c] = {} /\ result'[c] = "none"
        BY <1>7 DEF Crash
    <2> QED
        BY <2>1 DEF SearchAt, Found, Running
<1>8. CASE Load(c)
    <2>1. /\ bfpc[c] \in {"off", "done"} /\ bfpc'[c] \in {"fetch", "done"}
          /\ result'[c] = "none" /\ UNCHANGED <<log, pos, page, seen>>
        BY <1>8 DEF Load, BackfillTypeOK
    <2>2. pos[c] = 0 /\ seen[c] = {}
        BY <2>1 DEF SearchAt, Running
    <2>3. CASE bfpc'[c] = "fetch"
        <3>1. \A s \in offline'[c].first..offline'[c].last :
                  /\ s > window'[c].high
                  /\ Reached(c, s)' => s \in Matches(c)'
            BY <1>8, <2>3, LoadWindow
        <3>2. Matches(c)' \in SUBSET Serials
            <4>1. Matches(c)' \subseteq 1..Len(log[c]) /\ Len(log[c]) <= MaxLog
                BY <2>1 DEF Matches, DeviceTypeOK
            <4> QED
                BY <1>1, <4>1, BoundsAssumption DEF Serials
        <3>3. /\ Cardinality(Matches(c)') \in Nat
              /\ \A s \in Matches(c)' : RankIn(Matches(c)', s) \in Nat
                                        /\ RankIn(Matches(c)', s) >= 1
            <4> DEFINE N == Matches(c)'
            <4>1. N \in SUBSET Serials
                BY <3>2
            <4> HIDE DEF N
            <4>2. Cardinality(N) \in Nat /\ \A s \in N : RankIn(N, s) \in 1..Cardinality(N)
                BY <4>1, Ranks
            <4> QED
                BY <4>2 DEF N
        <3>4. /\ 0 <= Cardinality(Matches(c)')
              /\ \A s \in Matches(c)' : ~(RankIn(Matches(c)', s) <= 0)
            BY <3>3
        <3> QED
            BY <2>1, <2>2, <2>3, <3>1, <3>4 DEF SearchAt, Found, Running
    <2>4. CASE bfpc'[c] = "done"
        BY <2>1, <2>2, <2>4 DEF SearchAt, Found, Running
    <2> QED
        BY <2>1, <2>3, <2>4
<1>9. CASE Fetch(c) /\ Answer(c) = {}
    <2> DEFINE M == Matches(c)
    <2>1. /\ bfpc[c] = "fetch" /\ bfpc'[c] = "stats" /\ pos'[c] = 0 /\ seen'[c] = {}
          /\ UNCHANGED <<log, window, offline, fired>>
        BY <1>9 DEF Fetch, EndPaging, BackfillTypeOK
    <2>2. page[c] = {} /\ Running(c)
        BY <2>1 DEF PageAt, Running
    <2>3. M \in SUBSET Serials /\ PageOf(M, IF StuckCursor THEN 0 ELSE pos[c]) = {}
        BY <1>9, MatchesType
    <2>4. ASSUME NEW s \in Downtime, Reached(c, s)
          PROVE  fired[c][s] >= 1
        <3>1. s \in M /\ s > window[c].high
            BY <2>2, <2>4 DEF SearchAt
        <3>2. /\ ~StuckCursor => pos[c] <= Cardinality(M)
              /\ ~StuckCursor /\ RankIn(M, s) <= pos[c] => s \in seen[c]
              /\ s \in seen[c] => fired[c][s] >= 1
            BY <2>2, <3>1 DEF SearchAt
        <3> HIDE DEF M
        <3>3. RankIn(M, s) \in 1..Cardinality(M) /\ Cardinality(M) \in Nat
            BY <2>3, <3>1, Ranks
        <3>4. CASE StuckCursor
            <4>1. 0 \in 0..Cardinality(M) /\ PageOf(M, 0) = {}
                BY <2>3, <3>3, <3>4
            <4>2. RankIn(M, s) <= 0
                BY <2>3, <3>1, <4>1, PageSizes
            <4> QED
                BY <3>3, <4>2
        <3>5. CASE ~StuckCursor
            <4>1. pos[c] \in 0..Cardinality(M) /\ PageOf(M, pos[c]) = {}
                BY <1>1, <2>3, <3>2, <3>3, <3>5
            <4>2. RankIn(M, s) <= pos[c]
                BY <2>3, <3>1, <4>1, PageSizes
            <4> QED
                BY <3>2, <3>5, <4>2
        <3> QED
            BY <3>4, <3>5
    <2> QED
        BY <1>1, <2>1, <2>4 DEF SearchAt, Found, Running, Reached
<1>10. CASE Fetch(c) /\ Answer(c) # {}
    <2> DEFINE M == Matches(c)
               A == Answer(c)
    <2>1. /\ bfpc[c] = "fetch" /\ bfpc' = [bfpc EXCEPT ![c] = "answered"]
          /\ page' = [page EXCEPT ![c] = A]
          /\ pos' = [pos EXCEPT ![c] = @ + Cardinality(A)]
          /\ UNCHANGED <<log, window, offline, fired, seen, result>>
        BY <1>10 DEF Fetch
    <2>2. /\ bfpc'[c] = "answered" /\ page'[c] = A /\ pos'[c] = pos[c] + Cardinality(A)
          /\ M' = M
        BY <2>1 DEF BackfillTypeOK, Matches
    <2>3. page[c] = {} /\ Running(c) /\ Running(c)'
        BY <2>1, <2>2 DEF PageAt, Running
    <2>4. M \in SUBSET Serials /\ A = PageOf(M, IF StuckCursor THEN 0 ELSE pos[c])
        BY MatchesType
    <2>5. ASSUME ~StuckCursor
          PROVE  /\ pos[c] + Cardinality(A) <= Cardinality(M)
                 /\ \A s \in M :
                        RankIn(M, s) <= pos[c] + Cardinality(A) => s \in seen[c] \cup A
        <3>1. /\ pos[c] <= Cardinality(M)
              /\ \A s \in M : RankIn(M, s) <= pos[c] => s \in seen[c]
            BY <2>3, <2>5 DEF SearchAt
        <3>2. A = PageOf(M, pos[c])
            BY <2>4, <2>5
        <3> HIDE DEF M, A
        <3>3. Cardinality(M) \in Nat /\ \A s \in M : RankIn(M, s) \in Nat
            BY <2>4, Ranks
        <3>4. pos[c] \in 0..Cardinality(M)
            BY <1>1, <3>1, <3>3
        <3>5. Cardinality(A) \in 0..PageSize /\ pos[c] + Cardinality(A) <= Cardinality(M)
            BY <2>4, <3>2, <3>4, PageSizes
        <3>6. ASSUME NEW s \in M, RankIn(M, s) <= pos[c] + Cardinality(A)
              PROVE  s \in seen[c] \cup A
            <4>1. CASE RankIn(M, s) <= pos[c]
                BY <3>1, <4>1
            <4>2. CASE ~(RankIn(M, s) <= pos[c])
                <5>1. pos[c] < RankIn(M, s) /\ RankIn(M, s) <= pos[c] + PageSize
                    BY <1>1, <3>3, <3>5, <3>6, <4>2, PagingAssumption
                <5> QED
                    BY <3>2, <5>1 DEF PageOf
            <4> QED
                BY <4>1, <4>2
        <3> QED
            BY <3>5, <3>6
    <2>6. Found(c)'
        BY <1>1, <2>1 DEF Found, Reached
    <2>7. /\ \A s \in Downtime :
                 /\ s > window[c].high
                 /\ Reached(c, s) => s \in M
          /\ \A s \in seen[c] : s > window[c].high => fired[c][s] >= 1
        BY <2>3 DEF SearchAt
    <2> HIDE DEF A
    <2> QED
        BY <1>1, <2>1, <2>2, <2>3, <2>5, <2>6, <2>7 DEF SearchAt, Reached
<1>11. CASE Cap(c) \/ FetchFails(c)
    <2>1. /\ bfpc'[c] = "stats" /\ pos'[c] = 0 /\ seen'[c] = {}
          /\ result'[c] # "complete" /\ UNCHANGED <<window, offline, fired>>
        BY <1>11 DEF Cap, FetchFails, EndPaging, BackfillTypeOK
    <2> QED
        BY <1>4, <2>1 DEF Running
<1>12. CASE Finish(c) \/ \E r \in Readers : Import(c, r)
    <2>1. /\ bfpc[c] = "stats" /\ bfpc'[c] \in {"stats", "done"}
          /\ UNCHANGED <<pos, seen, window, offline, fired, result>>
        BY <1>12 DEF Finish, Import, BackfillTypeOK
    <2> QED
        BY <1>4, <2>1 DEF SearchAt, Running
<1>13. CASE Live(c)
    <2>1. UNCHANGED <<window, result, offline, bfpc, pos, page, seen>>
        BY <1>13 DEF Live
    <2>2. \A s \in Serials : fired[c][s] >= 1 => fired'[c][s] >= 1
        BY <1>1, <1>13 DEF Live, Deliver, RecordTypeOK
    <2> QED
        BY <1>3, <2>1, <2>2
<1>14. CASE Replay(c)
    <2>1. PICK p \in page[c] :
              /\ page' = [page EXCEPT ![c] = @ \ {p}]
              /\ seen' = [seen EXCEPT ![c] = @ \cup {p}]
              /\ IF Accepts(c, p) THEN Deliver(c, p) ELSE UNCHANGED fired
        BY <1>14 DEF Replay
    <2>2. /\ page'[c] = page[c] \ {p} /\ seen'[c] = seen[c] \cup {p}
          /\ UNCHANGED <<log, window, offline, result, pos>>
          /\ Running(c) /\ Running(c)'
        BY <1>14, <2>1 DEF Replay, Running, BackfillTypeOK
    <2>3. /\ \A s \in Serials : fired[c][s] >= 1 => fired'[c][s] >= 1
          /\ Accepts(c, p) => fired'[c][p] >= 1
        <3>1. CASE Accepts(c, p)
            BY <1>1, <2>1, <3>1 DEF Deliver, RecordTypeOK
        <3>2. CASE ~Accepts(c, p)
            BY <2>1, <3>2
        <3> QED
            BY <3>1, <3>2
    <2>4. Found(c)'
        BY <1>1, <1>2, <2>2, <2>3 DEF Found, Reached
    <2>5. \A s \in seen'[c] : s > window[c].high => fired'[c][s] >= 1
        BY <1>1, <2>2, <2>3 DEF SearchAt, Accepts
    <2>6. Matches(c)' = Matches(c)
        BY <2>2 DEF Matches
    <2> QED
        BY <1>1, <2>2, <2>4, <2>5, <2>6 DEF SearchAt, Reached
<1> QED
    BY <1>5, <1>6, <1>7, <1>8, <1>9, <1>10, <1>11, <1>12, <1>13, <1>14 DEF Next

\* "Replay AcsEvents the controller buffered while HA was down": with one controller,
\* for any readers, page size, cap, cursor and window, and through any drops, crashes,
\* reloads and stores, a backfill that ran to its end has fired every event that was
\* logged while the entry was down and that its window reaches: not older than the
\* option allows and, of a controller whose clock is ahead of Home Assistant's, not
\* stamped later than the load.
THEOREM DowntimeFired ==
    ASSUME NEW c0, Controllers = {c0}
    PROVE  Spec => []DowntimeReplayed
<1>1. Init => DowntimeInv
    BY DEF Init, DowntimeInv, OfflineAt, SearchAt, Found, Running, NewSensors, NewSensor
<1>2. TypeOK /\ MarkInv /\ LoadInv /\ DowntimeInv /\ [Next]_vars => DowntimeInv'
    <2>1. ASSUME TypeOK, MarkInv, LoadInv, DowntimeInv, [Next]_vars,
                 NEW c \in Controllers
          PROVE  (OfflineAt(c) /\ SearchAt(c) /\ Found(c))'
        <3>1. Controllers = {c}
            OBVIOUS
        <3> QED
            BY <2>1, <3>1, OfflineStep, SearchStep DEF LoadInv, DowntimeInv
    <2> QED
        BY <2>1 DEF DowntimeInv
<1>3. DowntimeInv => DowntimeReplayed
    BY DEF DowntimeInv, Found, DowntimeReplayed
<1> QED
    BY <1>1, <1>2, <1>3, TypeCorrect, MarkInvariant, LoadInvariant, PTL DEF Spec
=============================================================================
