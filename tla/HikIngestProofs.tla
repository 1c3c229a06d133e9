---------------------------- MODULE HikIngestProofs ----------------------------
(***************************************************************************)
(* Proofs about HikIngest, for every set of controllers, readers and        *)
(* windows and every bound: type correctness, that a restart never re-fires *)
(* what an enabled reader's sensor had ingested, that the ingestion         *)
(* implements HikLedger, and what one load may deliver twice.               *)
(***************************************************************************)
EXTENDS HikIngest, FiniteSetTheorems, TLAPS

USE DEF deviceVars, backfillVars, budgetVars

-----------------------------------------------------------------------------
(* Lemmas about the operators. *)

\* The mark a sensor advances to is a mark, and covers the event at hand.
LEMMA AdvanceType ==
    ASSUME NEW m \in Sensor, NEW s \in Nat, NEW e \in Event
    PROVE  /\ Advance(m, s, e) \in Sensor
           /\ Advance(m, s, e).lastSerial >= m.lastSerial
           /\ Advance(m, s, e).lastSerial >= s
BY DEF Advance, Sensor, Event

\* Serials are the numbers up to the bound.
LEMMA SerialsType ==
    /\ Serials \subseteq Nat
    /\ \A n \in Nat : n \in Serials <=> 1 <= n /\ n <= MaxLog
BY BoundsAssumption DEF Serials

\* What a page holds was logged, and a page is finite.
LEMMA AnswerType ==
    ASSUME NEW c \in Controllers, DeviceTypeOK
    PROVE  /\ Answer(c) \subseteq 1..Len(log[c])
           /\ Answer(c) \subseteq Serials
           /\ Cardinality(Answer(c)) \in Nat
<1>1. Answer(c) \subseteq 1..Len(log[c])
    BY DEF Answer, Matches
<1>2. Len(log[c]) \in Nat /\ Len(log[c]) <= MaxLog
    BY DEF DeviceTypeOK
<1>3. Answer(c) \subseteq Serials
    BY <1>1, <1>2, BoundsAssumption DEF Serials
<1>4. IsFiniteSet(1..Len(log[c]))
    BY <1>2, FS_Interval
<1>5. IsFiniteSet(Answer(c))
    BY <1>1, <1>4, FS_Subset
<1> QED
    BY <1>1, <1>3, <1>5, FS_CardinalityType

\* A delivery leaves every variable it touches well typed.
LEMMA DeliverType ==
    ASSUME DeviceTypeOK, EntryTypeOK, RecordTypeOK,
           NEW c \in Controllers, NEW s \in Serials, s <= Len(log[c]), Deliver(c, s)
    PROVE  /\ sensor' \in [Controllers -> [Readers -> Sensor]]
           /\ fired' \in [Controllers -> [Serials -> Nat]]
           /\ ingested' \in [Controllers -> SUBSET Serials]
<1>1. log[c][s] \in Event
    <2>1. log[c] \in Seq(Event) /\ s \in 1..Len(log[c])
        BY SerialsType DEF DeviceTypeOK
    <2> QED
        BY <2>1
<1>2. sensor' \in [Controllers -> [Readers -> Sensor]]
    <2>1. \A d \in Controllers, r \in Readers :
              Advance(sensor[d][r], s, log[c][s]) \in Sensor
        BY <1>1, AdvanceType, SerialsType DEF EntryTypeOK
    <2>2. sensor' = [d \in Controllers |-> [r \in Readers |->
                        IF Listening(d) /\ log[c][s].reader = r
                        THEN Advance(sensor[d][r], s, log[c][s])
                        ELSE sensor[d][r]]]
        BY DEF Deliver
    <2>3. \A d \in Controllers, r \in Readers : sensor[d][r] \in Sensor
        BY DEF EntryTypeOK
    <2> QED
        BY <2>1, <2>2, <2>3
<1>3. fired' \in [Controllers -> [Serials -> Nat]]
    <2>1. fired' = [fired EXCEPT ![c] = [fired[c] EXCEPT ![s] = fired[c][s] + 1]]
        BY DEF Deliver
    <2>2. [fired[c] EXCEPT ![s] = fired[c][s] + 1] \in [Serials -> Nat]
        BY DEF RecordTypeOK
    <2> QED
        BY <2>1, <2>2 DEF RecordTypeOK
<1>4. ingested' \in [Controllers -> SUBSET Serials]
    BY DEF Deliver, RecordTypeOK
<1> QED
    BY <1>2, <1>3, <1>4

\* The clocks of the parties are natural numbers.
LEMMA Stamped ==
    ASSUME DeviceTypeOK
    PROVE  /\ now \in Nat /\ HomeLead \in Nat /\ End \in Nat
           /\ \A c \in Controllers : lead[c] \in Nat /\ now + lead[c] \in Nat
<1>1. now \in Nat /\ HomeLead \in Nat /\ \A c \in Controllers : lead[c] \in Nat
    BY ClocksAssumption DEF DeviceTypeOK
<1> QED
    BY <1>1 DEF End

-----------------------------------------------------------------------------
(* Type correctness, one lemma per part of the state. *)

LEMMA TypeInit == Init => TypeOK
<1> SUFFICES ASSUME Init PROVE TypeOK
    OBVIOUS
<1>1. DeviceTypeOK
    BY BoundsAssumption DEF Init, DeviceTypeOK
<1>2. EntryTypeOK
    BY DEF Init, EntryTypeOK, Sensor, NewSensor, NewSensors
<1>3. BackfillTypeOK
    BY PagingAssumption DEF Init, BackfillTypeOK, NoWindow, NothingFrom, Tally
<1>4. StoreTypeOK
    BY DEF Init, StoreTypeOK, Sensor, NewSensor, NewSensors, NothingFrom
<1>5. RecordTypeOK
    BY DEF Init, RecordTypeOK
<1> QED
    BY <1>1, <1>2, <1>3, <1>4, <1>5 DEF TypeOK

LEMMA DeviceTypeStep == TypeOK /\ [Next]_vars => DeviceTypeOK'
<1> SUFFICES ASSUME DeviceTypeOK, [Next]_vars PROVE DeviceTypeOK'
    BY DEF TypeOK
<1>1. CASE Tick
    BY <1>1 DEF DeviceTypeOK, Tick
<1>2. ASSUME NEW c \in Controllers, Occur(c) PROVE DeviceTypeOK'
    <2>1. PICK e \in Event : log' = [log EXCEPT ![c] = Append(@, e)]
        BY <1>2, Stamped DEF Occur, Event
    <2>2. log' \in [Controllers -> Seq(Event)]
        BY <2>1 DEF DeviceTypeOK
    <2>3. Len(log'[c]) = Len(log[c]) + 1 /\ Len(log'[c]) \in Serials
        BY <1>2, <2>1, SerialsType, BoundsAssumption DEF Occur, DeviceTypeOK
    <2>4. \A d \in Controllers : d # c => log'[d] = log[d]
        BY <2>1 DEF DeviceTypeOK
    <2>8. \A d \in Controllers :
              /\ Len(log[d]) \in Nat /\ Len(log'[d]) \in Nat
              /\ Len(log[d]) <= Len(log'[d]) /\ Len(log'[d]) <= MaxLog
        <3>1. \A d \in Controllers : Len(log[d]) \in Nat /\ Len(log[d]) <= MaxLog
            BY DEF DeviceTypeOK
        <3> QED
            BY <2>3, <2>4, <3>1, SerialsType
    <2>9. ASSUME NEW d \in Controllers, NEW i \in 1..Len(wire[d])
          PROVE  wire[d][i] \in Nat /\ wire[d][i] <= Len(log'[d])
        <3>1. wire[d][i] \in Serials /\ wire[d][i] <= Len(log[d])
            BY DEF DeviceTypeOK
        <3>2. wire[d][i] \in Nat
            BY <3>1, SerialsType
        <3> QED
            BY <2>8, <3>1, <3>2
    <2>5. CASE wire' = wire
        BY <1>2, <2>2, <2>5, <2>8, <2>9 DEF DeviceTypeOK, Occur
    <2>6. CASE wire' = [wire EXCEPT ![c] = Append(@, Len(log'[c]))]
        <3>1. wire' \in [Controllers -> Seq(Serials)]
            BY <2>3, <2>6 DEF DeviceTypeOK
        <3>2. ASSUME NEW d \in Controllers, NEW i \in 1..Len(wire'[d])
              PROVE  wire'[d][i] <= Len(log'[d])
            <4>1. CASE d # c
                BY <2>6, <2>9, <3>2, <4>1 DEF DeviceTypeOK
            <4>2. CASE d = c
                <5>1. wire[c] \in Seq(Serials) /\ wire'[c] = Append(wire[c], Len(log'[c]))
                    BY <2>6 DEF DeviceTypeOK
                <5>2. \/ i \in 1..Len(wire[c]) /\ wire'[c][i] = wire[c][i]
                      \/ wire'[c][i] = Len(log'[c])
                    BY <2>3, <3>2, <4>2, <5>1
                <5> QED
                    BY <2>8, <2>9, <4>2, <5>2
            <4> QED
                BY <4>1, <4>2
        <3> QED
            BY <1>2, <2>2, <2>8, <3>1, <3>2 DEF DeviceTypeOK, Occur
    <2>7. wire' = wire \/ wire' = [wire EXCEPT ![c] = Append(@, Len(log'[c]))]
        BY <1>2, Zenon DEF Occur
    <2> QED
        BY <2>5, <2>6, <2>7
<1>3. ASSUME NEW c \in Controllers, Close(c) \/ Drop(c) PROVE DeviceTypeOK'
    <2>1. wire' = [wire EXCEPT ![c] = <<>>] /\ UNCHANGED <<now, lead, log>>
        BY <1>3, Zenon DEF Close, Drop
    <2> QED
        BY <2>1 DEF DeviceTypeOK
<1>4. ASSUME NEW c \in Controllers, Live(c) PROVE DeviceTypeOK'
    <2>1. wire' = [wire EXCEPT ![c] = Tail(wire[c])] /\ UNCHANGED <<now, lead, log>>
        BY <1>4, Zenon DEF Live
    <2>2. wire[c] # <<>> /\ wire[c] \in Seq(Serials)
        BY <1>4 DEF Live, DeviceTypeOK
    <2>3. /\ Tail(wire[c]) \in Seq(Serials)
          /\ \A i \in 1..Len(Tail(wire[c])) :
                 i + 1 \in 1..Len(wire[c]) /\ Tail(wire[c])[i] = wire[c][i + 1]
        BY <2>2
    <2> QED
        BY <2>1, <2>3 DEF DeviceTypeOK
<1>5. CASE Crash
    BY <1>5 DEF DeviceTypeOK, Crash
<1>6. CASE UNCHANGED deviceVars
    BY <1>6 DEF DeviceTypeOK
<1> QED
    BY <1>1, <1>2, <1>3, <1>4, <1>5, <1>6
       DEF Next, vars, Dump, Load, Unload, Connect, Fetch, Cap, FetchFails, Replay,
           Import, Finish

LEMMA EntryTypeStep == TypeOK /\ [Next]_vars => EntryTypeOK'
<1> SUFFICES ASSUME TypeOK, [Next]_vars PROVE EntryTypeOK'
    OBVIOUS
<1> USE DEF TypeOK
<1>1. ASSUME NEW c \in Controllers, Load(c) \/ Unload(c) \/ Close(c)
      PROVE  EntryTypeOK'
    BY <1>1 DEF EntryTypeOK, Load, Unload, Close
<1>2. ASSUME NEW c \in Controllers, Connect(c) \/ Drop(c) PROVE EntryTypeOK'
    BY <1>2 DEF EntryTypeOK, Connect, Drop
<1>3. ASSUME NEW c \in Controllers, Live(c) PROVE EntryTypeOK'
    <2>1. Head(wire[c]) \in Serials /\ Head(wire[c]) <= Len(log[c])
        BY <1>3 DEF Live, DeviceTypeOK
    <2> QED
        BY <1>3, <2>1, DeliverType DEF EntryTypeOK, Live
<1>4. ASSUME NEW c \in Controllers, Replay(c) PROVE EntryTypeOK'
    <2>1. PICK s \in page[c] : Deliver(c, s) \/ UNCHANGED sensor
        BY <1>4 DEF Replay
    <2>2. s \in Serials /\ s <= Len(log[c])
        BY DEF BackfillTypeOK
    <2> QED
        BY <1>4, <2>1, <2>2, DeliverType DEF EntryTypeOK, Replay
<1>5. CASE Crash
    BY <1>5 DEF EntryTypeOK, StoreTypeOK, Crash
<1>6. CASE UNCHANGED <<entry, stream, sensor>>
    BY <1>6 DEF EntryTypeOK
<1> QED
    BY <1>1, <1>2, <1>3, <1>4, <1>5, <1>6
       DEF Next, vars, Tick, Dump, Occur, Fetch, Cap, FetchFails, Import, Finish

LEMMA BackfillTypeStep == TypeOK /\ [Next]_vars => BackfillTypeOK'
<1> SUFFICES ASSUME TypeOK, [Next]_vars PROVE BackfillTypeOK'
    OBVIOUS
<1> USE DEF TypeOK
<1>1. ASSUME NEW c \in Controllers, Occur(c) PROVE BackfillTypeOK'
    <2>1. \A d \in Controllers : Len(log'[d]) >= Len(log[d])
        BY <1>1 DEF Occur, DeviceTypeOK
    <2>2. \A d \in Controllers : Len(log[d]) \in Nat /\ Len(log'[d]) \in Nat
        BY <1>1, DeviceTypeStep DEF DeviceTypeOK, Next
    <2>3. ASSUME NEW d \in Controllers, NEW s \in page'[d] PROVE s <= Len(log'[d])
        BY <1>1, <2>1, <2>2, <2>3, SerialsType, SMTT(30) DEF Occur, BackfillTypeOK
    <2> QED
        BY <1>1, <2>3 DEF Occur, BackfillTypeOK
<1>2. ASSUME NEW c \in Controllers, Load(c) PROVE BackfillTypeOK'
    <2>1. End \in Nat /\ \A w \in Nat : Before(End, w) \in Nat
        BY Stamped DEF Before
    <2>2. SerialMarks(c) \subseteq Nat /\ TimeMarks(c) \subseteq Nat
        BY DEF SerialMarks, TimeMarks, MarkedSensors, EntryTypeOK, Sensor
    <2>3. window' \in [Controllers -> [high : Nat, deep : Nat, from : Nat, until : Nat]]
        BY <1>2, <2>1, <2>2, WindowsAssumption
           DEF Load, BackfillTypeOK, NoWindow, Later
    <2> QED
        BY <1>2, <2>3 DEF Load, BackfillTypeOK
<1>3. ASSUME NEW c \in Controllers, Fetch(c) PROVE BackfillTypeOK'
    <2>1. /\ Answer(c) \subseteq 1..Len(log[c]) /\ Answer(c) \subseteq Serials
          /\ Cardinality(Answer(c)) \in Nat
        BY AnswerType
    <2>2. CASE Answer(c) = {}
        <3>1. /\ bfpc' = [bfpc EXCEPT ![c] = "stats"]
              /\ result' = [result EXCEPT ![c] = "complete"]
              /\ pos' = [pos EXCEPT ![c] = 0]
              /\ pages' = [pages EXCEPT ![c] = 0]
              /\ seen' = [seen EXCEPT ![c] = {}]
              /\ UNCHANGED <<log, window, page, replayed, tally>>
            BY <1>3, <2>2 DEF Fetch, EndPaging
        <3> QED
            BY <3>1, PagingAssumption, SMTT(30) DEF BackfillTypeOK
    <2>3. CASE Answer(c) # {}
        <3>1. /\ bfpc' = [bfpc EXCEPT ![c] = "answered"]
              /\ page' = [page EXCEPT ![c] = Answer(c)]
              /\ pos' = [pos EXCEPT ![c] = @ + Cardinality(Answer(c))]
              /\ pages' = [pages EXCEPT ![c] = @ + 1]
              /\ pages[c] < MaxPages
              /\ UNCHANGED <<log, window, seen, replayed, tally, result>>
            BY <1>3, <2>3, PagingAssumption DEF Fetch, CapReached, BackfillTypeOK
        <3>2. Len(log[c]) \in Nat
            BY DEF DeviceTypeOK
        <3>3. pos' \in [Controllers -> Nat] /\ pages' \in [Controllers -> 0..MaxPages]
            BY <2>1, <3>1, PagingAssumption DEF BackfillTypeOK
        <3> QED
            BY <2>1, <3>1, <3>2, <3>3, SMTT(30) DEF BackfillTypeOK
    <2> QED
        BY <2>2, <2>3
<1>4. ASSUME NEW c \in Controllers, Cap(c) \/ FetchFails(c) PROVE BackfillTypeOK'
    <2>1. /\ bfpc' = [bfpc EXCEPT ![c] = "stats"]
          /\ page' = page \/ page' = [page EXCEPT ![c] = {}]
          /\ \E res \in {"capped", "failed"} : result' = [result EXCEPT ![c] = res]
          /\ pos' = [pos EXCEPT ![c] = 0]
          /\ pages' = [pages EXCEPT ![c] = 0]
          /\ seen' = [seen EXCEPT ![c] = {}]
          /\ UNCHANGED <<log, window, replayed, tally>>
        BY <1>4 DEF Cap, FetchFails, EndPaging
    <2>2. /\ page' \in [Controllers -> SUBSET Serials]
          /\ \A d \in Controllers : \A s \in page'[d] : s <= Len(log'[d])
        BY <2>1 DEF BackfillTypeOK
    <2>3. /\ bfpc' \in [Controllers ->
                     {"off", "fetch", "answered", "replay", "stats", "done"}]
          /\ result' \in [Controllers -> {"none", "complete", "capped", "failed"}]
        BY <2>1 DEF BackfillTypeOK
    <2>4. pages' \in [Controllers -> 0..MaxPages]
        BY <2>1, PagingAssumption DEF BackfillTypeOK
    <2> QED
        BY <2>1, <2>2, <2>3, <2>4 DEF BackfillTypeOK
<1>5. ASSUME NEW c \in Controllers, Replay(c) PROVE BackfillTypeOK'
    <2>1. PICK s \in page[c] :
              /\ page' = [page EXCEPT ![c] = @ \ {s}]
              /\ bfpc' = [bfpc EXCEPT ![c] = IF page[c] = {s} THEN "fetch" ELSE "replay"]
              /\ seen' = [seen EXCEPT ![c] = @ \cup {s}]
              /\ \/ replayed' = replayed
                 \/ replayed' = [replayed EXCEPT ![c] = [r \in Readers |->
                        IF log[c][s].card /\ log[c][s].reader = r
                        THEN @[r] + 1 ELSE @[r]]]
              /\ \/ tally' = tally
                 \/ tally' = [tally EXCEPT ![c].yielded = @ \cup {s}]
        BY <1>5 DEF Replay
    <2>2. UNCHANGED <<log, window, pos, pages, result>>
        BY <1>5 DEF Replay
    <2>3. replayed' \in [Controllers -> [Readers -> Nat]]
        <3>1. [r \in Readers |-> IF log[c][s].card /\ log[c][s].reader = r
                                 THEN replayed[c][r] + 1 ELSE replayed[c][r]]
              \in [Readers -> Nat]
            BY DEF BackfillTypeOK
        <3> QED
            BY <2>1, <3>1 DEF BackfillTypeOK
    <2>4. /\ page' \in [Controllers -> SUBSET Serials]
          /\ seen' \in [Controllers -> SUBSET Serials]
          /\ \A d \in Controllers : \A t \in page'[d] : t <= Len(log'[d])
        BY <2>1, <2>2 DEF BackfillTypeOK
    <2>5. tally' \in [Controllers -> [yielded : SUBSET Serials, before : [Readers -> Nat]]]
        <3>1. tally[c].yielded \cup {s} \in SUBSET Serials
            BY DEF BackfillTypeOK
        <3>2. [tally[c] EXCEPT !.yielded = tally[c].yielded \cup {s}]
                  \in [yielded : SUBSET Serials, before : [Readers -> Nat]]
            BY <3>1 DEF BackfillTypeOK
        <3>3. \/ tally' = tally
              \/ tally' = [tally EXCEPT ![c] =
                               [tally[c] EXCEPT !.yielded = tally[c].yielded \cup {s}]]
            BY <2>1
        <3> QED
            BY <3>2, <3>3 DEF BackfillTypeOK
    <2> QED
        BY <2>1, <2>2, <2>3, <2>4, <2>5 DEF BackfillTypeOK
<1>6. ASSUME NEW c \in Controllers, NEW r \in Readers, Import(c, r)
      PROVE  BackfillTypeOK'
    BY <1>6 DEF Import, BackfillTypeOK
<1>7. ASSUME NEW c \in Controllers, Finish(c) PROVE BackfillTypeOK'
    BY <1>7 DEF Finish, Tally, BackfillTypeOK, StoreTypeOK
<1>8. CASE Crash
    BY <1>8, PagingAssumption
       DEF Crash, NoWindow, NothingFrom, Tally, BackfillTypeOK, StoreTypeOK
<1>9. CASE UNCHANGED <<log, backfillVars>>
    BY <1>9 DEF BackfillTypeOK
<1> QED
    BY <1>1, <1>2, <1>3, <1>4, <1>5, <1>6, <1>7, <1>8, <1>9
       DEF Next, vars, Tick, Dump, Unload, Close, Connect, Drop, Live

LEMMA StoreTypeStep == TypeOK /\ [Next]_vars => StoreTypeOK'
<1> SUFFICES ASSUME TypeOK, [Next]_vars PROVE StoreTypeOK'
    OBVIOUS
<1> USE DEF TypeOK
<1>1. CASE Dump
    BY <1>1 DEF StoreTypeOK, Dump, EntryTypeOK, RecordTypeOK
<1>2. CASE Crash
    BY <1>2 DEF StoreTypeOK, Crash
<1>3. ASSUME NEW c \in Controllers, Load(c) \/ Drop(c) PROVE StoreTypeOK'
    BY <1>3 DEF StoreTypeOK, Load, Drop
<1>4. ASSUME NEW c \in Controllers, NEW r \in Readers, Import(c, r)
      PROVE  StoreTypeOK'
    BY <1>4 DEF StoreTypeOK, Import, BackfillTypeOK
<1>5. CASE UNCHANGED <<disk, history, budgetVars>>
    BY <1>5 DEF StoreTypeOK
<1> QED
    BY <1>1, <1>2, <1>3, <1>4, <1>5
       DEF Next, vars, Tick, Occur, Unload, Close, Connect, Live, Fetch, Cap,
           FetchFails, Replay, Finish

LEMMA RecordTypeStep == TypeOK /\ [Next]_vars => RecordTypeOK'
<1> SUFFICES ASSUME TypeOK, [Next]_vars PROVE RecordTypeOK'
    OBVIOUS
<1> USE DEF TypeOK
<1>1. ASSUME NEW c \in Controllers, Load(c) PROVE RecordTypeOK'
    <2>1. /\ fired' = [fired EXCEPT ![c] = [s \in Serials |-> 0]]
          /\ restored' = [restored EXCEPT ![c] = ingested[c]]
          /\ offline' = [offline EXCEPT ![c].last = Len(log[c])]
          /\ UNCHANGED ingested
        BY <1>1 DEF Load
    <2>2. Len(log[c]) \in Nat
        BY DEF DeviceTypeOK
    <2>3. offline' \in [Controllers -> [first : Nat, last : Nat]]
        BY <2>1, <2>2 DEF RecordTypeOK
    <2>4. fired' \in [Controllers -> [Serials -> Nat]]
        BY <2>1 DEF RecordTypeOK
    <2> QED
        BY <2>1, <2>3, <2>4 DEF RecordTypeOK
<1>2. ASSUME NEW c \in Controllers, Close(c) PROVE RecordTypeOK'
    BY <1>2 DEF RecordTypeOK, Close, DeviceTypeOK
<1>3. ASSUME NEW c \in Controllers, Live(c) PROVE RecordTypeOK'
    <2>1. Head(wire[c]) \in Serials /\ Head(wire[c]) <= Len(log[c])
        BY <1>3 DEF Live, DeviceTypeOK
    <2> QED
        BY <1>3, <2>1, DeliverType DEF RecordTypeOK, Live
<1>4. ASSUME NEW c \in Controllers, Replay(c) PROVE RecordTypeOK'
    <2>1. PICK s \in page[c] : Deliver(c, s) \/ UNCHANGED <<fired, ingested>>
        BY <1>4 DEF Replay
    <2>2. s \in Serials /\ s <= Len(log[c])
        BY DEF BackfillTypeOK
    <2> QED
        BY <1>4, <2>1, <2>2, DeliverType DEF RecordTypeOK, Replay
<1>5. CASE Crash
    <2>1. /\ fired' = [c \in Controllers |-> [s \in Serials |-> 0]]
          /\ restored' = [c \in Controllers |-> {}]
          /\ ingested' = disk.ingested
          /\ offline' = [c \in Controllers |->
                            IF entry[c] = "down" THEN [offline[c] EXCEPT !.last = 0]
                            ELSE [first |-> Len(log[c]) + 1, last |-> 0]]
        BY <1>5 DEF Crash
    <2>2. \A c \in Controllers : Len(log[c]) + 1 \in Nat
        BY DEF DeviceTypeOK
    <2>3. offline' \in [Controllers -> [first : Nat, last : Nat]]
        BY <2>1, <2>2 DEF RecordTypeOK
    <2> QED
        BY <2>1, <2>3 DEF RecordTypeOK, StoreTypeOK
<1>6. CASE UNCHANGED <<fired, ingested, restored, offline>>
    BY <1>6 DEF RecordTypeOK
<1> QED
    BY <1>1, <1>2, <1>3, <1>4, <1>5, <1>6
       DEF Next, vars, Tick, Dump, Occur, Unload, Connect, Drop, Fetch, Cap,
           FetchFails, Import, Finish

\* Type correctness of HikIngest.
THEOREM TypeCorrect == Spec => []TypeOK
<1>1. TypeOK /\ [Next]_vars => TypeOK'
    BY DeviceTypeStep, EntryTypeStep, BackfillTypeStep, StoreTypeStep, RecordTypeStep
       DEF TypeOK
<1> QED
    BY <1>1, TypeInit, PTL DEF Spec

-----------------------------------------------------------------------------
(* A restart never re-fires.  The invariant says why: whatever was ingested  *)
(* is covered by the mark of its own reader's sensor, now and in the restore *)
(* store, so the high-water mark of the next load covers it too; and nothing *)
(* ingested earlier is ever sent on the wire again.                          *)

MarksCover(ing, sen) ==
    \A c \in Controllers : \A s \in ing[c] :
        /\ s <= Len(log[c])
        /\ log[c][s].reader \in Readers => s <= sen[c][log[c][s].reader].lastSerial

RestoredLogged == \A c \in Controllers : \A s \in restored[c] : s <= Len(log[c])

HighCovers ==
    \A c \in Controllers :
        bfpc[c] \in {"fetch", "answered", "replay"} =>
            \A s \in restored[c] :
                log[c][s].reader \in Readers => s <= window[c].high

WireIsNew ==
    \A c \in Controllers :
        /\ \A i \in 1..Len(wire[c]) : wire[c][i] \notin restored[c]
        /\ ~stream[c] => wire[c] = <<>>

RefireInv ==
    /\ MarksCover(ingested, sensor)
    /\ MarksCover(disk.ingested, disk.sensor)
    /\ RestoredLogged
    /\ HighCovers
    /\ WireIsNew
    /\ RestartNeverRefires

\* A device's log only grows.
LEMMA LogGrows ==
    ASSUME DeviceTypeOK, [Next]_vars
    PROVE  /\ \A c \in Controllers : Len(log[c]) <= Len(log'[c])
           /\ \A c \in Controllers : \A s \in Serials :
                  s <= Len(log[c]) => log'[c][s] = log[c][s]
<1>1. ASSUME NEW c \in Controllers, Occur(c)
      PROVE  /\ \A d \in Controllers : Len(log[d]) <= Len(log'[d])
             /\ \A d \in Controllers : \A s \in Serials :
                    s <= Len(log[d]) => log'[d][s] = log[d][s]
    <2>1. PICK e \in Event : log' = [log EXCEPT ![c] = Append(@, e)]
        BY <1>1, Stamped DEF Occur, Event
    <2>2. \A d \in Controllers : d # c => log'[d] = log[d]
        BY <2>1 DEF DeviceTypeOK
    <2>3. /\ log[c] \in Seq(Event)
          /\ log'[c] = Append(log[c], e)
          /\ \A d \in Controllers : Len(log[d]) \in Nat
        BY <2>1 DEF DeviceTypeOK
    <2>4. \A s \in Serials : s <= Len(log[c]) => s \in 1..Len(log[c])
        BY <2>3, SerialsType, BoundsAssumption DEF Serials
    <2> QED
        BY <2>2, <2>3, <2>4
<1>2. CASE UNCHANGED log
    BY <1>2 DEF DeviceTypeOK
<1> QED
    BY <1>1, <1>2
       DEF Next, vars, Tick, Dump, Crash, Load, Unload, Close, Connect, Drop, Live,
           Fetch, Cap, FetchFails, Replay, Import, Finish

\* What marks cover, they still cover once the logs have grown.
LEMMA CoverGrows ==
    ASSUME TypeOK, [Next]_vars,
           NEW ing \in [Controllers -> SUBSET Serials],
           NEW sen \in [Controllers -> [Readers -> Sensor]],
           MarksCover(ing, sen)
    PROVE  MarksCover(ing, sen)'
<1> SUFFICES ASSUME NEW c \in Controllers, NEW s \in ing[c]
             PROVE  /\ s <= Len(log'[c])
                    /\ log'[c][s].reader \in Readers =>
                           s <= sen[c][log'[c][s].reader].lastSerial
    BY DEF MarksCover
<1>1. s \in Serials /\ s <= Len(log[c])
    BY DEF MarksCover
<1>2. Len(log[c]) \in Nat /\ Len(log'[c]) \in Nat
    BY DeviceTypeStep DEF TypeOK, DeviceTypeOK
<1>3. Len(log[c]) <= Len(log'[c]) /\ log'[c][s] = log[c][s]
    BY <1>1, LogGrows DEF TypeOK
<1> QED
    BY <1>1, <1>2, <1>3, SerialsType DEF MarksCover

\* A delivery keeps the marks covering: the listening sensor of the event's
\* reader advances to it, and no mark ever falls.
LEMMA DeliverCovers ==
    ASSUME TypeOK, NEW c \in Controllers, NEW s \in Serials, s <= Len(log[c]),
           Deliver(c, s), MarksCover(ingested, sensor)
    PROVE  MarksCover(ingested', sensor')
<1> USE DEF TypeOK
<1> SUFFICES ASSUME NEW d \in Controllers, NEW t \in ingested'[d]
             PROVE  /\ t <= Len(log[d])
                    /\ log[d][t].reader \in Readers =>
                           t <= sensor'[d][log[d][t].reader].lastSerial
    BY DEF MarksCover
<1>1. log[c] \in Seq(Event) /\ s \in 1..Len(log[c])
    BY SerialsType DEF DeviceTypeOK
<1>2. log[c][s] \in Event
    BY <1>1
<1>3. ASSUME NEW r \in Readers
      PROVE  /\ sensor'[d][r].lastSerial >= sensor[d][r].lastSerial
             /\ Listening(d) /\ log[c][s].reader = r => sensor'[d][r].lastSerial >= s
             /\ sensor[d][r].lastSerial \in Nat
             /\ sensor'[d][r].lastSerial \in Nat
    <2>1. sensor[d][r] \in Sensor
        BY DEF EntryTypeOK
    <2>2. sensor'[d][r] = IF Listening(d) /\ log[c][s].reader = r
                          THEN Advance(sensor[d][r], s, log[c][s])
                          ELSE sensor[d][r]
        BY DEF Deliver
    <2>3. /\ Advance(sensor[d][r], s, log[c][s]) \in Sensor
          /\ Advance(sensor[d][r], s, log[c][s]).lastSerial >= sensor[d][r].lastSerial
          /\ Advance(sensor[d][r], s, log[c][s]).lastSerial >= s
        BY <1>2, <2>1, AdvanceType, SerialsType
    <2> QED
        BY <2>1, <2>2, <2>3 DEF Sensor
<1>4. CASE t \in ingested[d]
    <2>1. t \in Serials
        BY <1>4 DEF RecordTypeOK
    <2>2. t \in Nat /\ t <= Len(log[d])
        BY <1>4, <2>1, SerialsType DEF MarksCover
    <2>3. ASSUME log[d][t].reader \in Readers
          PROVE  t <= sensor'[d][log[d][t].reader].lastSerial
        <3>1. t <= sensor[d][log[d][t].reader].lastSerial
            BY <1>4, <2>3 DEF MarksCover
        <3> QED
            BY <1>3, <2>2, <2>3, <3>1
    <2> QED
        BY <2>2, <2>3
<1>5. CASE t \notin ingested[d]
    <2>1. d = c /\ t = s /\ Listening(c)
        BY <1>5 DEF Deliver, RecordTypeOK
    <2> QED
        BY <1>3, <2>1, SerialsType
<1> QED
    BY <1>4, <1>5

\* The two steps that deliver an event: which one, and what they leave alone.
LEMMA Deliveries ==
    ASSUME TypeOK, NEW c \in Controllers, Live(c) \/ Replay(c)
    PROVE  /\ UNCHANGED log
           /\ \/ UNCHANGED <<sensor, fired, ingested>>
              \/ \E s \in Serials : s <= Len(log[c]) /\ Deliver(c, s)
<1> USE DEF TypeOK
<1>1. CASE Live(c)
    <2>1. Head(wire[c]) \in Serials /\ Head(wire[c]) <= Len(log[c])
        BY <1>1 DEF Live, DeviceTypeOK
    <2> QED
        BY <1>1, <2>1 DEF Live
<1>2. CASE Replay(c)
    <2>1. PICK s \in page[c] : Deliver(c, s) \/ UNCHANGED <<sensor, fired, ingested>>
        BY <1>2 DEF Replay
    <2>2. s \in Serials /\ s <= Len(log[c])
        BY DEF BackfillTypeOK
    <2> QED
        BY <1>2, <2>1, <2>2 DEF Replay
<1> QED
    BY <1>1, <1>2

LEMMA MarksStep ==
    ASSUME TypeOK, [Next]_vars, MarksCover(ingested, sensor),
           MarksCover(disk.ingested, disk.sensor)
    PROVE  /\ MarksCover(ingested, sensor)'
           /\ MarksCover(disk.ingested, disk.sensor)'
<1> USE DEF TypeOK
<1>1. /\ ingested \in [Controllers -> SUBSET Serials]
      /\ sensor \in [Controllers -> [Readers -> Sensor]]
      /\ disk.ingested \in [Controllers -> SUBSET Serials]
      /\ disk.sensor \in [Controllers -> [Readers -> Sensor]]
    BY DEF RecordTypeOK, EntryTypeOK, StoreTypeOK
<1>2. ASSUME NEW c \in Controllers, NEW s \in ingested[c]
      PROVE  /\ s <= Len(log'[c])
             /\ log'[c][s].reader \in Readers =>
                    s <= sensor[c][log'[c][s].reader].lastSerial
    BY <1>1, CoverGrows DEF MarksCover
<1>3. ASSUME NEW c \in Controllers, NEW s \in disk.ingested[c]
      PROVE  /\ s <= Len(log'[c])
             /\ log'[c][s].reader \in Readers =>
                    s <= disk.sensor[c][log'[c][s].reader].lastSerial
    BY <1>1, CoverGrows DEF MarksCover
<1>4. CASE Dump
    BY <1>2, <1>4 DEF Dump, MarksCover
<1>5. CASE Crash
    BY <1>3, <1>5 DEF Crash, MarksCover
<1>6. ASSUME NEW c \in Controllers, Live(c) \/ Replay(c)
      PROVE  MarksCover(ingested, sensor)' /\ MarksCover(disk.ingested, disk.sensor)'
    <2>1. UNCHANGED <<log, disk>>
        BY <1>6 DEF Live, Replay
    <2>2. MarksCover(ingested', sensor')
        BY <1>6, Deliveries, DeliverCovers DEF MarksCover
    <2> QED
        BY <1>3, <2>1, <2>2 DEF MarksCover
<1>7. CASE UNCHANGED <<sensor, ingested, disk>>
    BY <1>2, <1>3, <1>7 DEF MarksCover
<1> QED
    BY <1>4, <1>5, <1>6, <1>7
       DEF Next, vars, Tick, Occur, Load, Unload, Close, Connect, Drop, Fetch, Cap,
           FetchFails, Import, Finish

LEMMA RestoredStep ==
    ASSUME TypeOK, [Next]_vars, MarksCover(ingested, sensor), RestoredLogged
    PROVE  RestoredLogged'
<1> USE DEF TypeOK
<1>1. \A c \in Controllers : /\ Len(log[c]) \in Nat /\ Len(log'[c]) \in Nat
                             /\ Len(log[c]) <= Len(log'[c])
    BY LogGrows, DeviceTypeStep DEF DeviceTypeOK
<1>2. ASSUME NEW c \in Controllers, NEW s \in restored[c] \cup ingested[c]
      PROVE  s <= Len(log'[c])
    <2>1. s \in Nat /\ s <= Len(log[c])
        BY SerialsType DEF RestoredLogged, MarksCover, RecordTypeOK
    <2> QED
        BY <1>1, <2>1
<1>3. ASSUME NEW c \in Controllers, Load(c) PROVE RestoredLogged'
    BY <1>2, <1>3 DEF Load, RestoredLogged, RecordTypeOK
<1>4. CASE Crash
    BY <1>4 DEF Crash, RestoredLogged
<1>5. CASE UNCHANGED restored
    BY <1>2, <1>5 DEF RestoredLogged
<1> QED
    BY <1>3, <1>4, <1>5
       DEF Next, vars, Tick, Dump, Occur, Unload, Close, Connect, Drop, Live, Fetch,
           Cap, FetchFails, Replay, Import, Finish

\* The high-water mark of a load covers all that the entry's sensors cover.
LEMMA HighStep ==
    ASSUME TypeOK, [Next]_vars, MarksCover(ingested, sensor), RestoredLogged, HighCovers
    PROVE  HighCovers'
<1> USE DEF TypeOK
<1>1. ASSUME NEW c \in Controllers, NEW s \in restored[c]
      PROVE  log'[c][s] = log[c][s]
    BY LogGrows DEF RestoredLogged, RecordTypeOK
<1>2. ASSUME NEW c \in Controllers, Load(c) PROVE HighCovers'
    <2>1. ASSUME NEW s \in ingested[c], log[c][s].reader \in Readers,
                 bfpc'[c] = "fetch"
          PROVE  s <= window'[c].high
        <3>1. sensor[c][log[c][s].reader].lastSerial \in SerialMarks(c)
            BY <2>1 DEF SerialMarks, MarkedSensors
        <3>2. PICK h \in SerialMarks(c) :
                  IsHighest(h, SerialMarks(c)) /\ window'[c].high = h
            BY <1>2, <2>1 DEF Load, BackfillTypeOK
        <3>3. SerialMarks(c) \subseteq Nat
            BY DEF SerialMarks, MarkedSensors, EntryTypeOK, Sensor
        <3>4. s <= sensor[c][log[c][s].reader].lastSerial
            BY <2>1 DEF MarksCover
        <3>5. s \in Nat
            BY <2>1, SerialsType DEF RecordTypeOK
        <3> QED
            BY <3>1, <3>2, <3>3, <3>4, <3>5 DEF IsHighest
    <2>2. bfpc'[c] \in {"fetch", "done"} /\ restored'[c] = ingested[c]
        BY <1>2 DEF Load, BackfillTypeOK, RecordTypeOK
    <2>3. \A d \in Controllers : d # c =>
              /\ bfpc'[d] = bfpc[d] /\ window'[d] = window[d]
              /\ restored'[d] = restored[d]
        BY <1>2 DEF Load, BackfillTypeOK, RecordTypeOK
    <2>4. log' = log
        BY <1>2 DEF Load
    <2> QED
        BY <2>1, <2>2, <2>3, <2>4 DEF HighCovers
<1>3. CASE Crash
    BY <1>3 DEF Crash, HighCovers
<1>4. ASSUME NEW c \in Controllers,
             Fetch(c) \/ Cap(c) \/ FetchFails(c) \/ Replay(c) \/ Finish(c)
      PROVE  HighCovers'
    <2>1. UNCHANGED <<log, window, restored>>
        BY <1>4 DEF Fetch, Cap, FetchFails, Replay, Finish
    <2>2. \A d \in Controllers :
              bfpc'[d] \in {"fetch", "answered", "replay"} =>
                  bfpc[d] \in {"fetch", "answered", "replay"}
        BY <1>4 DEF Fetch, Cap, FetchFails, Replay, Finish, BackfillTypeOK
    <2> QED
        BY <2>1, <2>2 DEF HighCovers
<1>5. CASE UNCHANGED <<bfpc, window, restored>>
    BY <1>1, <1>5 DEF HighCovers
<1> QED
    BY <1>2, <1>3, <1>4, <1>5
       DEF Next, vars, Tick, Dump, Occur, Unload, Close, Connect, Drop, Live, Import

\* What is on the wire was logged after the load.
LEMMA WireStep ==
    ASSUME TypeOK, [Next]_vars, RestoredLogged, WireIsNew
    PROVE  WireIsNew'
<1> USE DEF TypeOK
<1>1. ASSUME NEW c \in Controllers, Occur(c) PROVE WireIsNew'
    <2>1. Len(log'[c]) = Len(log[c]) + 1 /\ Len(log[c]) \in Nat
        BY <1>1 DEF Occur, DeviceTypeOK
    <2>2. Len(log'[c]) \notin restored[c]
        BY <2>1 DEF RestoredLogged
    <2>3. wire[c] \in Seq(Serials)
        BY DEF DeviceTypeOK
    <2>4. CASE stream[c]
        <3>1. wire' = [wire EXCEPT ![c] = Append(@, Len(log'[c]))]
            BY <1>1, <2>4 DEF Occur
        <3>2. \A d \in Controllers : d # c => wire'[d] = wire[d]
            BY <3>1 DEF DeviceTypeOK
        <3>3. wire'[c] = Append(wire[c], Len(log'[c]))
            BY <3>1 DEF DeviceTypeOK
        <3>4. ASSUME NEW i \in 1..Len(wire'[c]) PROVE wire'[c][i] \notin restored[c]
            BY <2>2, <2>3, <3>3, <3>4 DEF WireIsNew
        <3>5. UNCHANGED <<stream, restored>>
            BY <1>1 DEF Occur
        <3> QED
            BY <2>4, <3>2, <3>4, <3>5 DEF WireIsNew
    <2>5. CASE ~stream[c]
        BY <1>1, <2>5 DEF Occur, WireIsNew
    <2> QED
        BY <2>4, <2>5
<1>2. ASSUME NEW c \in Controllers, Load(c) PROVE WireIsNew'
    BY <1>2 DEF Load, WireIsNew, RecordTypeOK
<1>3. ASSUME NEW c \in Controllers, Close(c) \/ Drop(c) PROVE WireIsNew'
    <2>1. /\ wire' = [wire EXCEPT ![c] = <<>>]
          /\ stream' = [stream EXCEPT ![c] = FALSE]
          /\ UNCHANGED restored
        BY <1>3 DEF Close, Drop
    <2> QED
        BY <2>1 DEF WireIsNew, DeviceTypeOK, EntryTypeOK
<1>4. ASSUME NEW c \in Controllers, Connect(c) PROVE WireIsNew'
    BY <1>4 DEF Connect, WireIsNew, EntryTypeOK
<1>5. ASSUME NEW c \in Controllers, Live(c) PROVE WireIsNew'
    <2>1. wire[c] # <<>> /\ wire[c] \in Seq(Serials) /\ stream[c]
        BY <1>5 DEF Live, DeviceTypeOK
    <2>2. /\ wire' = [wire EXCEPT ![c] = Tail(@)]
          /\ UNCHANGED <<stream, restored>>
        BY <1>5 DEF Live
    <2>3. \A i \in 1..Len(Tail(wire[c])) :
              i + 1 \in 1..Len(wire[c]) /\ Tail(wire[c])[i] = wire[c][i + 1]
        BY <2>1
    <2> QED
        BY <2>1, <2>2, <2>3 DEF WireIsNew, DeviceTypeOK
<1>6. CASE Crash
    BY <1>6 DEF Crash, WireIsNew
<1>7. CASE UNCHANGED <<wire, stream, restored>>
    BY <1>7 DEF WireIsNew
<1> QED
    BY <1>1, <1>2, <1>3, <1>4, <1>5, <1>6, <1>7
       DEF Next, vars, Tick, Dump, Unload, Fetch, Cap, FetchFails, Replay, Import, Finish

LEMMA FiredStep ==
    ASSUME TypeOK, [Next]_vars, RefireInv
    PROVE  RestartNeverRefires'
<1> USE DEF TypeOK
<1>1. ASSUME NEW c \in Controllers, NEW s \in restored[c]
      PROVE  log'[c][s] = log[c][s] /\ s \in Serials
    BY LogGrows DEF RefireInv, RestoredLogged, RecordTypeOK
<1>2. ASSUME NEW c \in Controllers, Load(c) PROVE RestartNeverRefires'
    <2>1. /\ fired' = [fired EXCEPT ![c] = [s \in Serials |-> 0]]
          /\ restored' = [restored EXCEPT ![c] = ingested[c]]
          /\ log' = log
        BY <1>2 DEF Load
    <2> QED
        BY <2>1 DEF RefireInv, RestartNeverRefires, RecordTypeOK
<1>3. ASSUME NEW c \in Controllers, NEW s \in Serials, Deliver(c, s),
             s \in restored[c] => log[c][s].reader \notin Readers,
             UNCHANGED <<log, restored>>
      PROVE  RestartNeverRefires'
    <2>1. \A d \in Controllers : \A t \in Serials :
              d # c \/ t # s => fired'[d][t] = fired[d][t]
        BY <1>3 DEF Deliver, RecordTypeOK
    <2> QED
        BY <1>1, <1>3, <2>1 DEF RefireInv, RestartNeverRefires
<1>4. ASSUME NEW c \in Controllers, Live(c) PROVE RestartNeverRefires'
    <2>1. wire[c] \in Seq(Serials) /\ wire[c] # <<>>
        BY <1>4 DEF Live, DeviceTypeOK
    <2>2. Head(wire[c]) \in Serials /\ Head(wire[c]) \notin restored[c]
        BY <2>1 DEF RefireInv, WireIsNew
    <2>3. Deliver(c, Head(wire[c])) /\ UNCHANGED <<log, restored>>
        BY <1>4 DEF Live
    <2> QED
        BY <1>3, <2>2, <2>3
<1>5. ASSUME NEW c \in Controllers, Replay(c) PROVE RestartNeverRefires'
    <2>1. PICK s \in page[c] : \/ Accepts(c, s) /\ Deliver(c, s)
                              \/ UNCHANGED fired
        BY <1>5 DEF Replay
    <2>2. UNCHANGED <<log, restored>> /\ bfpc[c] \in {"answered", "replay"}
        BY <1>5 DEF Replay
    <2>3. CASE UNCHANGED fired
        BY <2>2, <2>3 DEF RefireInv, RestartNeverRefires
    <2>4. CASE Accepts(c, s) /\ Deliver(c, s)
        <3>1. s \in Serials
            BY DEF BackfillTypeOK
        <3>2. s > window[c].high /\ s \in Nat /\ window[c].high \in Nat
            BY <2>4, <3>1, SerialsType DEF Accepts, BackfillTypeOK
        <3>3. s \in restored[c] => log[c][s].reader \notin Readers
            BY <2>2, <3>2 DEF RefireInv, HighCovers
        <3> QED
            BY <1>3, <2>2, <2>4, <3>1, <3>3
    <2> QED
        BY <2>1, <2>3, <2>4
<1>6. CASE Crash
    BY <1>6 DEF Crash, RestartNeverRefires
<1>7. CASE UNCHANGED <<fired, restored>>
    BY <1>1, <1>7 DEF RefireInv, RestartNeverRefires
<1> QED
    BY <1>2, <1>4, <1>5, <1>6, <1>7
       DEF Next, vars, Tick, Dump, Occur, Unload, Close, Connect, Drop, Fetch, Cap,
           FetchFails, Import, Finish

\* The strengthened invariant holds from the start and is kept by every step.
LEMMA RefireInvariant == Spec => []RefireInv
<1>1. Init => RefireInv
    BY DEF Init, RefireInv, MarksCover, RestoredLogged, HighCovers, WireIsNew,
           RestartNeverRefires
<1>2. TypeOK /\ RefireInv /\ [Next]_vars => RefireInv'
    BY MarksStep, RestoredStep, HighStep, WireStep, FiredStep DEF RefireInv
<1> QED
    BY <1>1, <1>2, TypeCorrect, PTL DEF Spec

\* "it's what stops a restart from re-firing old events onto the bus": for any
\* number of controllers, readers and events, any page size and any crashes, no
\* event of an enabled reader that had been ingested before a load is fired again.
THEOREM NeverRefires == Spec => []RestartNeverRefires
<1>1. RefireInv => RestartNeverRefires
    BY DEF RefireInv
<1> QED
    BY <1>1, RefireInvariant, PTL

-----------------------------------------------------------------------------
(* HikIngest implements HikLedger: every step of streams, pages, marks and  *)
(* stores is a step of the ledger or leaves it alone.                       *)

Logged == [c \in Controllers |-> Len(log[c])]
Ours   == [c \in Controllers |-> {s \in 1..Len(log[c]) : log[c][s].reader \in Readers}]

\* While the logs stay, so does what the ledger sees of them.
LEMMA SameLogs == UNCHANGED log => UNCHANGED <<Logged, Ours>>
BY DEF Logged, Ours

\* A logged event adds its serial to the reader's events, or nothing.
LEMMA LogStep ==
    ASSUME TypeOK, NEW c \in Controllers, Occur(c)
    PROVE  Ledger!Log(c)
<1>1. PICK e \in Event : log' = [log EXCEPT ![c] = Append(@, e)]
    BY Stamped DEF Occur, Event, TypeOK
<1>2. log \in [Controllers -> Seq(Event)]
    BY DEF TypeOK, DeviceTypeOK
<1>3. /\ \A d \in Controllers : d # c => log'[d] = log[d]
      /\ log'[c] = Append(log[c], e)
    BY <1>1, <1>2
<1>4. log[c] \in Seq(Event) /\ Len(log[c]) \in Nat
    BY <1>2
<1>5. /\ Len(log'[c]) = Len(log[c]) + 1
      /\ log'[c][Len(log[c]) + 1] = e
      /\ \A s \in 1..Len(log[c]) : log'[c][s] = log[c][s]
    BY <1>3, <1>4
<1>6. Logged' = [Logged EXCEPT ![c] = @ + 1]
    BY <1>3, <1>5 DEF Logged
<1>7. Ours'[c] = IF e.reader \in Readers THEN Ours[c] \cup {Len(log[c]) + 1} ELSE Ours[c]
    <2>1. 1..Len(log'[c]) = 1..Len(log[c]) \cup {Len(log[c]) + 1}
        BY <1>4, <1>5
    <2> QED
        BY <1>4, <1>5, <2>1 DEF Ours
<1>8. \A d \in Controllers : d # c => Ours'[d] = Ours[d]
    BY <1>3 DEF Ours
<1>9. Ours' \in {Ours, [Ours EXCEPT ![c] = @ \cup {Logged[c] + 1}]}
    <2>1. CASE e.reader \in Readers
        <3>1. Ours' = [Ours EXCEPT ![c] = @ \cup {Logged[c] + 1}]
            BY <1>7, <1>8, <2>1 DEF Ours, Logged
        <3> QED
            BY <3>1
    <2>2. CASE e.reader \notin Readers
        <3>1. Ours' = Ours
            BY <1>7, <1>8, <2>2 DEF Ours
        <3> QED
            BY <3>1
    <2> QED
        BY <2>1, <2>2
<1>10. UNCHANGED <<fired, ingested, restored, disk>>
    BY DEF Occur
<1> QED
    BY <1>6, <1>9, <1>10 DEF Ledger!Log, Logged, Ours

\* A delivery publishes its event, provided that the restored sensors did not
\* have it.
LEMMA PublishStep ==
    ASSUME TypeOK, NEW c \in Controllers, NEW s \in Serials, Deliver(c, s),
           s <= Len(log[c]),
           s \in restored[c] => log[c][s].reader \notin Readers,
           UNCHANGED <<log, restored, disk>>
    PROVE  Ledger!Next
<1>1. s <= Logged[c] /\ (s \in Ours[c] => s \notin restored[c])
    BY DEF Logged, Ours
<1>2. /\ fired' = [fired EXCEPT ![c][s] = @ + 1]
      /\ ingested' \in {ingested, [ingested EXCEPT ![c] = @ \cup {s}]}
    BY DEF Deliver
<1>3. UNCHANGED <<Logged, Ours>>
    BY SameLogs
<1>4. Ledger!Publish(c, s)
    BY <1>1, <1>2, <1>3 DEF Ledger!Publish, Logged, Ours
<1> QED
    BY <1>4 DEF Ledger!Next

\* Every step of the system is one of the ledger.
LEMMA LedgerStep ==
    ASSUME TypeOK, RefireInv, [Next]_vars
    PROVE  [Ledger!Next]_(Ledger!vars)
<1>1. ASSUME NEW c \in Controllers, Occur(c) PROVE Ledger!Next
    BY <1>1, LogStep DEF Ledger!Next
<1>2. ASSUME NEW c \in Controllers, Load(c) PROVE Ledger!Next
    <2>1. /\ fired' = [fired EXCEPT ![c] = [s \in Serials |-> 0]]
          /\ restored' = [restored EXCEPT ![c] = ingested[c]]
          /\ UNCHANGED <<log, ingested, disk>>
        BY <1>2 DEF Load
    <2>2. Ledger!Load(c)
        BY <2>1, SameLogs DEF Ledger!Load, Logged, Ours
    <2> QED
        BY <2>2 DEF Ledger!Next
<1>3. ASSUME NEW c \in Controllers, Live(c) PROVE Ledger!Next
    <2>1. wire[c] \in Seq(Serials) /\ wire[c] # <<>> /\ stream[c]
        BY <1>3 DEF Live, TypeOK, DeviceTypeOK
    <2>2. Head(wire[c]) \in Serials /\ Head(wire[c]) = wire[c][1] /\ 1 \in 1..Len(wire[c])
        BY <2>1
    <2>3. Head(wire[c]) <= Len(log[c]) /\ Head(wire[c]) \notin restored[c]
        BY <2>1, <2>2 DEF TypeOK, DeviceTypeOK, RefireInv, WireIsNew
    <2>4. Deliver(c, Head(wire[c])) /\ UNCHANGED <<log, restored, disk>>
        BY <1>3 DEF Live
    <2> QED
        BY <2>2, <2>3, <2>4, PublishStep
<1>4. ASSUME NEW c \in Controllers, Replay(c)
      PROVE  Ledger!Next \/ UNCHANGED Ledger!vars
    <2>1. PICK s \in page[c] : \/ Accepts(c, s) /\ Deliver(c, s)
                              \/ UNCHANGED <<fired, ingested>>
        BY <1>4 DEF Replay
    <2>2. UNCHANGED <<log, restored, disk>> /\ bfpc[c] \in {"answered", "replay"}
        BY <1>4 DEF Replay
    <2>3. CASE UNCHANGED <<fired, ingested>>
        BY <2>2, <2>3, SameLogs DEF Ledger!vars, Logged, Ours
    <2>4. CASE Accepts(c, s) /\ Deliver(c, s)
        <3>1. s \in Serials /\ s <= Len(log[c])
            BY DEF TypeOK, BackfillTypeOK
        <3>2. s > window[c].high /\ s \in Nat /\ window[c].high \in Nat
            BY <2>4, <3>1, SerialsType DEF Accepts, TypeOK, BackfillTypeOK
        <3>3. s \in restored[c] => log[c][s].reader \notin Readers
            BY <2>2, <3>2 DEF RefireInv, HighCovers
        <3> QED
            BY <2>2, <2>4, <3>1, <3>3, PublishStep
    <2> QED
        BY <2>1, <2>3, <2>4
<1>5. CASE Dump
    <2>1. disk'.ingested = ingested /\ UNCHANGED <<log, fired, ingested, restored>>
        BY <1>5 DEF Dump
    <2>2. Ledger!Save
        BY <2>1, SameLogs DEF Ledger!Save, Logged, Ours
    <2> QED
        BY <2>2 DEF Ledger!Next
<1>6. CASE Crash
    <2>1. /\ ingested' = disk.ingested
          /\ fired' = [c \in Controllers |-> [s \in Serials |-> 0]]
          /\ restored' = [c \in Controllers |-> {}]
          /\ UNCHANGED <<log, disk>>
        BY <1>6 DEF Crash
    <2>2. Ledger!Crash
        BY <2>1, SameLogs DEF Ledger!Crash, Ledger!Never, Ledger!Nothing, Logged, Ours
    <2> QED
        BY <2>2 DEF Ledger!Next
<1>7. CASE UNCHANGED <<log, fired, ingested, restored, disk>>
    BY <1>7, SameLogs DEF Ledger!vars, Logged, Ours
<1> QED
    BY <1>1, <1>2, <1>3, <1>4, <1>5, <1>6, <1>7
       DEF Next, vars, Tick, Unload, Close, Connect, Drop, Fetch, Cap, FetchFails,
           Import, Finish

\* The detailed ingestion implements the ledger: whatever streams, pages, marks,
\* reloads and crashes do, an event is published only after the controller logged
\* it, and never again once the entry's sensors knew it when it was loaded.
THEOREM IngestImplementsLedger == Spec => ImplementsLedger
<1>1. Init => Ledger!Init
    BY DEF Init, Ledger!Init, Ledger!Nothing, Ledger!Never
<1>2. TypeOK /\ RefireInv /\ [Next]_vars => [Ledger!Next]_(Ledger!vars)
    BY LedgerStep
<1>3. Spec => []RefireInv
    BY RefireInvariant
<1> QED
    BY <1>1, <1>2, <1>3, TypeCorrect, PTL DEF Spec, ImplementsLedger, Ledger!Spec

-----------------------------------------------------------------------------
(* What one load of an entry may deliver twice, and what it counts: an event  *)
(* reaches the bus a second time only when it lies between the load and the   *)
(* end of the search by the clocks of both parties, and no swipe is lost or   *)
(* counted twice on its way to the statistic, however the live stream, the    *)
(* pages of the backfill and the devices interleave.                          *)

Running(c) == bfpc[c] \in {"fetch", "answered", "replay"}
Wired(c)   == {wire[c][i] : i \in 1..Len(wire[c])}

\* A step that leaves alone everything about c that this module speaks of.
Quiet(c) ==
    /\ log'[c] = log[c] /\ wire'[c] = wire[c] /\ stream'[c] = stream[c]
    /\ bfpc'[c] = bfpc[c] /\ window'[c] = window[c]
    /\ seen'[c] = seen[c] /\ page'[c] = page[c]
    /\ fired'[c] = fired[c] /\ replayed'[c] = replayed[c]
    /\ tally'[c] = tally[c] /\ history'[c] = history[c]
    /\ now' = now \/ now' = now + 1

\* Every step is quiet about c, ends the process, or is one of c's own.
LEMMA Steps ==
    ASSUME TypeOK, [Next]_vars, NEW c \in Controllers
    PROVE  \/ Quiet(c) \/ Crash
           \/ Occur(c) \/ Load(c) \/ Close(c) \/ Connect(c) \/ Drop(c) \/ Live(c)
           \/ Fetch(c) \/ Cap(c) \/ FetchFails(c) \/ Replay(c)
           \/ (\E r \in Readers : Import(c, r)) \/ Finish(c)
<1> USE DEF TypeOK
<1>1. CASE Tick \/ Dump \/ UNCHANGED vars
    BY <1>1 DEF Tick, Dump, vars, Quiet
<1>2. ASSUME NEW d \in Controllers, Unload(d) PROVE Quiet(c)
    BY <1>2 DEF Unload, Quiet
<1>3. ASSUME NEW d \in Controllers, d # c,
             Occur(d) \/ Load(d) \/ Close(d) \/ Connect(d) \/ Drop(d)
      PROVE  Quiet(c)
    BY <1>3, ZenonT(40) DEF Occur, Load, Close, Connect, Drop, Quiet, DeviceTypeOK, EntryTypeOK,
                BackfillTypeOK, RecordTypeOK
<1>4. ASSUME NEW d \in Controllers, d # c,
             \/ Fetch(d) \/ Cap(d) \/ FetchFails(d)
             \/ (\E r \in Readers : Import(d, r)) \/ Finish(d)
      PROVE  Quiet(c)
    <2>1. CASE Fetch(d)
        BY <1>4, <2>1, SMTT(30) DEF Fetch, EndPaging, Quiet, BackfillTypeOK
    <2>2. CASE Cap(d) \/ FetchFails(d)
        BY <1>4, <2>2, SMTT(30) DEF Cap, FetchFails, EndPaging, Quiet, BackfillTypeOK
    <2>3. CASE (\E r \in Readers : Import(d, r)) \/ Finish(d)
        BY <1>4, <2>3, SMTT(30) DEF Import, Finish, Quiet, BackfillTypeOK, StoreTypeOK
    <2> QED
        BY <1>4, <2>1, <2>2, <2>3
<1>5. ASSUME NEW d \in Controllers, d # c, Live(d) PROVE Quiet(c)
    BY <1>5 DEF Live, Deliver, Quiet, DeviceTypeOK, RecordTypeOK
<1>6. ASSUME NEW d \in Controllers, d # c, Replay(d) PROVE Quiet(c)
    <2>1. /\ UNCHANGED <<now, log, wire, stream, window, history>>
          /\ bfpc'[c] = bfpc[c] /\ page'[c] = page[c] /\ seen'[c] = seen[c]
        BY <1>6 DEF Replay, BackfillTypeOK
    <2>2. fired'[c] = fired[c] /\ replayed'[c] = replayed[c] /\ tally'[c] = tally[c]
        BY <1>6, SMTT(30) DEF Replay, Deliver, BackfillTypeOK, RecordTypeOK
    <2> QED
        BY <2>1, <2>2 DEF Quiet
<1> QED
    BY <1>1, <1>2, <1>3, <1>4, <1>5, <1>6 DEF Next

\* No step sets a controller's clock.
LEMMA LeadStays == [Next]_vars => lead' = lead
BY DEF Next, vars, Tick, Dump, Crash, Occur, Load, Unload, Close, Connect, Drop, Live,
       Fetch, Cap, FetchFails, Replay, Import, Finish

\* What the steps need to know of the types, and that a logged event stays.
LEMMA Kinds ==
    ASSUME TypeOK, [Next]_vars, NEW c \in Controllers
    PROVE  /\ now \in Nat /\ window[c].until \in Nat /\ window[c].high \in Nat
           /\ HomeLead \in Nat /\ lead[c] \in Nat /\ lead' = lead
           /\ Len(log[c]) \in Nat /\ Len(log'[c]) \in Nat /\ Len(log[c]) <= Len(log'[c])
           /\ wire[c] \in Seq(Serials) /\ Wired(c) \subseteq Serials
           /\ page[c] \subseteq Serials /\ seen[c] \subseteq Serials
           /\ \A s \in page[c] \cup Wired(c) : s <= Len(log[c])
           /\ fired[c] \in [Serials -> Nat]
           /\ \A s \in Serials :
                  s <= Len(log[c]) => log'[c][s] = log[c][s] /\ log[c][s].time \in Nat
<1> USE DEF TypeOK
<1>1. ASSUME NEW s \in Serials, s <= Len(log[c]) PROVE log[c][s].time \in Nat
    <2>1. log[c] \in Seq(Event) /\ s \in 1..Len(log[c])
        BY <1>1, SerialsType DEF DeviceTypeOK
    <2>2. log[c][s] \in Event
        BY <2>1
    <2> QED
        BY <2>2 DEF Event
<1>2. wire[c] \in Seq(Serials) /\ Wired(c) \subseteq Serials
      /\ \A s \in Wired(c) : s <= Len(log[c])
    BY DEF Wired, DeviceTypeOK
<1>3. Len(log[c]) \in Nat /\ Len(log'[c]) \in Nat /\ Len(log[c]) <= Len(log'[c])
    BY LogGrows, DeviceTypeStep DEF DeviceTypeOK
<1>4. \A s \in Serials : s <= Len(log[c]) => log'[c][s] = log[c][s]
    BY LogGrows
<1>5. /\ page[c] \subseteq Serials /\ seen[c] \subseteq Serials
      /\ \A s \in page[c] : s <= Len(log[c])
      /\ window[c].until \in Nat /\ window[c].high \in Nat
    BY DEF BackfillTypeOK
<1>6. now \in Nat /\ fired[c] \in [Serials -> Nat]
    BY DEF DeviceTypeOK, RecordTypeOK
<1> QED
    BY <1>1, <1>2, <1>3, <1>4, <1>5, <1>6, LeadStays, Stamped

-----------------------------------------------------------------------------
(* An event is fired twice only when it was logged after the load and is    *)
(* not later than the end of the search: no page holds a later one, and no   *)
(* older one is on the wire.                                                 *)

PageAt(c) ==
    /\ window[c].until <= now + HomeLead
    /\ bfpc[c] \notin {"answered", "replay"} => page[c] = {}
    /\ \A s \in page[c] : log[c][s].time <= window[c].until

WireAt(c) ==
    /\ ~stream[c] => wire[c] = <<>>
    /\ \A i, j \in 1..Len(wire[c]) : i < j => wire[c][i] < wire[c][j]
    /\ \A s \in Wired(c) : SinceLoad(c, s)

\* What the backfill has not yielded was fired by the stream at most, and what is
\* still on the wire by the backfill at most.
OnceFor(c, s) ==
    /\ s > Len(log[c]) => fired[c][s] = 0
    /\ fired[c][s] <= 2
    /\ fired[c][s] = 2 => SinceLoad(c, s) /\ log[c][s].time <= window[c].until
    /\ Running(c) /\ s \notin seen[c] =>
           fired[c][s] <= 1 /\ (fired[c][s] = 1 => SinceLoad(c, s))
    /\ s \in Wired(c) =>
           /\ fired[c][s] <= 1
           /\ fired[c][s] = 1 => /\ log[c][s].time <= window[c].until
                                 /\ Running(c) => s \in seen[c]

OnceAt(c) == \A s \in Serials : OnceFor(c, s)

LoadInv == \A c \in Controllers : PageAt(c) /\ WireAt(c) /\ OnceAt(c)

LEMMA PageStep ==
    ASSUME TypeOK, [Next]_vars, NEW c \in Controllers, PageAt(c)
    PROVE  PageAt(c)'
<1> USE DEF TypeOK
<1>1. /\ now \in Nat /\ HomeLead \in Nat /\ window[c].until \in Nat
      /\ \A s \in page[c] : log'[c][s] = log[c][s]
    BY Kinds
<1>2. CASE Quiet(c)
    BY <1>1, <1>2 DEF Quiet, PageAt
<1>3. CASE Crash
    BY <1>1, <1>3 DEF Crash, NoWindow, PageAt
<1>4. CASE Load(c)
    <2>1. page'[c] = {} /\ window'[c].until \in {0, now + HomeLead} /\ now' = now
        BY <1>4 DEF Load, PageAt, NoWindow, End, BackfillTypeOK
    <2> QED
        BY <1>1, <2>1 DEF PageAt
<1>5. CASE Fetch(c)
    <2>1. \/ bfpc'[c] = "stats" /\ page'[c] = page[c]
          \/ bfpc'[c] = "answered" /\ page'[c] = Answer(c)
        <3>1. CASE Answer(c) = {}
            BY <1>5, <3>1 DEF Fetch, BackfillTypeOK
        <3>2. CASE Answer(c) # {}
            <4>1. /\ bfpc' = [bfpc EXCEPT ![c] = "answered"]
                  /\ page' = [page EXCEPT ![c] = Answer(c)]
                BY <1>5, <3>2 DEF Fetch
            <4> QED
                BY <4>1 DEF BackfillTypeOK
        <3> QED
            BY <3>1, <3>2
    <2>2. UNCHANGED <<log, now, window>> /\ page[c] = {}
        BY <1>5 DEF Fetch, PageAt
    <2>3. \A s \in Answer(c) : log[c][s].time <= window[c].until
        BY DEF Answer, Matches
    <2> QED
        BY <2>1, <2>2, <2>3 DEF PageAt
<1>6. CASE Replay(c)
    <2>1. /\ UNCHANGED <<log, now, window>> /\ page'[c] \subseteq page[c]
          /\ \/ bfpc'[c] = "fetch" /\ page'[c] = {}
             \/ bfpc'[c] = "replay"
        BY <1>6 DEF Replay, BackfillTypeOK
    <2> QED
        BY <2>1 DEF PageAt
<1>7. CASE FetchFails(c) \/ Cap(c) \/ Finish(c)
    BY <1>7 DEF FetchFails, Cap, Finish, PageAt, BackfillTypeOK
<1>8. CASE Occur(c) \/ Close(c) \/ Connect(c) \/ Drop(c) \/ Live(c) \/ \E r \in Readers : Import(c, r)
    <2>1. UNCHANGED <<now, window, bfpc, page>>
        BY <1>8 DEF Occur, Close, Connect, Drop, Live, Import
    <2> QED
        BY <1>1, <2>1 DEF PageAt
<1> QED
    BY <1>2, <1>3, <1>4, <1>5, <1>6, <1>7, <1>8, Steps

\* A live event is the oldest on the wire and leaves it.
LEMMA TailLeaves ==
    ASSUME NEW w \in Seq(Serials), w # <<>>,
           \A i, j \in 1..Len(w) : i < j => w[i] < w[j]
    PROVE  /\ Head(w) = w[1] /\ 1 \in 1..Len(w)
           /\ \A i \in 1..Len(Tail(w)) :
                  i + 1 \in 1..Len(w) /\ Tail(w)[i] = w[i + 1] /\ w[i + 1] # Head(w)
           /\ \A i, j \in 1..Len(Tail(w)) : i < j => Tail(w)[i] < Tail(w)[j]
<1>1. Len(w) \in Nat /\ Len(w) > 0 /\ Head(w) = w[1] /\ Len(Tail(w)) = Len(w) - 1
    OBVIOUS
<1>2. \A i \in 1..Len(Tail(w)) :
          i + 1 \in 1..Len(w) /\ Tail(w)[i] = w[i + 1] /\ w[i + 1] \in Serials
    BY <1>1
<1>3. w[1] \in Serials
    BY <1>1
<1>4. ASSUME NEW i \in 1..Len(Tail(w)) PROVE w[i + 1] # w[1]
    <2>1. w[1] < w[i + 1]
        BY <1>1, <1>2
    <2>2. w[1] \in Nat /\ w[i + 1] \in Nat
        BY <1>2, <1>3, SerialsType
    <2> QED
        BY <2>1, <2>2
<1>5. ASSUME NEW i \in 1..Len(Tail(w)), NEW j \in 1..Len(Tail(w)), i < j
      PROVE  Tail(w)[i] < Tail(w)[j]
    BY <1>1, <1>2, <1>5
<1> QED
    BY <1>1, <1>2, <1>4, <1>5

LEMMA WireOrderStep ==
    ASSUME TypeOK, [Next]_vars, NEW c \in Controllers, PageAt(c), WireAt(c)
    PROVE  WireAt(c)'
<1> USE DEF TypeOK
<1>1. /\ now \in Nat /\ window[c].until \in Nat /\ Len(log[c]) \in Nat
      /\ HomeLead \in Nat /\ lead[c] \in Nat /\ lead' = lead
      /\ wire[c] \in Seq(Serials)
      /\ \A s \in Wired(c) : /\ s \in Nat /\ s <= Len(log[c])
                             /\ log'[c][s] = log[c][s] /\ log[c][s].time \in Nat
    BY Kinds, SerialsType
<1>2. CASE Quiet(c)
    BY <1>1, <1>2 DEF Quiet, WireAt, Wired, SinceLoad
<1>3. CASE Crash \/ Close(c) \/ Drop(c)
    <2>1. wire'[c] = <<>>
        BY <1>3 DEF Crash, Close, Drop, DeviceTypeOK
    <2> QED
        BY <2>1 DEF WireAt, Wired
<1>4. CASE Load(c)
    <2>1. ~stream[c] /\ UNCHANGED <<wire, stream>>
        BY <1>4 DEF Load
    <2> QED
        BY <2>1 DEF WireAt, Wired
<1>5. CASE Occur(c)
    <2>1. UNCHANGED <<now, stream, window>>
        BY <1>5 DEF Occur
    <2>2. CASE ~stream[c]
        BY <1>5, <2>1, <2>2 DEF Occur, WireAt, Wired
    <2>3. CASE stream[c]
        <3> DEFINE n == Len(log[c]) + 1
        <3>1. /\ Len(log'[c]) = n /\ log'[c][n].time = now + lead[c]
              /\ n \in Serials
            <4>1. PICK r \in Readers \cup {NoReader}, card \in BOOLEAN :
                      log'[c] = Append(log[c],
                                    [time |-> now + lead[c], reader |-> r, card |-> card])
                BY <1>5 DEF Occur, DeviceTypeOK
            <4>2. log[c] \in Seq(Event) /\ Len(log[c]) < MaxLog
                BY <1>5 DEF Occur, DeviceTypeOK
            <4> QED
                BY <1>1, <4>1, <4>2, SerialsType, BoundsAssumption
        <3>2. wire'[c] = Append(wire[c], n)
            BY <1>5, <2>3, <3>1 DEF Occur, DeviceTypeOK
        <3>3. /\ Len(wire'[c]) = Len(wire[c]) + 1 /\ Len(wire[c]) \in Nat
              /\ wire'[c][Len(wire[c]) + 1] = n
              /\ \A i \in 1..Len(wire[c]) : wire'[c][i] = wire[c][i] /\ wire[c][i] \in Wired(c)
            BY <1>1, <3>1, <3>2, SMTT(30) DEF Wired
        <3>4. ASSUME NEW i \in 1..Len(wire'[c]), NEW j \in 1..Len(wire'[c]), i < j
              PROVE  wire'[c][i] < wire'[c][j]
            <4>1. i \in 1..Len(wire[c]) /\ wire'[c][i] = wire[c][i] /\ wire[c][i] \in Nat
                  /\ wire[c][i] <= Len(log[c])
                BY <1>1, <3>3, <3>4
            <4>2. CASE j \in 1..Len(wire[c])
                BY <3>3, <3>4, <4>1, <4>2 DEF WireAt
            <4>3. CASE j = Len(wire[c]) + 1
                BY <1>1, <3>3, <4>1, <4>3
            <4> QED
                BY <3>3, <4>2, <4>3
        <3>5. ASSUME NEW i \in 1..Len(wire'[c])
              PROVE  window[c].until + lead[c] <= log'[c][wire'[c][i]].time + HomeLead
            <4>1. CASE i \in 1..Len(wire[c])
                BY <1>1, <3>3, <4>1 DEF WireAt, SinceLoad
            <4>2. CASE i = Len(wire[c]) + 1
                <5>1. log'[c][wire'[c][i]].time = now + lead[c]
                    BY <3>1, <3>3, <4>2
                <5>2. window[c].until <= now + HomeLead
                    BY DEF PageAt
                <5> QED
                    BY <1>1, <5>1, <5>2
            <4> QED
                BY <3>3, <4>1, <4>2
        <3> QED
            BY <1>1, <2>1, <2>3, <3>4, <3>5 DEF WireAt, Wired, SinceLoad
    <2> QED
        BY <2>2, <2>3
<1>6. CASE Live(c)
    <2>1. /\ stream[c] /\ wire[c] # <<>> /\ wire'[c] = Tail(wire[c])
          /\ UNCHANGED <<log, stream, window>>
        BY <1>6 DEF Live, DeviceTypeOK
    <2>2. /\ \A i \in 1..Len(Tail(wire[c])) : Tail(wire[c])[i] \in Wired(c)
          /\ \A i, j \in 1..Len(Tail(wire[c])) : i < j => Tail(wire[c])[i] < Tail(wire[c])[j]
        BY <1>1, <2>1, TailLeaves, SMTT(30) DEF WireAt, Wired
    <2> QED
        BY <1>1, <2>1, <2>2 DEF WireAt, Wired, SinceLoad
<1>7. CASE Connect(c)
    BY <1>7 DEF Connect, WireAt, Wired, SinceLoad, EntryTypeOK
<1>8. CASE Fetch(c) \/ Cap(c) \/ FetchFails(c) \/ Replay(c) \/ Finish(c) \/ \E r \in Readers : Import(c, r)
    <2>1. UNCHANGED <<log, wire, stream, window>>
        BY <1>8 DEF Fetch, Cap, FetchFails, Replay, Finish, Import
    <2> QED
        BY <1>1, <2>1 DEF WireAt, Wired, SinceLoad
<1> QED
    BY <1>2, <1>3, <1>4, <1>5, <1>6, <1>7, <1>8, Steps

LEMMA OnceStep ==
    ASSUME TypeOK, [Next]_vars, NEW c \in Controllers, PageAt(c), WireAt(c), OnceAt(c)
    PROVE  OnceAt(c)'
<1> USE DEF TypeOK
<1> SUFFICES ASSUME NEW s \in Serials PROVE OnceFor(c, s)'
    BY DEF OnceAt
<1>1. /\ window[c].until \in Nat /\ Len(log[c]) \in Nat /\ Len(log'[c]) \in Nat
      /\ Len(log[c]) <= Len(log'[c])
      /\ wire[c] \in Seq(Serials) /\ s \in Nat /\ fired[c][s] \in Nat
      /\ s \in Wired(c) \cup page[c] => s <= Len(log[c])
      /\ s <= Len(log[c]) => log'[c][s] = log[c][s] /\ log[c][s].time \in Nat
      /\ lead' = lead
    BY Kinds, SerialsType
<1>2. OnceFor(c, s)
    BY DEF OnceAt
\* An event that was logged keeps its place in time while the window stays.
<1>12. s <= Len(log[c]) /\ window'[c] = window[c] =>
           (SinceLoad(c, s)' <=> SinceLoad(c, s))
    BY <1>1 DEF SinceLoad
\* Nothing is fired, nothing new is on the wire, and the backfill forgets nothing.
<1>3. ASSUME fired'[c] = fired[c], window'[c] = window[c],
             s \in Wired(c)' => s \in Wired(c),
             Running(c)' => Running(c) /\ seen[c] \subseteq seen'[c]
      PROVE  OnceFor(c, s)'
    <2>1. CASE s <= Len(log[c])
        BY <1>1, <1>2, <1>3, <1>12, <2>1 DEF OnceFor
    <2>2. CASE s > Len(log[c])
        <3>1. fired'[c][s] = 0 /\ ~(s \in Wired(c)')
            BY <1>1, <1>2, <1>3, <2>2 DEF OnceFor
        <3> QED
            BY <3>1 DEF OnceFor
    <2> QED
        BY <1>1, <2>1, <2>2
<1>4. CASE Quiet(c)
    BY <1>3, <1>4 DEF Quiet, Running, Wired
<1>5. CASE Crash \/ Load(c)
    <2>1. fired'[c][s] = 0
        BY <1>5 DEF Crash, Load, RecordTypeOK
    <2> QED
        BY <2>1 DEF OnceFor
<1>6. CASE Close(c) \/ Drop(c)
    <2>1. /\ wire'[c] = <<>> /\ UNCHANGED <<fired, window, bfpc, seen>>
        BY <1>6 DEF Close, Drop, DeviceTypeOK
    <2> QED
        BY <1>3, <2>1 DEF Running, Wired
<1>7. CASE Connect(c) \/ Cap(c) \/ FetchFails(c) \/ Finish(c) \/ \E r \in Readers : Import(c, r)
    <2>1. /\ UNCHANGED <<fired, window, wire>>
          /\ UNCHANGED <<bfpc, seen>> \/ bfpc'[c] \in {"stats", "done"}
        BY <1>7 DEF Connect, Cap, FetchFails, Finish, Import, BackfillTypeOK
    <2> QED
        BY <1>3, <2>1 DEF Running, Wired
<1>8. CASE Fetch(c)
    <2>1. /\ UNCHANGED <<fired, window, wire>> /\ bfpc[c] = "fetch"
          /\ seen' = seen \/ bfpc'[c] = "stats"
        BY <1>8 DEF Fetch, BackfillTypeOK
    <2> QED
        BY <1>3, <2>1 DEF Running, Wired
<1>9. CASE Occur(c)
    <2>1. UNCHANGED <<fired, window, bfpc, seen>>
        BY <1>9 DEF Occur
    <2>2. wire'[c] = wire[c] \/ wire'[c] = Append(wire[c], Len(log[c]) + 1)
        <3>1. Len(log'[c]) = Len(log[c]) + 1
            BY <1>9 DEF Occur, DeviceTypeOK
        <3> QED
            BY <1>9, <3>1 DEF Occur, DeviceTypeOK
    <2>3. s \in Wired(c)' => s \in Wired(c) \/ s = Len(log[c]) + 1
        <3>1. CASE wire'[c] = wire[c]
            BY <3>1 DEF Wired
        <3>2. CASE wire'[c] = Append(wire[c], Len(log[c]) + 1)
            BY <1>1, <3>2 DEF Wired
        <3> QED
            BY <2>2, <3>1, <3>2
    <2>4. CASE s = Len(log[c]) + 1
        <3>1. fired'[c][s] = 0
            BY <1>1, <1>2, <2>1, <2>4 DEF OnceFor
        <3> QED
            BY <3>1 DEF OnceFor
    <2> QED
        BY <1>3, <2>1, <2>3, <2>4 DEF Running
<1>10. CASE Live(c)
    <2> DEFINE h == Head(wire[c])
    <2>1. /\ wire[c] # <<>> /\ wire'[c] = Tail(wire[c])
          /\ UNCHANGED <<log, window, bfpc, seen>>
        BY <1>10 DEF Live, DeviceTypeOK
    <2>2. h \in Wired(c) /\ (s \in Wired(c)' => s \in Wired(c) /\ s # h)
        BY <1>1, <2>1, TailLeaves, SMTT(30) DEF WireAt, Wired
    <2>3. fired'[c][s] = IF s = h THEN fired[c][s] + 1 ELSE fired[c][s]
        BY <1>10 DEF Live, Deliver, RecordTypeOK
    <2>4. CASE s # h
        <3>1. fired'[c][s] = fired[c][s] /\ Len(log'[c]) = Len(log[c])
              /\ log'[c][s] = log[c][s] /\ window'[c] = window[c]
              /\ (Running(c)' <=> Running(c)) /\ seen'[c] = seen[c]
            BY <2>1, <2>3, <2>4 DEF Running
        <3>2. SinceLoad(c, s)' <=> SinceLoad(c, s)
            BY <1>1, <3>1 DEF SinceLoad
        <3> QED
            BY <1>2, <2>2, <2>4, <3>1, <3>2 DEF OnceFor
    <2>5. CASE s = h
        <3>1. /\ s <= Len(log[c]) /\ fired[c][s] <= 1
              /\ SinceLoad(c, s)
              /\ fired[c][s] = 1 => /\ log[c][s].time <= window[c].until
                                    /\ Running(c) => s \in seen[c]
            BY <1>1, <1>2, <2>2, <2>5 DEF OnceFor, WireAt
        <3>2. fired'[c][s] = fired[c][s] + 1 /\ ~(s \in Wired(c)')
            BY <2>2, <2>3, <2>5
        <3> QED
            BY <1>1, <1>12, <2>1, <3>1, <3>2 DEF OnceFor, Running
    <2> QED
        BY <2>4, <2>5
<1>11. CASE Replay(c)
    <2>1. PICK p \in page[c] :
              /\ seen' = [seen EXCEPT ![c] = @ \cup {p}]
              /\ \/ Accepts(c, p) /\ Deliver(c, p)
                 \/ UNCHANGED fired
        BY <1>11 DEF Replay
    <2>2. /\ UNCHANGED <<log, window, wire>> /\ Running(c)
          /\ seen'[c] = seen[c] \cup {p}
        BY <1>11, <2>1 DEF Replay, Running, BackfillTypeOK
    <2>3. CASE UNCHANGED fired
        BY <1>3, <2>2, <2>3 DEF Wired
    <2>4. CASE Accepts(c, p) /\ Deliver(c, p)
        <3>1. p \notin seen[c] /\ p \in Serials
            BY <2>4 DEF Accepts, BackfillTypeOK
        <3>2. fired'[c][s] = IF s = p THEN fired[c][s] + 1 ELSE fired[c][s]
            BY <2>4, <3>1 DEF Deliver, RecordTypeOK
        <3>3. CASE s # p
            <4>1. Running(c)' /\ Wired(c)' = Wired(c) /\ Len(log'[c]) = Len(log[c])
                  /\ (s \in seen'[c] <=> s \in seen[c]) /\ fired'[c][s] = fired[c][s]
                BY <1>11, <2>2, <3>2, <3>3 DEF Replay, Wired, Running, BackfillTypeOK
            <4>2. SinceLoad(c, s)' <=> SinceLoad(c, s)
                BY <1>1, <2>2 DEF SinceLoad
            <4> QED
                BY <1>2, <2>2, <3>3, <4>1, <4>2 DEF OnceFor
        <3>4. CASE s = p
            <4>1. /\ s <= Len(log[c]) /\ log[c][s].time <= window[c].until
                  /\ fired[c][s] <= 1
                  /\ fired[c][s] = 1 => SinceLoad(c, s)
                  /\ s \in Wired(c) => fired[c][s] # 1
                BY <1>1, <1>2, <2>2, <3>1, <3>4 DEF OnceFor, PageAt
            <4>2. fired'[c][s] = fired[c][s] + 1 /\ s \in seen'[c]
                BY <2>2, <3>2, <3>4
            <4> QED
                BY <1>1, <1>12, <2>2, <4>1, <4>2 DEF OnceFor, Wired
        <3> QED
            BY <3>3, <3>4
    <2> QED
        BY <2>1, <2>3, <2>4
<1> QED
    BY <1>4, <1>5, <1>6, <1>7, <1>8, <1>9, <1>10, <1>11, Steps

LEMMA LoadInvariant == Spec => []LoadInv
<1>1. Init => LoadInv
    <2> SUFFICES ASSUME Init, NEW c \in Controllers
                 PROVE  PageAt(c) /\ WireAt(c) /\ OnceAt(c)
        BY DEF LoadInv
    <2>1. PageAt(c)
        BY ClocksAssumption DEF Init, NoWindow, PageAt
    <2>2. Wired(c) = {}
        BY DEF Init, Wired
    <2>3. WireAt(c)
        BY <2>2 DEF Init, WireAt
    <2>4. OnceAt(c)
        BY <2>2 DEF Init, OnceAt, OnceFor
    <2> QED
        BY <2>1, <2>3, <2>4
<1>2. TypeOK /\ LoadInv /\ [Next]_vars => LoadInv'
    BY PageStep, WireOrderStep, OnceStep DEF LoadInv
<1> QED
    BY <1>1, <1>2, TypeCorrect, PTL DEF Spec

\* For any controllers, clocks, pages, drops and restarts, an event that reaches the bus
\* twice in one load does so exactly twice, once live and once replayed, and only when it
\* was logged after the load but stamped, by its controller's clock, no later than the
\* end that _run_backfill set to its search by Home Assistant's.
THEOREM SecondFire == Spec => []DoubleFireOnlyAtLoad
<1>1. TypeOK /\ LoadInv => DoubleFireOnlyAtLoad
    <2>1. ASSUME TypeOK, LoadInv, NEW c \in Controllers, NEW s \in Serials, fired[c][s] > 1
          PROVE  fired[c][s] = 2 /\ SinceLoad(c, s) /\ log[c][s].time <= window[c].until
        <3>1. fired[c][s] \in Nat /\ OnceFor(c, s)
            BY <2>1 DEF TypeOK, RecordTypeOK, LoadInv, OnceAt
        <3> QED
            BY <2>1, <3>1 DEF OnceFor
    <2> QED
        BY <2>1 DEF DoubleFireOnlyAtLoad
<1> QED
    BY <1>1, TypeCorrect, LoadInvariant, PTL

-----------------------------------------------------------------------------
(* A swipe is counted for the statistic once, and what was counted is kept   *)
(* until it is stored: the task counts only what it has not yielded before,  *)
(* and neither a failed page nor the end of the paging forgets a count.      *)

Counted(c, r) == {s \in tally[c].yielded : log[c][s].card /\ log[c][s].reader = r}

CountAt(c) ==
    /\ \A s \in tally[c].yielded : s <= Len(log[c])
    /\ Running(c) => tally[c].yielded \subseteq seen[c]
    /\ bfpc[c] \in {"off", "done"} => tally[c].yielded = {}
    /\ \A r \in Readers :
           history[c][r] + replayed[c][r] = tally[c].before[r] + Cardinality(Counted(c, r))

CountInv == \A c \in Controllers : CountAt(c)

LEMMA CountedFinite ==
    ASSUME TypeOK, NEW c \in Controllers, NEW r \in Readers
    PROVE  IsFiniteSet(Counted(c, r)) /\ Cardinality(Counted(c, r)) \in Nat
<1>1. Counted(c, r) \subseteq Serials
    BY DEF Counted, TypeOK, BackfillTypeOK
<1>2. IsFiniteSet(Serials)
    BY FS_Interval, BoundsAssumption DEF Serials
<1> QED
    BY <1>1, <1>2, FS_Subset, FS_CardinalityType

LEMMA CountStep ==
    ASSUME TypeOK, [Next]_vars, NEW c \in Controllers, CountAt(c)
    PROVE  CountAt(c)'
<1> USE DEF TypeOK
<1>1. /\ Len(log[c]) \in Nat /\ Len(log'[c]) \in Nat /\ Len(log[c]) <= Len(log'[c])
      /\ tally[c].yielded \subseteq Serials
      /\ \A s \in tally[c].yielded :
             s \in Nat /\ s <= Len(log[c]) /\ log'[c][s] = log[c][s]
    BY Kinds, SerialsType DEF CountAt, BackfillTypeOK
<1>2. \A r \in Readers : history[c][r] \in Nat /\ replayed[c][r] \in Nat
    BY DEF BackfillTypeOK, StoreTypeOK
\* Nothing is counted, and what was counted is neither stored nor forgotten.
<1>3. ASSUME tally'[c] = tally[c], history'[c] = history[c], replayed'[c] = replayed[c],
             Running(c)' => tally[c].yielded \subseteq seen'[c],
             bfpc'[c] \in {"off", "done"} => bfpc[c] \in {"off", "done"}
      PROVE  CountAt(c)'
    <2>1. \A r \in Readers : Counted(c, r)' = Counted(c, r)
        BY <1>1, <1>3 DEF Counted
    <2> QED
        BY <1>1, <1>3, <2>1 DEF CountAt
\* The count starts over: all that was counted is stored.
<1>4. ASSUME tally'[c] = Tally(history'[c]), \A r \in Readers : replayed'[c][r] = 0,
             history'[c] = history[c]
      PROVE  CountAt(c)'
    <2>1. tally'[c].yielded = {} /\ tally'[c].before = history[c]
        BY <1>4 DEF Tally
    <2>2. \A r \in Readers : Cardinality(Counted(c, r)') = 0
        BY <2>1, FS_EmptySet DEF Counted
    <2> QED
        BY <1>2, <1>4, <2>1, <2>2 DEF CountAt
<1>5. CASE Quiet(c)
    <2>1. /\ tally'[c] = tally[c] /\ history'[c] = history[c] /\ replayed'[c] = replayed[c]
          /\ seen'[c] = seen[c] /\ bfpc'[c] = bfpc[c]
        BY <1>5 DEF Quiet
    <2> QED
        BY <1>3, <2>1 DEF CountAt, Running
<1>6. CASE Crash
    <2>1. /\ tally'[c] = Tally(history'[c]) /\ history' = history
          /\ \A r \in Readers : replayed'[c][r] = 0
        BY <1>6 DEF Crash, NothingFrom
    <2> QED
        BY <1>4, <2>1
<1>7. CASE Occur(c) \/ Close(c) \/ Connect(c) \/ Drop(c) \/ Live(c)
    <2>1. UNCHANGED <<seen, tally, history, replayed, bfpc>>
        BY <1>7 DEF Occur, Close, Connect, Drop, Live
    <2> QED
        BY <1>3, <2>1 DEF CountAt, Running
<1>8. CASE Load(c)
    <2>1. UNCHANGED <<tally, history, replayed>> /\ bfpc[c] \in {"off", "done"}
        BY <1>8 DEF Load
    <2> QED
        BY <1>3, <2>1 DEF CountAt
<1>9. CASE Fetch(c) \/ Cap(c) \/ FetchFails(c)
    <2>1. /\ UNCHANGED <<tally, history, replayed>>
          /\ \/ bfpc'[c] = "stats"
             \/ bfpc'[c] = "answered" /\ bfpc[c] = "fetch" /\ UNCHANGED seen
        BY <1>9 DEF Fetch, Cap, FetchFails, BackfillTypeOK
    <2> QED
        BY <1>3, <2>1 DEF CountAt, Running
<1>10. ASSUME NEW q \in Readers, Import(c, q) PROVE CountAt(c)'
    <2>1. /\ UNCHANGED <<tally, log, bfpc, seen>>
          /\ history'[c][q] = history[c][q] + replayed[c][q] /\ replayed'[c][q] = 0
          /\ \A r \in Readers \ {q} :
                 history'[c][r] = history[c][r] /\ replayed'[c][r] = replayed[c][r]
        BY <1>10 DEF Import, BackfillTypeOK, StoreTypeOK
    <2>2. \A r \in Readers :
              history'[c][r] + replayed'[c][r] = history[c][r] + replayed[c][r]
        BY <1>2, <2>1
    <2>3. \A r \in Readers : Counted(c, r)' = Counted(c, r)
        BY <2>1 DEF Counted
    <2> QED
        BY <2>1, <2>2, <2>3 DEF CountAt, Running
<1>11. CASE Finish(c)
    <2>1. /\ tally'[c] = Tally(history'[c]) /\ history' = history
          /\ \A r \in Readers : replayed'[c][r] = 0
        BY <1>11 DEF Finish, BackfillTypeOK
    <2> QED
        BY <1>4, <2>1
<1>12. CASE Replay(c)
    <2>1. PICK p \in page[c] :
              /\ seen' = [seen EXCEPT ![c] = @ \cup {p}]
              /\ IF Accepts(c, p)
                 THEN /\ replayed' = [replayed EXCEPT ![c] = [r \in Readers |->
                             IF log[c][p].card /\ log[c][p].reader = r
                             THEN @[r] + 1 ELSE @[r]]]
                      /\ tally' = [tally EXCEPT ![c].yielded = @ \cup {p}]
                 ELSE UNCHANGED <<replayed, tally>>
        BY <1>12 DEF Replay
    <2>2. /\ UNCHANGED <<log, history>> /\ Running(c) /\ Running(c)'
          /\ seen'[c] = seen[c] \cup {p} /\ p <= Len(log[c])
        BY <1>12, <2>1 DEF Replay, Running, BackfillTypeOK
    <2>3. CASE ~Accepts(c, p)
        <3>1. UNCHANGED <<replayed, tally>> /\ bfpc'[c] \notin {"off", "done"}
            BY <2>1, <2>2, <2>3 DEF Running
        <3> QED
            BY <1>3, <2>2, <3>1 DEF CountAt
    <2>4. CASE Accepts(c, p)
        <3>1. /\ tally'[c].yielded = tally[c].yielded \cup {p}
              /\ tally'[c].before = tally[c].before
            BY <2>1, <2>4 DEF BackfillTypeOK
        <3>2. p \notin tally[c].yielded
            BY <2>2, <2>4 DEF Accepts, CountAt
        <3>3. ASSUME NEW r \in Readers
              PROVE  history'[c][r] + replayed'[c][r]
                         = tally'[c].before[r] + Cardinality(Counted(c, r)')
            <4>1. /\ IsFiniteSet(Counted(c, r)) /\ Cardinality(Counted(c, r)) \in Nat
                  /\ tally[c].before[r] \in Nat /\ history'[c][r] = history[c][r]
                  /\ history[c][r] + replayed[c][r]
                         = tally[c].before[r] + Cardinality(Counted(c, r))
                BY <2>2, CountedFinite DEF CountAt, BackfillTypeOK
            <4>2. CASE log[c][p].card /\ log[c][p].reader = r
                <5>1. p \notin Counted(c, r) /\ Counted(c, r)' = Counted(c, r) \cup {p}
                    BY <2>2, <3>1, <3>2, <4>2 DEF Counted
                <5>2. replayed'[c][r] = replayed[c][r] + 1
                    BY <2>1, <2>4, <4>2 DEF BackfillTypeOK
                <5>3. Cardinality(Counted(c, r)') = Cardinality(Counted(c, r)) + 1
                    BY <4>1, <5>1, FS_AddElement
                <5> QED
                    BY <1>2, <3>1, <4>1, <5>2, <5>3
            <4>3. CASE ~(log[c][p].card /\ log[c][p].reader = r)
                <5>1. Counted(c, r)' = Counted(c, r)
                    BY <2>2, <3>1, <4>3 DEF Counted
                <5>2. replayed'[c][r] = replayed[c][r]
                    BY <2>1, <2>4, <4>3 DEF BackfillTypeOK
                <5> QED
                    BY <3>1, <4>1, <5>1, <5>2
            <4> QED
                BY <4>2, <4>3
        <3>4. /\ \A s \in tally'[c].yielded : s <= Len(log'[c])
              /\ tally'[c].yielded \subseteq seen'[c]
              /\ bfpc'[c] \notin {"off", "done"}
            BY <2>2, <3>1 DEF CountAt, Running
        <3> QED
            BY <3>3, <3>4 DEF CountAt
    <2> QED
        BY <2>3, <2>4
<1> QED
    BY <1>5, <1>6, <1>7, <1>8, <1>9, <1>10, <1>11, <1>12, Steps

\* For any page size, cap and clocks, and also for a device that ignores the search
\* position, the statistic of a reader has grown, with what is still to be stored, by
\* exactly the card reads that _run_backfill took over, each once, whether the paging
\* ended, was capped or failed on a later page.
THEOREM CountsOnce == Spec => []ReplayCountsOnce
<1>1. Init => CountInv
    <2> SUFFICES ASSUME Init, NEW c \in Controllers PROVE CountAt(c)
        BY DEF CountInv
    <2>1. /\ tally[c].yielded = {}
          /\ \A r \in Readers :
                 history[c][r] = 0 /\ replayed[c][r] = 0 /\ tally[c].before[r] = 0
        BY DEF Init, Tally, NothingFrom
    <2>2. \A r \in Readers : Cardinality(Counted(c, r)) = 0
        BY <2>1, FS_EmptySet DEF Counted
    <2> QED
        BY <2>1, <2>2 DEF CountAt
<1>2. TypeOK /\ CountInv /\ [Next]_vars => CountInv'
    BY CountStep DEF CountInv
<1>3. CountInv => ReplayCountsOnce
    BY DEF CountInv, CountAt, Counted, ReplayCountsOnce
<1> QED
    BY <1>1, <1>2, <1>3, TypeCorrect, PTL DEF Spec
=============================================================================
