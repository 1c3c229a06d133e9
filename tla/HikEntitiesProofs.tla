--------------------------- MODULE HikEntitiesProofs ---------------------------
(***************************************************************************)
(* Proofs about HikEntities, for every number of slots and doors, every set *)
(* of cardholders and every bound: types, the visitors of the day through   *)
(* midnight, unload and restart, the counters, and the status.              *)
(***************************************************************************)
EXTENDS HikEntities, FiniteSetTheorems, TLAPS

USE DEF setupVars, pollVars, sensorVars, ghostVars, budgets

-----------------------------------------------------------------------------
(* What a sensor does with an event. *)

Bounded(m) == IsFiniteSet(m.cards) /\ Cardinality(m.cards) <= MaxCards

LEMMA CategoryCodes == \A c \in Categories : EVENT_CATEGORIES[c] \subseteq Nat
BY DEF Categories, EVENT_CATEGORIES

\* A visitor more, or none at the cap.
LEMMA VisitResult ==
    ASSUME NEW m \in ReaderState, Bounded(m), NEW e, e.card \in Cards
    PROVE  /\ Visit(m, e) \in ReaderState /\ Bounded(Visit(m, e))
           /\ Visit(m, e).lastReset = m.lastReset /\ Visit(m, e).counts = m.counts
           /\ Visit(m, e).cards \subseteq m.cards \cup {e.card}
           /\ m.names \subseteq m.cards => Visit(m, e).names \subseteq Visit(m, e).cards
<1> DEFINE full  == Cardinality(m.cards) >= MaxCards
           more  == m.cards \cup {e.card}
           names == IF e.named THEN m.names \cup {e.card} ELSE m.names
<1>1. CASE full
    <2>1. Visit(m, e) = m
        BY <1>1 DEF Visit
    <2> QED
        BY <2>1
<1>2. CASE ~full
    <2>1. Visit(m, e) = [m EXCEPT !.cards = more, !.names = names]
        BY <1>2 DEF Visit
    <2>2. more \in SUBSET Cards /\ names \in SUBSET Cards
        BY DEF ReaderState
    <2> HIDE DEF more, names
    <2>3. /\ Visit(m, e) \in ReaderState
          /\ Visit(m, e).cards = more /\ Visit(m, e).names = names
          /\ Visit(m, e).lastReset = m.lastReset /\ Visit(m, e).counts = m.counts
        BY <2>1, <2>2 DEF ReaderState
    <2>4. IsFiniteSet(more) /\ Cardinality(more) <= MaxCards
        <3>1. IsFiniteSet(m.cards) /\ Cardinality(m.cards) \in Nat
            BY FS_CardinalityType DEF Bounded
        <3>2. /\ IsFiniteSet(more)
              /\ Cardinality(more) = Cardinality(m.cards) \/ Cardinality(more) = Cardinality(m.cards) + 1
            BY <3>1, FS_AddElement DEF more
        <3> QED
            BY <1>2, <3>1, <3>2, CardsAssumption DEF Bounded
    <2>5. m.names \subseteq m.cards => names \subseteq more
        BY DEF names, more
    <2> QED
        BY <2>3, <2>4, <2>5 DEF Bounded, more
<1> QED
    BY <1>1, <1>2

\* The counters go up by one or stay.
LEMMA CountResult ==
    ASSUME NEW m \in ReaderState, NEW e
    PROVE  /\ Count(m, e) \in ReaderState
           /\ Count(m, e).cards = m.cards /\ Count(m, e).names = m.names
           /\ Count(m, e).lastReset = m.lastReset
           /\ \A c \in Categories : Count(m, e).counts[c] >= m.counts[c]
<1> DEFINE up == [c \in Categories |->
                     IF e.minor \in EVENT_CATEGORIES[c] THEN m.counts[c] + 1 ELSE m.counts[c]]
<1>1. m.counts \in [Categories -> Nat]
    BY DEF ReaderState
<1>2. up \in [Categories -> Nat] /\ \A c \in Categories : up[c] >= m.counts[c]
    BY <1>1
<1>3. Count(m, e) = [m EXCEPT !.counts = up]
    BY DEF Count
<1> HIDE DEF up
<1> QED
    BY <1>2, <1>3 DEF ReaderState

LEMMA HearResult ==
    ASSUME NEW m \in ReaderState, Bounded(m), NEW e \in Events
    PROVE  /\ Hear(m, e) \in ReaderState /\ Bounded(Hear(m, e))
           /\ Hear(m, e).lastReset = m.lastReset
           /\ \A c \in Categories : Hear(m, e).counts[c] >= m.counts[c]
           /\ e.card = NoCard => Hear(m, e).cards = m.cards
           /\ Hear(m, e).cards \subseteq m.cards \cup {e.card}
           /\ m.names \subseteq m.cards => Hear(m, e).names \subseteq Hear(m, e).cards
<1>1. CASE e.card = NoCard
    <2>1. Hear(m, e) = Count(m, e)
        BY <1>1 DEF Hear
    <2> QED
        BY <2>1, CountResult DEF Bounded
<1>2. CASE e.card # NoCard
    <2>1. e.card \in Cards
        BY <1>2, EventsAssumption
    <2>2. Hear(m, e) = Count(Visit(m, e), e)
        BY <1>2 DEF Hear
    <2>3. Visit(m, e) \in ReaderState
        BY <2>1, VisitResult
    <2>4. /\ Hear(m, e) \in ReaderState
          /\ Hear(m, e).cards = Visit(m, e).cards /\ Hear(m, e).names = Visit(m, e).names
          /\ Hear(m, e).lastReset = Visit(m, e).lastReset
          /\ \A c \in Categories : Hear(m, e).counts[c] >= Visit(m, e).counts[c]
        BY <2>2, <2>3, CountResult
    <2> QED
        BY <1>2, <2>1, <2>4, VisitResult DEF Bounded
<1> QED
    BY <1>1, <1>2

LEMMA EmptyStates ==
    /\ NothingSaved \in ReaderState /\ Bounded(NothingSaved)
    /\ NothingSaved.cards = {} /\ NothingSaved.names = {} /\ NothingSaved.lastReset = 0
    /\ \A today \in Nat : /\ Construct(today) \in ReaderState /\ Bounded(Construct(today))
                          /\ Construct(today).lastReset = today
                          /\ Construct(today).cards = {} /\ Construct(today).names = {}
<1>1. IsFiniteSet({}) /\ Cardinality({}) = 0
    BY FS_EmptySet
<1> QED
    BY <1>1, CardsAssumption DEF NothingSaved, ReaderState, Construct, Bounded

LEMMA ResetResult ==
    ASSUME NEW m \in ReaderState, NEW today \in Nat
    PROVE  /\ Reset(m, today) \in ReaderState /\ Bounded(Reset(m, today))
           /\ Reset(m, today).cards = {} /\ Reset(m, today).names = {}
           /\ Reset(m, today).lastReset = today /\ Reset(m, today).counts = m.counts
<1>1. IsFiniteSet({}) /\ Cardinality({}) = 0
    BY FS_EmptySet
<1>2. /\ Reset(m, today) \in ReaderState
      /\ Reset(m, today).cards = {} /\ Reset(m, today).names = {}
      /\ Reset(m, today).lastReset = today /\ Reset(m, today).counts = m.counts
    BY DEF Reset, ReaderState
<1> QED
    BY <1>1, <1>2, CardsAssumption DEF Bounded

LEMMA RestoreResult ==
    ASSUME NEW m \in ReaderState, NEW s \in ReaderState, NEW today \in Nat
    PROVE  /\ Restore(m, s, today) \in ReaderState
           /\ Restore(m, s, today).counts = s.counts
           /\ \/ Restore(m, s, today) = s
              \/ /\ Restore(m, s, today).cards = m.cards
                 /\ Restore(m, s, today).names = m.names
                 /\ Restore(m, s, today).lastReset = m.lastReset
BY DEF Restore, ReaderState

-----------------------------------------------------------------------------
(* Types. *)

\* A store of the sensors' states that was good on day d.
SensorsOK(m, d) ==
    /\ m \in [Slots -> ReaderState]
    /\ \A k \in Slots : Bounded(m[k]) /\ m[k].lastReset <= d

SensorTypeOK ==
    /\ day \in 1..MaxDay
    /\ readers \in Seq(BOOLEAN) /\ Len(readers) <= MaxSlots /\ Len(readers) <= NumSlots
    /\ SensorsOK(mem, day) /\ SensorsOK(saved, day)
    /\ disk.day \in 1..day /\ SensorsOK(disk.saved, disk.day)

LEMMA EnabledSlots ==
    ASSUME readers \in Seq(BOOLEAN), Len(readers) <= NumSlots
    PROVE  Enabled(readers) \subseteq Slots /\ Live \subseteq Slots
<1>1. Enabled(readers) \subseteq Slots
    BY SizesAssumption DEF Enabled, Slots
<1> QED
    BY <1>1 DEF Live

LEMMA FreshOK == \A d \in Nat : SensorsOK(Fresh, d)
BY EmptyStates DEF SensorsOK, Fresh

LEMMA ShownOK ==
    ASSUME SensorTypeOK
    PROVE  SensorsOK([k \in Slots |-> Shown(k)], day)
BY DEF SensorTypeOK, SensorsOK, Shown

LEMMA SensorTypeStep == SensorTypeOK /\ [Next]_vars => SensorTypeOK'
<1> SUFFICES ASSUME SensorTypeOK, [Next]_vars PROVE SensorTypeOK'
    OBVIOUS
<1>0. /\ day \in Nat /\ disk.day \in Nat
      /\ mem \in [Slots -> ReaderState] /\ saved \in [Slots -> ReaderState]
      /\ \A k \in Slots : mem[k].lastReset \in Nat /\ saved[k].lastReset \in Nat
    BY DaysAssumption DEF SensorTypeOK, SensorsOK, ReaderState
<1>1. CASE BeginSetup
    <2>1. readers' = <<>> /\ UNCHANGED <<day, mem, saved, disk>>
        BY <1>1 DEF BeginSetup
    <2> QED
        BY <2>1, SizesAssumption DEF SensorTypeOK
<1>2. CASE Probe
    <2>1. /\ readers' = Append(readers, Len(readers) + 1 \in device.cfg)
          /\ Len(readers) < MaxSlots /\ Len(readers) < NumSlots
          /\ UNCHANGED <<day, mem, saved, disk>>
        BY <1>2 DEF Probe
    <2>2. (Len(readers) + 1 \in device.cfg) \in BOOLEAN
        OBVIOUS
    <2>3. readers' \in Seq(BOOLEAN) /\ Len(readers') = Len(readers) + 1
        BY <2>1, <2>2 DEF SensorTypeOK
    <2> QED
        BY <2>1, <2>3, SizesAssumption DEF SensorTypeOK
<1>3. CASE SetupFails
    <2>1. mem' = Fresh /\ readers' = <<>> /\ UNCHANGED <<day, saved, disk>>
        BY <1>3 DEF SetupFails, NoEntry
    <2> QED
        BY <1>0, <2>1, FreshOK, SizesAssumption DEF SensorTypeOK
<1>4. CASE Update
    <2>1. UNCHANGED <<day, readers, saved, disk>>
        BY <1>4 DEF Update
    <2>2. CASE mem' = mem
        BY <2>1, <2>2 DEF SensorTypeOK
    <2>3. CASE mem' = [k \in Slots |-> IF k \in Enabled(readers) THEN Construct(day)
                                       ELSE NothingSaved]
        <3>1. SensorsOK(mem', day)
            BY <1>0, <2>3, EmptyStates DEF SensorsOK
        <3> QED
            BY <2>1, <3>1 DEF SensorTypeOK
    <2> QED
        BY <1>4, <2>2, <2>3 DEF Update
<1>5. CASE AddEntities
    <2>1. /\ mem' = [k \in Slots |-> IF k \in Enabled(readers)
                                     THEN Restore(mem[k], saved[k], day) ELSE NothingSaved]
          /\ UNCHANGED <<day, readers, saved, disk>>
        BY <1>5 DEF AddEntities
    <2>2. ASSUME NEW k \in Slots
          PROVE  /\ Restore(mem[k], saved[k], day) \in ReaderState
                 /\ Bounded(Restore(mem[k], saved[k], day))
                 /\ Restore(mem[k], saved[k], day).lastReset <= day
        <3>1. /\ mem[k] \in ReaderState /\ saved[k] \in ReaderState
              /\ Bounded(mem[k]) /\ mem[k].lastReset <= day
              /\ Bounded(saved[k]) /\ saved[k].lastReset <= day
            BY DEF SensorTypeOK, SensorsOK
        <3>2. CASE Restore(mem[k], saved[k], day) = saved[k]
            BY <3>1, <3>2
        <3>3. CASE /\ Restore(mem[k], saved[k], day).cards = mem[k].cards
                   /\ Restore(mem[k], saved[k], day).lastReset = mem[k].lastReset
            BY <1>0, <3>1, <3>3, RestoreResult DEF Bounded
        <3> QED
            BY <1>0, <3>1, <3>2, <3>3, RestoreResult
    <2>3. SensorsOK(mem', day)
        BY <1>0, <2>1, <2>2, EmptyStates DEF SensorsOK
    <2> QED
        BY <2>1, <2>3 DEF SensorTypeOK
<1>6. CASE Unload
    <2>1. /\ saved' = [k \in Slots |-> Shown(k)]
          /\ mem' = Fresh /\ readers' = <<>> /\ UNCHANGED <<day, disk>>
        BY <1>6 DEF Unload, NoEntry
    <2>2. SensorsOK(saved', day)
        BY <2>1, ShownOK
    <2> QED
        BY <1>0, <2>1, <2>2, FreshOK, SizesAssumption DEF SensorTypeOK
<1>7. ASSUME NEW e \in Events, Dispatch(e) PROVE SensorTypeOK'
    <2>1. /\ mem' = [mem EXCEPT ![e.slot] = Hear(mem[e.slot], e)] /\ e.slot \in Slots
          /\ UNCHANGED <<day, readers, saved, disk>>
        BY <1>7, EnabledSlots DEF Dispatch, SensorTypeOK
    <2>2. /\ Hear(mem[e.slot], e) \in ReaderState /\ Bounded(Hear(mem[e.slot], e))
          /\ Hear(mem[e.slot], e).lastReset = mem[e.slot].lastReset
        BY <1>0, <2>1, HearResult DEF SensorTypeOK, SensorsOK
    <2>3. SensorsOK(mem', day)
        BY <2>1, <2>2 DEF SensorTypeOK, SensorsOK
    <2> QED
        BY <2>1, <2>3 DEF SensorTypeOK
<1>8. CASE Midnight
    <2>1. day' = day + 1 /\ day < MaxDay /\ UNCHANGED <<readers, mem, saved, disk>>
        BY <1>8 DEF Midnight
    <2>2. SensorsOK(mem, day + 1) /\ SensorsOK(saved, day + 1)
        BY <1>0 DEF SensorTypeOK, SensorsOK
    <2> QED
        BY <1>0, <2>1, <2>2, DaysAssumption DEF SensorTypeOK
<1>9. ASSUME NEW k \in Slots, MidnightReset(k) PROVE SensorTypeOK'
    <2>1. /\ mem' = [mem EXCEPT ![k] = Reset(mem[k], day)]
          /\ UNCHANGED <<day, readers, saved, disk>>
        BY <1>9 DEF MidnightReset
    <2>2. /\ Reset(mem[k], day) \in ReaderState /\ Bounded(Reset(mem[k], day))
          /\ Reset(mem[k], day).lastReset = day
        BY <1>0, ResetResult
    <2>3. SensorsOK(mem', day)
        BY <1>0, <2>1, <2>2 DEF SensorTypeOK, SensorsOK
    <2> QED
        BY <2>1, <2>3 DEF SensorTypeOK
<1>10. CASE Dump
    <2>1. /\ disk'.saved = [k \in Slots |-> Shown(k)] /\ disk'.day = day
          /\ UNCHANGED <<day, readers, mem, saved>>
        BY <1>10 DEF Dump
    <2>2. SensorsOK(disk'.saved, day)
        BY <2>1, ShownOK
    <2> QED
        BY <1>0, <2>1, <2>2 DEF SensorTypeOK
<1>11. CASE Crash
    <2>1. /\ saved' = disk.saved /\ mem' = Fresh /\ readers' = <<>>
          /\ UNCHANGED <<day, disk>>
        BY <1>11 DEF Crash, NoEntry
    <2>2. SensorsOK(disk.saved, day)
        BY <1>0 DEF SensorTypeOK, SensorsOK, ReaderState
    <2> QED
        BY <1>0, <2>1, <2>2, FreshOK, SizesAssumption DEF SensorTypeOK
<1>12. CASE UNCHANGED <<day, readers, mem, saved, disk>>
    BY <1>12 DEF SensorTypeOK
<1> QED
    BY <1>1, <1>2, <1>3, <1>4, <1>5, <1>6, <1>7, <1>8, <1>9, <1>10, <1>11, <1>12
       DEF Next, vars, Change, EndProbing, Answer, UpdateFails

LEMMA SensorTypes == Spec => []SensorTypeOK
<1>1. Init => SensorTypeOK
    BY FreshOK, SizesAssumption, DaysAssumption DEF Init, SensorTypeOK
<1> QED
    BY <1>1, SensorTypeStep, PTL DEF Spec

-----------------------------------------------------------------------------
(* The visitors of the day. *)

\* Whoever stands on day d counts only who was heard on it, and names only who
\* is counted.
OnlyHeard(m, d, h) == \A k \in Slots : m[k].lastReset = d => m[k].cards \subseteq h[k]
Named(m) == \A k \in Slots : m[k].names \subseteq m[k].cards

VisitorInv ==
    /\ OnlyHeard(mem, day, heard) /\ OnlyHeard(saved, day, heard)
    /\ OnlyHeard(disk.saved, disk.day, disk.heard)
    /\ Named(mem) /\ Named(saved) /\ Named(disk.saved)
    /\ heard \in [Slots -> SUBSET Cards] /\ disk.heard \in [Slots -> SUBSET Cards]

LEMMA FreshVisitors ==
    \A d, h : h \in [Slots -> SUBSET Cards] => OnlyHeard(Fresh, d, h) /\ Named(Fresh)
BY EmptyStates DEF OnlyHeard, Named, Fresh

LEMMA ShownVisitors ==
    ASSUME VisitorInv
    PROVE  /\ OnlyHeard([k \in Slots |-> Shown(k)], day, heard)
           /\ Named([k \in Slots |-> Shown(k)])
BY DEF VisitorInv, OnlyHeard, Named, Shown

LEMMA VisitorStep ==
    ASSUME SensorTypeOK, VisitorInv, [Next]_vars
    PROVE  VisitorInv'
<1>0. /\ day \in Nat /\ disk.day \in Nat /\ disk.day <= day /\ day >= 1
      /\ mem \in [Slots -> ReaderState] /\ saved \in [Slots -> ReaderState]
      /\ disk.saved \in [Slots -> ReaderState]
      /\ \A k \in Slots : /\ mem[k].lastReset \in Nat /\ mem[k].lastReset <= day
                          /\ saved[k].lastReset \in Nat /\ saved[k].lastReset <= day
                          /\ disk.saved[k].lastReset \in Nat
                          /\ disk.saved[k].lastReset <= disk.day
                          /\ Bounded(mem[k])
    BY DaysAssumption DEF SensorTypeOK, SensorsOK, ReaderState
<1>1. CASE SetupFails
    <2>1. mem' = Fresh /\ UNCHANGED <<day, saved, disk, heard>>
        BY <1>1 DEF SetupFails, NoEntry
    <2> QED
        BY <2>1, FreshVisitors DEF VisitorInv
<1>2. CASE Update
    <2>1. UNCHANGED <<day, saved, disk, heard>>
        BY <1>2 DEF Update
    <2>2. CASE mem' = mem
        BY <2>1, <2>2 DEF VisitorInv
    <2>3. CASE mem' = [k \in Slots |-> IF k \in Enabled(readers) THEN Construct(day)
                                       ELSE NothingSaved]
        <3>1. OnlyHeard(mem', day, heard) /\ Named(mem')
            BY <1>0, <2>3, EmptyStates DEF OnlyHeard, Named
        <3> QED
            BY <2>1, <3>1 DEF VisitorInv
    <2> QED
        BY <1>2, <2>2, <2>3 DEF Update
<1>3. CASE AddEntities
    <2>1. /\ mem' = [k \in Slots |-> IF k \in Enabled(readers)
                                     THEN Restore(mem[k], saved[k], day) ELSE NothingSaved]
          /\ UNCHANGED <<day, saved, disk, heard>>
        BY <1>3 DEF AddEntities
    <2>2. ASSUME NEW k \in Slots
          PROVE  /\ mem'[k].lastReset = day => mem'[k].cards \subseteq heard[k]
                 /\ mem'[k].names \subseteq mem'[k].cards
        <3>1. CASE k \notin Enabled(readers)
            BY <2>1, <3>1, EmptyStates
        <3>2. CASE k \in Enabled(readers)
            <4>1. mem'[k] = Restore(mem[k], saved[k], day)
                BY <2>1, <3>2
            <4>2. \/ mem'[k] = saved[k]
                  \/ /\ mem'[k].cards = mem[k].cards /\ mem'[k].names = mem[k].names
                     /\ mem'[k].lastReset = mem[k].lastReset
                <5> DEFINE r == Restore(mem[k], saved[k], day)
                <5>1. mem[k] \in ReaderState /\ saved[k] \in ReaderState /\ day \in Nat
                    BY <1>0
                <5>2. \/ r = saved[k]
                      \/ /\ r.cards = mem[k].cards /\ r.names = mem[k].names
                         /\ r.lastReset = mem[k].lastReset
                    BY ONLY <5>1, RestoreResult, Zenon
                <5> QED
                    BY <4>1, <5>2 DEF r
            <4> QED
                BY <4>2 DEF VisitorInv, OnlyHeard, Named
        <3> QED
            BY <3>1, <3>2
    <2> QED
        BY <2>1, <2>2 DEF VisitorInv, OnlyHeard, Named
<1>4. CASE Unload
    <2>1. /\ saved' = [k \in Slots |-> Shown(k)]
          /\ mem' = Fresh /\ UNCHANGED <<day, disk, heard>>
        BY <1>4 DEF Unload, NoEntry
    <2> QED
        BY <2>1, ShownVisitors, FreshVisitors DEF VisitorInv
<1>5. ASSUME NEW e \in Events, Dispatch(e) PROVE VisitorInv'
    <2>1. /\ mem' = [mem EXCEPT ![e.slot] = Hear(mem[e.slot], e)] /\ e.slot \in Slots
          /\ UNCHANGED <<day, saved, disk>>
        BY <1>5, EnabledSlots DEF Dispatch, SensorTypeOK
    <2>2. /\ Hear(mem[e.slot], e).lastReset = mem[e.slot].lastReset
          /\ e.card = NoCard => Hear(mem[e.slot], e).cards = mem[e.slot].cards
          /\ Hear(mem[e.slot], e).cards \subseteq mem[e.slot].cards \cup {e.card}
          /\ Hear(mem[e.slot], e).names \subseteq Hear(mem[e.slot], e).cards
        BY <1>0, <2>1, HearResult DEF VisitorInv, Named
    <2>3. /\ e.card = NoCard => heard' = heard
          /\ e.card # NoCard => heard' = [heard EXCEPT ![e.slot] = @ \cup {e.card}]
        BY <1>5 DEF Dispatch
    <2>4. e.card # NoCard => e.card \in Cards
        BY EventsAssumption
    <2>5. /\ heard' \in [Slots -> SUBSET Cards]
          /\ \A k \in Slots : heard[k] \subseteq heard'[k]
          /\ e.card # NoCard => e.card \in heard'[e.slot]
        BY <2>1, <2>3, <2>4 DEF VisitorInv
    <2>6. OnlyHeard(mem', day, heard')
        BY <1>0, <2>1, <2>2, <2>5 DEF VisitorInv, OnlyHeard
    <2>7. Named(mem')
        BY <1>0, <2>1, <2>2 DEF VisitorInv, Named
    <2>8. OnlyHeard(saved, day, heard')
        BY <2>5 DEF VisitorInv, OnlyHeard
    <2> QED
        BY <2>1, <2>5, <2>6, <2>7, <2>8 DEF VisitorInv
<1>6. CASE Midnight
    <2>1. day' = day + 1 /\ heard' = Nobody /\ UNCHANGED <<mem, saved, disk>>
        BY <1>6 DEF Midnight
    <2>2. OnlyHeard(mem, day + 1, heard') /\ OnlyHeard(saved, day + 1, heard')
        BY <1>0 DEF OnlyHeard
    <2> QED
        BY <2>1, <2>2 DEF VisitorInv, Nobody
<1>7. ASSUME NEW k \in Slots, MidnightReset(k) PROVE VisitorInv'
    <2>1. /\ mem' = [mem EXCEPT ![k] = Reset(mem[k], day)]
          /\ UNCHANGED <<day, saved, disk, heard>>
        BY <1>7 DEF MidnightReset
    <2>2. Reset(mem[k], day).cards = {} /\ Reset(mem[k], day).names = {}
        BY <1>0, ResetResult
    <2>3. OnlyHeard(mem', day, heard) /\ Named(mem')
        BY <1>0, <2>1, <2>2 DEF VisitorInv, OnlyHeard, Named
    <2> QED
        BY <2>1, <2>3 DEF VisitorInv
<1>8. CASE Dump
    <2>1. /\ disk'.saved = [k \in Slots |-> Shown(k)] /\ disk'.day = day
          /\ disk'.heard = heard /\ UNCHANGED <<day, mem, saved, heard>>
        BY <1>8 DEF Dump
    <2> QED
        BY <2>1, ShownVisitors DEF VisitorInv
<1>9. CASE Crash
    <2>1. /\ saved' = disk.saved /\ mem' = Fresh /\ UNCHANGED <<day, disk>>
          /\ heard' = IF disk.day = day THEN disk.heard ELSE Nobody
        BY <1>9 DEF Crash, NoEntry
    <2>2. heard' \in [Slots -> SUBSET Cards]
        BY <2>1 DEF VisitorInv, Nobody
    <2>3. OnlyHeard(disk.saved, day, heard')
        <3>1. CASE disk.day = day
            BY <2>1, <3>1 DEF VisitorInv
        <3>2. CASE disk.day # day
            BY <1>0, <3>2 DEF OnlyHeard
        <3> QED
            BY <3>1, <3>2
    <2> QED
        BY <2>1, <2>2, <2>3, FreshVisitors DEF VisitorInv
<1>10. CASE UNCHANGED <<day, mem, saved, disk, heard>>
    BY <1>10 DEF VisitorInv
<1> QED
    BY <1>1, <1>2, <1>3, <1>4, <1>5, <1>6, <1>7, <1>8, <1>9, <1>10
       DEF Next, vars, Change, BeginSetup, Probe, EndProbing, Answer, UpdateFails

LEMMA Visitors == Spec => []VisitorInv
<1>1. Init => VisitorInv
    <2> SUFFICES ASSUME Init PROVE VisitorInv
        OBVIOUS
    <2>1. Nobody \in [Slots -> SUBSET Cards]
        BY DEF Nobody
    <2>2. /\ mem = Fresh /\ saved = Fresh /\ disk.saved = Fresh
          /\ heard = Nobody /\ disk.heard = Nobody
        BY DEF Init
    <2> QED
        BY <2>1, <2>2, FreshVisitors DEF VisitorInv
<1> QED
    BY <1>1, SensorTypes, VisitorStep, PTL DEF Spec

\* Once its reset has run, an entity counts only who was heard today: one that is
\* not added yet counts nobody, whatever the day it was constructed on.
ResetDone ==
    /\ phase = "adding" => \A k \in Slots : mem[k].cards = {}
    /\ phase = "loaded" => \A k \in Enabled(readers) \ due : mem[k].cards \subseteq heard[k]

LEMMA ResetDoneStep ==
    ASSUME SensorTypeOK, VisitorInv, ResetDone, [Next]_vars
    PROVE  ResetDone'
<1>0. /\ day \in Nat /\ Enabled(readers) \subseteq Slots
      /\ mem \in [Slots -> ReaderState] /\ \A k \in Slots : Bounded(mem[k])
    BY EnabledSlots, DaysAssumption DEF SensorTypeOK, SensorsOK
<1>1. CASE phase' \notin {"adding", "loaded"}
    BY <1>1 DEF ResetDone
<1>2. CASE UNCHANGED <<phase, readers, mem, due, heard>>
    BY <1>2 DEF ResetDone
<1>3. CASE Update
    <2>1. CASE phase = "refreshing"
        <3>1. /\ phase' = "adding"
              /\ mem' = [k \in Slots |-> IF k \in Enabled(readers) THEN Construct(day)
                                         ELSE NothingSaved]
            BY <1>3, <2>1 DEF Update
        <3> QED
            BY <1>0, <3>1, EmptyStates DEF ResetDone
    <2>2. CASE phase # "refreshing"
        BY <1>2, <1>3, <2>2 DEF Update
    <2> QED
        BY <2>1, <2>2
<1>4. CASE AddEntities
    <2>1. /\ phase = "adding" /\ phase' = "loaded"
          /\ mem' = [k \in Slots |-> IF k \in Enabled(readers)
                                     THEN Restore(mem[k], saved[k], day) ELSE NothingSaved]
          /\ UNCHANGED <<readers, due, heard>>
        BY <1>4 DEF AddEntities
    <2>2. ASSUME NEW k \in Enabled(readers) PROVE mem'[k].cards \subseteq heard[k]
        <3>1. k \in Slots /\ mem'[k] = Restore(mem[k], saved[k], day) /\ mem[k].cards = {}
            BY <1>0, <2>1 DEF ResetDone
        <3>2. CASE saved[k].lastReset = day
            BY <3>1, <3>2 DEF Restore, VisitorInv, OnlyHeard
        <3>3. CASE saved[k].lastReset # day
            <4>1. mem'[k] = [mem[k] EXCEPT !.counts = saved[k].counts]
                BY <3>1, <3>3 DEF Restore
            <4> QED
                BY <1>0, <3>1, <4>1 DEF ReaderState
        <3> QED
            BY <3>2, <3>3
    <2> QED
        BY <2>1, <2>2 DEF ResetDone
<1>5. ASSUME NEW e \in Events, Dispatch(e) PROVE ResetDone'
    <2>1. /\ phase = "loaded" /\ e.slot \in Slots
          /\ mem' = [mem EXCEPT ![e.slot] = Hear(mem[e.slot], e)]
          /\ UNCHANGED <<phase, readers, due>>
        BY <1>0, <1>5 DEF Dispatch, Live
    <2>2. /\ Hear(mem[e.slot], e).cards \subseteq mem[e.slot].cards \cup {e.card}
          /\ e.card = NoCard => Hear(mem[e.slot], e).cards = mem[e.slot].cards
        BY <1>0, <2>1, HearResult
    <2>3. /\ \A k \in Slots : heard[k] \subseteq heard'[k]
          /\ e.card # NoCard => e.card \in heard'[e.slot]
        BY <1>5, <2>1 DEF Dispatch, VisitorInv
    <2> QED
        BY <1>0, <2>1, <2>2, <2>3 DEF ResetDone
<1>6. CASE Midnight
    <2>1. UNCHANGED <<phase, readers, mem>> /\ due' = Live
        BY <1>6 DEF Midnight
    <2> QED
        BY <2>1 DEF ResetDone, Live
<1>7. ASSUME NEW k \in Slots, MidnightReset(k) PROVE ResetDone'
    <2>1. /\ mem' = [mem EXCEPT ![k] = Reset(mem[k], day)] /\ due' = due \ {k}
          /\ UNCHANGED <<phase, readers, heard>>
        BY <1>7 DEF MidnightReset
    <2>2. Reset(mem[k], day).cards = {}
        BY <1>0, ResetResult
    <2> QED
        BY <1>0, <2>1, <2>2 DEF ResetDone
<1> QED
    BY <1>1, <1>2, <1>3, <1>4, <1>5, <1>6, <1>7
       DEF Next, vars, Change, BeginSetup, Probe, EndProbing, SetupFails, NoEntry, Answer,
           UpdateFails, Unload, Dump, Crash

\* "distinct cardholders seen today": whatever was unloaded, restored, crashed or
\* stood still over midnight, once its reset has run a sensor counts nobody it was
\* not handed today.
THEOREM VisitorsOfToday == Spec => []OnlyToday
<1>1. Init => ResetDone
    BY DEF Init, ResetDone
<1>2. ResetDone => OnlyToday
    BY DEF ResetDone, OnlyToday, Live
<1> QED
    BY <1>1, <1>2, ResetDoneStep, SensorTypes, Visitors, PTL DEF Spec

\* The names shown belong to cards that are counted, also at the cap.
THEOREM NamesOfCounted == Spec => []NamesCounted
<1>1. VisitorInv => NamesCounted
    BY DEF VisitorInv, Named, NamesCounted
<1> QED
    BY <1>1, Visitors, PTL

-----------------------------------------------------------------------------
(* Nobody of today is lost. *)

Full(m) == Cardinality(m.cards) = MaxCards

\* A kept state m names who was heard on day d, except the early ones: if it stands
\* on d it counts them, up to the cap, and of any other day there are none.
Keeps(m, d, h, e) == IF m.lastReset = d THEN h \ e \subseteq m.cards \/ Full(m)
                     ELSE h \subseteq e

\* A callback is due for an entity that exists and still stands on an earlier day.
DueStale == due \subseteq Live /\ \A k \in due : mem[k].lastReset # day

\* Before its reset an entity was handed only early ones, after it it counts all
\* others; while there is no entity, the kept state does.
Held(k) ==
    CASE k \in due         -> heard[k] \subseteq early[k]
      [] k \in Live \ due  -> heard[k] \ early[k] \subseteq mem[k].cards \/ Full(mem[k])
      [] OTHER             -> Keeps(saved[k], day, heard[k], early[k])

\* Nothing is lost on the way from the entity to the kept state, to the store, and
\* back.
KeptInv ==
    /\ DueStale
    /\ early \in [Slots -> SUBSET Cards] /\ disk.early \in [Slots -> SUBSET Cards]
    /\ \A k \in Slots : Held(k)
    /\ \A k \in Slots : Keeps(disk.saved[k], disk.day, disk.heard[k], disk.early[k])

\* The three cases of Held.
LEMMA HeldIs ==
    ASSUME DueStale, NEW k
    PROVE  /\ k \in due => (Held(k) <=> heard[k] \subseteq early[k])
           /\ k \in Live /\ k \notin due =>
                  (Held(k) <=> heard[k] \ early[k] \subseteq mem[k].cards \/ Full(mem[k]))
           /\ k \notin Live => (Held(k) <=> Keeps(saved[k], day, heard[k], early[k]))
BY DEF Held, DueStale

\* What is taken of the sensors, by an unload or for the store, keeps who was heard.
LEMMA TakenKeeps ==
    ASSUME SensorTypeOK, VisitorInv, KeptInv
    PROVE  /\ [k \in Slots |-> NotKept(k)] \in [Slots -> SUBSET Cards]
           /\ \A k \in Slots : Keeps(Shown(k), day, heard[k], NotKept(k))
<1>1. ASSUME NEW k \in Slots
      PROVE  NotKept(k) \in SUBSET Cards /\ Keeps(Shown(k), day, heard[k], NotKept(k))
    <2>1. Held(k) /\ DueStale
        BY DEF KeptInv
    <2>2. CASE k \in Live /\ mem[k].lastReset # day
        BY <2>2 DEF NotKept, Shown, Keeps, VisitorInv
    <2>3. CASE k \in Live /\ mem[k].lastReset = day
        <3>1. k \notin due
            BY <2>1, <2>3 DEF DueStale
        <3> QED
            BY <2>1, <2>3, <3>1, HeldIs DEF NotKept, Shown, Keeps, KeptInv
    <2>4. CASE k \notin Live
        BY <2>1, <2>4, HeldIs DEF NotKept, Shown, KeptInv
    <2> QED
        BY <2>2, <2>3, <2>4
<1> QED
    BY <1>1

\* An event with a card leaves the card counted, or the cap reached; nobody leaves.
LEMMA HearKeeps ==
    ASSUME NEW m \in ReaderState, Bounded(m), NEW e \in Events, e.card # NoCard
    PROVE  /\ m.cards \subseteq Hear(m, e).cards
           /\ e.card \in Hear(m, e).cards \/ Full(Hear(m, e))
           /\ Full(m) => Full(Hear(m, e))
<1>1. e.card \in Cards
    BY EventsAssumption
<1>2. Hear(m, e).cards = Visit(m, e).cards
    BY <1>1, VisitResult, CountResult DEF Hear
<1>3. Cardinality(m.cards) \in Nat /\ Cardinality(m.cards) <= MaxCards
    BY FS_CardinalityType DEF Bounded
<1>4. CASE Cardinality(m.cards) >= MaxCards
    <2>1. Visit(m, e) = m /\ Full(m)
        BY <1>3, <1>4, CardsAssumption DEF Visit, Full
    <2> QED
        BY <1>2, <2>1 DEF Full
<1>5. CASE ~(Cardinality(m.cards) >= MaxCards)
    <2>1. Visit(m, e).cards = m.cards \cup {e.card}
        BY <1>5 DEF Visit, ReaderState
    <2>2. ~Full(m)
        BY <1>3, <1>5, CardsAssumption DEF Full
    <2> QED
        BY <1>2, <2>1, <2>2
<1> QED
    BY <1>4, <1>5

LEMMA KeptStep ==
    ASSUME SensorTypeOK, VisitorInv, KeptInv, [Next]_vars
    PROVE  KeptInv'
<1>0. /\ day \in Nat /\ mem \in [Slots -> ReaderState] /\ saved \in [Slots -> ReaderState]
      /\ \A k \in Slots : Bounded(mem[k]) /\ mem[k].lastReset \in Nat /\ mem[k].lastReset <= day
      /\ heard \in [Slots -> SUBSET Cards] /\ early \in [Slots -> SUBSET Cards]
      /\ Live \subseteq Slots /\ DueStale
    BY DaysAssumption, EnabledSlots
       DEF SensorTypeOK, SensorsOK, ReaderState, VisitorInv, KeptInv
<1>1. ASSUME phase # "loaded", phase' # "loaded",
             UNCHANGED <<saved, day, heard, early, disk>>, due' \in {due, {}}
      PROVE  KeptInv'
    <2>1. Live = {} /\ Live' = {} /\ due' = {} /\ DueStale'
        BY <1>0, <1>1 DEF Live, DueStale
    <2>2. \A k \in Slots : Held(k)'
        BY <1>0, <1>1, <2>1, HeldIs DEF KeptInv, Held
    <2> QED
        BY <1>1, <2>1, <2>2 DEF KeptInv
<1>2. ASSUME UNCHANGED <<phase, readers, mem, saved, day, due, heard, early, disk>>
      PROVE  KeptInv'
    <2>1. Live' = Live
        BY <1>2 DEF Live
    <2> QED
        BY <1>2, <2>1 DEF KeptInv, DueStale, Held
<1>3. CASE BeginSetup \/ Probe \/ EndProbing \/ SetupFails
    <2>1. /\ phase # "loaded" /\ phase' # "loaded"
          /\ UNCHANGED <<saved, day, heard, early, disk>> /\ due' \in {due, {}}
        BY <1>3 DEF BeginSetup, Probe, EndProbing, SetupFails, NoEntry
    <2> QED
        BY <1>1, <2>1
<1>4. CASE Update
    <2>1. UNCHANGED <<readers, day, due, saved, disk, heard, early>>
        BY <1>4 DEF Update
    <2>2. \/ phase # "loaded" /\ phase' # "loaded"
          \/ UNCHANGED <<phase, mem>>
        BY <1>4 DEF Update
    <2> QED
        BY <1>1, <1>2, <2>1, <2>2
<1>5. CASE AddEntities
    <2>1. /\ phase = "adding" /\ phase' = "loaded"
          /\ mem' = [k \in Slots |-> IF k \in Enabled(readers)
                                     THEN Restore(mem[k], saved[k], day) ELSE NothingSaved]
          /\ UNCHANGED <<readers, day, due, saved, disk, heard, early>>
        BY <1>5 DEF AddEntities
    <2>2. due = {} /\ due' = {} /\ Live = {} /\ Live' = Enabled(readers) /\ DueStale'
        BY <1>0, <2>1 DEF DueStale, Live
    <2>3. ASSUME NEW k \in Slots PROVE Held(k)'
        <3>1. Keeps(saved[k], day, heard[k], early[k])
            BY <1>0, <2>2, HeldIs DEF KeptInv
        <3>2. CASE k \notin Enabled(readers)
            BY <2>1, <2>2, <3>1, <3>2 DEF Held
        <3>3. CASE k \in Enabled(readers) /\ saved[k].lastReset = day
            <4>1. mem'[k] = saved[k]
                BY <2>1, <3>3 DEF Restore
            <4>2. heard'[k] \ early'[k] \subseteq mem'[k].cards \/ Full(mem'[k])
                BY <2>1, <3>1, <3>3, <4>1 DEF Keeps
            <4> QED
                BY <2>2, <3>3, <4>2 DEF Held, Full
        <3>4. CASE k \in Enabled(readers) /\ saved[k].lastReset # day
            <4>1. heard'[k] \ early'[k] = {}
                BY <2>1, <3>1, <3>4 DEF Keeps
            <4> QED
                BY <2>2, <3>4, <4>1 DEF Held
        <3> QED
            BY <3>2, <3>3, <3>4
    <2> QED
        BY <2>1, <2>2, <2>3 DEF KeptInv
<1>6. CASE Unload
    <2>1. /\ saved' = [k \in Slots |-> Shown(k)] /\ phase' = "down" /\ due' = {}
          /\ early' = [k \in Slots |-> NotKept(k)] /\ UNCHANGED <<day, disk, heard>>
        BY <1>6 DEF Unload, NoEntry
    <2>2. Live' = {} /\ DueStale'
        BY <2>1 DEF Live, DueStale
    <2>3. \A k \in Slots : Keeps(saved'[k], day', heard'[k], early'[k])
        BY <2>1, TakenKeeps
    <2>4. \A k \in Slots : Held(k)'
        BY <2>1, <2>2, <2>3 DEF Held
    <2> QED
        BY <2>1, <2>2, <2>4, TakenKeeps DEF KeptInv
<1>7. ASSUME NEW e \in Events, Dispatch(e) PROVE KeptInv'
    <2> DEFINE k == e.slot
    <2>1. /\ mem' = [mem EXCEPT ![k] = Hear(mem[k], e)] /\ k \in Live
          /\ UNCHANGED <<phase, readers, day, due, saved, disk>>
        BY <1>7 DEF Dispatch
    <2>2. k \in Slots /\ mem[k] \in ReaderState /\ Bounded(mem[k])
        BY <1>0, <2>1
    <2>3. /\ Hear(mem[k], e).lastReset = mem[k].lastReset
          /\ e.card = NoCard => Hear(mem[k], e).cards = mem[k].cards
        BY <2>2, HearResult
    <2>4. Live' = Live /\ mem'[k] = Hear(mem[k], e) /\ \A j \in Slots : j # k => mem'[j] = mem[j]
        BY <1>0, <2>1, <2>2 DEF Live
    <2>5. DueStale'
        BY <1>0, <2>1, <2>3, <2>4 DEF DueStale
    <2>6. Held(k)
        BY <2>2 DEF KeptInv
    <2> HIDE DEF k
    <2>7. CASE e.card = NoCard
        <3>1. UNCHANGED <<heard, early>>
            BY <1>7, <2>7 DEF Dispatch
        <3>2. \A j \in Slots : Held(j)'
            <4>1. ASSUME NEW j \in Slots
                  PROVE  mem'[j].cards = mem[j].cards /\ Held(j)
                BY <2>3, <2>4, <2>7 DEF KeptInv
            <4> QED
                BY <2>1, <2>4, <3>1, <4>1 DEF Held, Full
        <3> QED
            BY <2>1, <2>5, <3>1, <3>2 DEF KeptInv
    <2>8. CASE e.card # NoCard
        <3>1. e.card \in Cards
            BY <2>8, EventsAssumption
        <3>2. /\ heard' = [heard EXCEPT ![k] = @ \cup {e.card}]
              /\ early' = [early EXCEPT ![k] = IF k \in due THEN @ \cup {e.card}
                                               ELSE @ \ {e.card}]
            BY <1>7, <2>8 DEF Dispatch, k
        <3>3. /\ early' \in [Slots -> SUBSET Cards]
              /\ \A j \in Slots : j # k => heard'[j] = heard[j] /\ early'[j] = early[j]
              /\ heard'[k] = heard[k] \cup {e.card}
              /\ early'[k] = IF k \in due THEN early[k] \cup {e.card} ELSE early[k] \ {e.card}
            BY <1>0, <2>2, <3>1, <3>2
        <3>4. /\ mem[k].cards \subseteq mem'[k].cards
              /\ e.card \in mem'[k].cards \/ Full(mem'[k])
              /\ Full(mem[k]) => Full(mem'[k])
            BY <2>2, <2>4, <2>8, HearKeeps
        <3>5. Held(k)'
            <4>1. CASE k \in due
                <5>1. heard'[k] \subseteq early'[k]
                    BY <1>0, <2>6, <3>3, <4>1, HeldIs
                <5> QED
                    BY <2>1, <4>1, <5>1 DEF Held
            <4>2. CASE k \notin due
                <5>1. heard[k] \ early[k] \subseteq mem[k].cards \/ Full(mem[k])
                    BY <1>0, <2>1, <2>6, <4>2, HeldIs
                <5>2. heard'[k] \ early'[k] \subseteq mem'[k].cards \/ Full(mem'[k])
                    BY <3>3, <3>4, <4>2, <5>1
                <5> QED
                    BY <2>1, <2>4, <4>2, <5>2 DEF Held, Full
            <4> QED
                BY <4>1, <4>2
        <3>6. ASSUME NEW j \in Slots, j # k PROVE Held(j)'
            <4>1. Held(j)
                BY DEF KeptInv
            <4> QED
                BY <2>1, <2>4, <3>3, <3>6, <4>1 DEF Held, Full
        <3> QED
            BY <2>1, <2>5, <3>3, <3>5, <3>6 DEF KeptInv
    <2> QED
        BY <2>7, <2>8
<1>8. CASE Midnight
    <2>1. /\ day' = day + 1 /\ due' = Live /\ heard' = Nobody /\ early' = Nobody
          /\ UNCHANGED <<phase, readers, mem, saved, disk>>
        BY <1>8 DEF Midnight
    <2>2. Live' = Live
        BY <2>1 DEF Live
    <2>3. \A k \in Slots : mem[k].lastReset # day + 1
        BY <1>0
    <2>4. \A k \in Slots : heard'[k] = {} /\ early'[k] = {}
        BY <2>1 DEF Nobody
    <2>5. DueStale'
        BY <1>0, <2>1, <2>2, <2>3 DEF DueStale
    <2>6. early' \in [Slots -> SUBSET Cards]
        BY <2>1 DEF Nobody
    <2>7. \A k \in Slots : Held(k)'
        BY <2>4 DEF Held, Keeps
    <2> QED
        BY <2>1, <2>5, <2>6, <2>7 DEF KeptInv
<1>9. ASSUME NEW k \in Slots, MidnightReset(k) PROVE KeptInv'
    <2>1. /\ k \in due /\ due' = due \ {k}
          /\ mem' = [mem EXCEPT ![k] = Reset(mem[k], day)]
          /\ UNCHANGED <<phase, readers, day, saved, disk, heard, early>>
        BY <1>9 DEF MidnightReset
    <2>2. Live' = Live /\ k \in Live
        BY <1>0, <2>1 DEF Live, DueStale
    <2>3. \A j \in Slots : j # k => mem'[j] = mem[j]
        BY <1>0, <2>1
    <2>4. DueStale'
        BY <1>0, <2>1, <2>2, <2>3 DEF DueStale
    <2>5. Held(k)'
        <3>1. Held(k)
            BY DEF KeptInv
        <3>2. heard'[k] \ early'[k] = {}
            BY <1>0, <2>1, <3>1, HeldIs
        <3> QED
            BY <2>1, <2>2, <3>2 DEF Held
    <2>6. ASSUME NEW j \in Slots, j # k PROVE Held(j)'
        <3>1. Held(j)
            BY DEF KeptInv
        <3> QED
            BY <2>1, <2>2, <2>3, <2>6, <3>1 DEF Held, Full
    <2> QED
        BY <2>1, <2>4, <2>5, <2>6 DEF KeptInv
<1>10. CASE Dump
    <2>1. /\ disk'.saved = [k \in Slots |-> Shown(k)] /\ disk'.day = day
          /\ disk'.heard = heard /\ disk'.early = [k \in Slots |-> NotKept(k)]
          /\ UNCHANGED <<phase, readers, day, due, mem, saved, heard, early>>
        BY <1>10 DEF Dump
    <2>2. Live' = Live
        BY <2>1 DEF Live
    <2>3. DueStale' /\ \A k \in Slots : Held(k)'
        BY <1>0, <2>1, <2>2 DEF KeptInv, DueStale, Held, Full
    <2>4. \A k \in Slots : Keeps(disk'.saved[k], disk'.day, disk'.heard[k], disk'.early[k])
        BY <2>1, TakenKeeps
    <2> QED
        BY <1>0, <2>1, <2>3, <2>4, TakenKeeps DEF KeptInv
<1>11. CASE Crash
    <2>1. /\ saved' = disk.saved /\ phase' = "down" /\ due' = {} /\ UNCHANGED <<day, disk>>
          /\ heard' = IF disk.day = day THEN disk.heard ELSE Nobody
          /\ early' = IF disk.day = day THEN disk.early ELSE Nobody
        BY <1>11 DEF Crash, NoEntry
    <2>2. Live' = {} /\ DueStale'
        BY <2>1 DEF Live, DueStale
    <2>3. early' \in [Slots -> SUBSET Cards]
        BY <2>1 DEF KeptInv, Nobody
    <2>4. ASSUME NEW k \in Slots PROVE Keeps(saved'[k], day', heard'[k], early'[k])
        <3>1. CASE disk.day = day
            BY <2>1, <3>1 DEF KeptInv
        <3>2. CASE disk.day # day
            <4>1. heard'[k] = {} /\ early'[k] = {}
                BY <2>1, <3>2 DEF Nobody
            <4> QED
                BY <4>1 DEF Keeps
        <3> QED
            BY <3>1, <3>2
    <2>5. \A k \in Slots : Held(k)'
        BY <2>1, <2>2, <2>4 DEF Held
    <2> QED
        BY <2>1, <2>2, <2>3, <2>5 DEF KeptInv
<1> QED
    BY <1>2, <1>3, <1>4, <1>5, <1>6, <1>7, <1>8, <1>9, <1>10, <1>11
       DEF Next, vars, Change, Answer, UpdateFails

LEMMA KeptInvariant == Spec => []KeptInv
<1>1. Init => KeptInv
    <2> SUFFICES ASSUME Init PROVE KeptInv
        OBVIOUS
    <2>1. /\ due = {} /\ early = Nobody /\ heard = Nobody
          /\ disk.early = Nobody /\ disk.heard = Nobody
        BY DEF Init
    <2>2. \A k \in Slots : \A m, d : Keeps(m, d, Nobody[k], Nobody[k])
        BY DEF Keeps, Nobody
    <2> QED
        BY <2>1, <2>2 DEF KeptInv, DueStale, Held, Nobody
<1> QED
    BY <1>1, SensorTypes, Visitors, KeptStep, PTL DEF Spec

\* "so a same-day HA restart resumes the count": for every number of readers, days,
\* reloads and crashes, whom a sensor was handed today, after its reset and, if the
\* process ended, before the store was last written, it still counts, up to the cap;
\* also a sensor that stands on another day, until it is unloaded.
THEOREM NobodyLost == Spec => []TodayKept
<1>1. SensorTypeOK /\ KeptInv => TodayKept
    <2> SUFFICES ASSUME SensorTypeOK, KeptInv, NEW k \in Live \ due
                 PROVE  \/ heard[k] \ early[k] \subseteq mem[k].cards
                        \/ Cardinality(mem[k].cards) = MaxCards
        BY DEF TodayKept
    <2>1. Held(k) /\ DueStale
        BY EnabledSlots DEF SensorTypeOK, KeptInv
    <2> QED
        BY <2>1, HeldIs DEF Full
<1> QED
    BY <1>1, SensorTypes, KeptInvariant, PTL

-----------------------------------------------------------------------------
(* The counters. *)

CrashesOK == crashes \in Nat

LEMMA CrashesCount == Spec => []CrashesOK
<1>1. Init => CrashesOK
    BY DEF Init, CrashesOK
<1>2. CrashesOK /\ [Next]_vars => CrashesOK'
    <2> SUFFICES ASSUME CrashesOK, [Next]_vars PROVE CrashesOK'
        OBVIOUS
    <2>1. crashes' = crashes \/ crashes' = crashes + 1
        BY DEF Next, vars, Change, BeginSetup, Probe, EndProbing, SetupFails, Answer,
               Update, UpdateFails, AddEntities, Unload, Dispatch, Midnight,
               MidnightReset, Dump, Crash
    <2> QED
        BY <2>1 DEF CrashesOK
<1> QED
    BY <1>1, <1>2, PTL DEF Spec

\* What is shown of a reader's counters passes from the entity to the kept state and
\* back without a loss.
LEMMA CountersStep ==
    ASSUME SensorTypeOK, CrashesOK, [Next]_vars, crashes' = crashes,
           NEW k \in Slots, NEW c \in Categories
    PROVE  Shown(k)'.counts[c] >= Shown(k).counts[c]
<1>0. /\ mem[k] \in ReaderState /\ saved[k] \in ReaderState
      /\ Shown(k).counts[c] \in Nat
    BY DEF SensorTypeOK, SensorsOK, Shown, ReaderState
<1>1. CASE BeginSetup \/ Probe \/ EndProbing \/ SetupFails
    <2>1. phase # "loaded" /\ phase' # "loaded" /\ saved' = saved
        BY <1>1 DEF BeginSetup, Probe, EndProbing, SetupFails, NoEntry
    <2> QED
        BY <1>0, <2>1 DEF Shown, Live
<1>2. CASE Update
    <2>1. /\ UNCHANGED <<saved, readers>>
          /\ \/ phase # "loaded" /\ phase' # "loaded"
             \/ UNCHANGED <<phase, mem>>
        BY <1>2 DEF Update
    <2> QED
        BY <1>0, <2>1 DEF Shown, Live
<1>3. CASE AddEntities
    <2>1. /\ phase = "adding" /\ phase' = "loaded" /\ UNCHANGED <<readers, saved>>
          /\ k \in Enabled(readers) => mem'[k] = Restore(mem[k], saved[k], day)
        BY <1>3 DEF AddEntities
    <2>2. Shown(k) = saved[k]
        BY <2>1 DEF Shown, Live
    <2>3. Shown(k)'.counts = saved[k].counts
        <3>1. day \in Nat
            BY DaysAssumption DEF SensorTypeOK
        <3>2. Restore(mem[k], saved[k], day).counts = saved[k].counts
            BY <1>0, <3>1, RestoreResult
        <3>3. Shown(k)' = IF k \in Enabled(readers) THEN mem'[k] ELSE saved[k]
            BY <2>1 DEF Shown, Live
        <3> QED
            BY <2>1, <3>2, <3>3
    <2> QED
        BY <1>0, <2>2, <2>3
<1>4. CASE Unload
    <2>1. saved'[k] = Shown(k) /\ phase' = "down"
        BY <1>4 DEF Unload, NoEntry
    <2> QED
        BY <1>0, <2>1 DEF Shown, Live
<1>5. ASSUME NEW e \in Events, Dispatch(e) PROVE Shown(k)'.counts[c] >= Shown(k).counts[c]
    <2>1. /\ mem' = [mem EXCEPT ![e.slot] = Hear(mem[e.slot], e)] /\ e.slot \in Slots
          /\ UNCHANGED <<phase, readers, saved>>
        BY <1>5, EnabledSlots DEF Dispatch, SensorTypeOK
    <2>2. mem \in [Slots -> ReaderState]
        BY DEF SensorTypeOK, SensorsOK
    <2>3. mem'[k] = mem[k] \/ mem'[k].counts[c] >= mem[k].counts[c]
        BY <2>1, <2>2, HearResult DEF SensorTypeOK, SensorsOK
    <2> QED
        BY <1>0, <2>1, <2>3 DEF Shown, Live
<1>6. ASSUME NEW j \in Slots, MidnightReset(j)
      PROVE  Shown(k)'.counts[c] >= Shown(k).counts[c]
    <2>1. /\ mem' = [mem EXCEPT ![j] = Reset(mem[j], day)]
          /\ UNCHANGED <<phase, readers, saved>>
        BY <1>6 DEF MidnightReset
    <2>2. mem \in [Slots -> ReaderState] /\ day \in Nat
        BY DaysAssumption DEF SensorTypeOK, SensorsOK
    <2>3. mem'[k].counts = mem[k].counts
        BY <2>1, <2>2, ResetResult
    <2> QED
        BY <1>0, <2>1, <2>3 DEF Shown, Live
<1>7. CASE Crash
    BY <1>7 DEF Crash, CrashesOK
<1>8. CASE UNCHANGED <<phase, readers, mem, saved>>
    BY <1>0, <1>8 DEF Shown, Live
<1> QED
    BY <1>1, <1>2, <1>3, <1>4, <1>5, <1>6, <1>7, <1>8
       DEF Next, vars, Change, Answer, UpdateFails, Midnight, Dump

\* total_increasing: unless the process ends, no counter that Home Assistant shows
\* ever falls, also for a reader that one setup missed.
THEOREM CountersNeverFall == Spec => CountersOnlyGrow
<1>1. SensorTypeOK /\ CrashesOK /\ [Next]_vars =>
          [crashes' = crashes =>
              \A k \in Slots, c \in Categories :
                  Shown(k)'.counts[c] >= Shown(k).counts[c]]_vars
    BY CountersStep
<1> QED
    BY <1>1, SensorTypes, CrashesCount, PTL DEF Spec, CountersOnlyGrow

-----------------------------------------------------------------------------
(* The readers that are enabled. *)

LEMMA EnabledFinite ==
    ASSUME NEW rs \in Seq(BOOLEAN)
    PROVE  IsFiniteSet(Enabled(rs)) /\ Enabled(rs) \subseteq Nat
           /\ Cardinality(Enabled(rs)) \in Nat
<1>1. Len(rs) \in Nat /\ IsFiniteSet(1..Len(rs)) /\ Enabled(rs) \subseteq 1..Len(rs)
    BY FS_Interval DEF Enabled
<1> QED
    BY <1>1, FS_Subset, FS_CardinalityType

-----------------------------------------------------------------------------
(* The status shown is the entity's own. *)

StatusType == [cfg : SUBSET Slots, online : SUBSET Slots, open : SUBSET Doors,
               locked : SUBSET Doors]

\* coordinator.data is what was made of the last answer, for the readers probed.
DataInv ==
    /\ device \in StatusType /\ asOf \in StatusType
    /\ poll # <<>> => poll[1] \in StatusType /\ phase \in {"refreshing", "loaded"}
    /\ phase = "loaded" \/ phase = "adding" =>
          data = <<WorkStatus(Report(asOf), DoorCount(readers), EnabledCount(readers))>>

LEMMA DataStep == DataInv /\ [Next]_vars => DataInv'
<1> SUFFICES ASSUME DataInv, [Next]_vars PROVE DataInv'
    OBVIOUS
<1>1. CASE Change
    <2>1. device' \in StatusType
        BY <1>1 DEF Change, DataInv, StatusType, Flip
    <2> QED
        BY <1>1, <2>1 DEF Change, DataInv
<1>2. CASE BeginSetup \/ Probe \/ EndProbing
    <2>1. /\ phase \in {"down", "probing"} /\ phase' \in {"probing", "refreshing"}
          /\ UNCHANGED <<device, poll, asOf>>
        BY <1>2 DEF BeginSetup, Probe, EndProbing
    <2> QED
        BY <2>1 DEF DataInv
<1>3. CASE SetupFails \/ Unload
    BY <1>3 DEF SetupFails, Unload, NoEntry, DataInv
<1>4. CASE Crash
    BY <1>4 DEF Crash, NoEntry, DataInv
<1>5. CASE Answer
    <2>1. /\ phase \in {"refreshing", "loaded"} /\ poll' = <<device>>
          /\ UNCHANGED <<device, phase, readers, data, asOf>>
        BY <1>5 DEF Answer
    <2>2. poll'[1] = device
        BY <2>1
    <2> QED
        BY <2>1, <2>2 DEF DataInv
<1>6. CASE Update
    <2>1. /\ poll # <<>> /\ poll' = <<>> /\ asOf' = poll[1]
          /\ data' = <<WorkStatus(Report(poll[1]), DoorCount(readers),
                                EnabledCount(readers))>>
          /\ UNCHANGED <<device, readers>>
        BY <1>6 DEF Update
    <2>2. Report(asOf') = Report(poll[1])
        BY <2>1
    <2> QED
        BY <2>1, <2>2 DEF DataInv
<1>7. CASE UpdateFails
    BY <1>7 DEF UpdateFails, DataInv
<1>8. CASE AddEntities
    <2>1. phase = "adding" /\ phase' = "loaded"
          /\ UNCHANGED <<device, readers, poll, data, asOf>>
        BY <1>8 DEF AddEntities
    <2> QED
        BY <2>1 DEF DataInv
<1>9. CASE UNCHANGED <<device, phase, readers, poll, data, asOf>>
    BY <1>9 DEF DataInv
<1> QED
    BY <1>1, <1>2, <1>3, <1>4, <1>5, <1>6, <1>7, <1>8, <1>9
       DEF Next, vars, Dispatch, Midnight, MidnightReset, Dump

\* The member of S with as many members below it as k has is k.
LEMMA NthRank ==
    ASSUME NEW S \in SUBSET Slots, NEW k \in S
    PROVE  Nth(S, Cardinality({y \in S : y < k}) + 1) = k
<1> DEFINE Below(x) == {y \in S : y < x}
<1>1. IsFiniteSet(S) /\ S \subseteq Nat
    <2>1. IsFiniteSet(Slots) /\ Slots \subseteq Nat
        BY FS_Interval, SizesAssumption DEF Slots
    <2> QED
        BY <2>1, FS_Subset
<1>2. ASSUME NEW x \in S PROVE IsFiniteSet(Below(x)) /\ Cardinality(Below(x)) \in Nat
    <2>1. Below(x) \subseteq S
        OBVIOUS
    <2> QED
        BY <1>1, <2>1, FS_Subset, FS_CardinalityType
<1>3. ASSUME NEW x \in S, NEW y \in S, x < y
      PROVE  Cardinality(Below(x)) < Cardinality(Below(y))
    <2>1. Below(x) \cup {x} \subseteq Below(y)
        <3>1. \A z \in S : z < x => z < y
            BY <1>1, <1>3
        <3> QED
            BY <1>3, <3>1
    <2>2. x \notin Below(x)
        BY <1>1
    <2>3. Cardinality(Below(x) \cup {x}) = Cardinality(Below(x)) + 1
        BY <1>2, <2>2, FS_AddElement
    <2>4. Cardinality(Below(x) \cup {x}) <= Cardinality(Below(y))
        BY <1>2, <2>1, FS_Subset
    <2>5. Cardinality(Below(x)) \in Nat /\ Cardinality(Below(y)) \in Nat
        BY <1>2
    <2> HIDE DEF Below
    <2> QED
        BY <2>3, <2>4, <2>5
<1> DEFINE n == Cardinality(Below(k)) + 1
<1>4. \A x \in S : Cardinality(Below(x)) = n - 1 <=> x = k
    <2>1. Cardinality(Below(k)) \in Nat
        BY <1>2
    <2>2. n - 1 = Cardinality(Below(k))
        BY <2>1
    <2>3. ASSUME NEW x \in S, x # k PROVE Cardinality(Below(x)) # Cardinality(Below(k))
        <3>1. x < k \/ k < x
            BY <1>1, <2>3
        <3>2. /\ x < k => Cardinality(Below(x)) < Cardinality(Below(k))
              /\ k < x => Cardinality(Below(k)) < Cardinality(Below(x))
            BY <1>3
        <3>3. Cardinality(Below(x)) \in Nat
            BY <1>2
        <3> HIDE DEF Below
        <3> QED
            BY <2>1, <3>1, <3>2, <3>3
    <2> QED
        BY <2>2, <2>3
<1>5. Nth(S, n) = CHOOSE x \in S : Cardinality(Below(x)) = n - 1
    BY DEF Nth
<1> HIDE DEF Below, n
<1>6. Nth(S, n) = k
    BY <1>4, <1>5
<1> QED
    BY <1>6 DEF n, Below

\* An entry of a padded array is the array's own, as long as it has one.
LEMMA PadEntry ==
    ASSUME NEW values, NEW m \in Nat, NEW n \in Nat, NEW i \in 1..n,
           i <= m, Len(values) = m
    PROVE  IsOn(Pad(values, n, FALSE), i) = IF values[i] THEN "on" ELSE "off"
<1>1. Pad(values, n, FALSE)[i] = values[i]
    BY DEF Pad
<1>2. Len(Pad(values, n, FALSE)) = n
    BY DEF Pad
<1> QED
    BY <1>1, <1>2 DEF IsOn

LEMMA StatusOwn == SensorTypeOK /\ DataInv => StatusIsOwn
<1> SUFFICES ASSUME SensorTypeOK, DataInv, phase = "loaded",
                    asOf.cfg \cap 1..Len(readers) = Enabled(readers)
             PROVE  /\ \A k \in Enabled(readers) :
                          ReaderOnline(data[1], readers, k) =
                              IF k \in asOf.online THEN "on" ELSE "off"
                    /\ \A d \in Doors \cap 1..DoorCount(readers) :
                          /\ DoorOpen(data[1], d) = IF d \in asOf.open THEN "on" ELSE "off"
                          /\ DoorLock(data[1], d) = IF d \in asOf.locked THEN "off" ELSE "on"
    BY DEF StatusIsOwn
<1>1. data[1] = WorkStatus(Report(asOf), DoorCount(readers), EnabledCount(readers))
    BY DEF DataInv
<1>2. readers \in Seq(BOOLEAN) /\ asOf \in StatusType
    BY DEF SensorTypeOK, DataInv
<1>3. /\ IsFiniteSet(Enabled(readers)) /\ Enabled(readers) \subseteq Nat
      /\ Cardinality(Enabled(readers)) \in Nat
    BY <1>2, EnabledFinite
<1>4. EnabledCount(readers) \in Nat /\ DoorCount(readers) \in Nat
    BY <1>3 DEF EnabledCount, DoorCount
<1>5. ASSUME NEW k \in Enabled(readers)
      PROVE  ReaderOnline(data[1], readers, k) = IF k \in asOf.online THEN "on" ELSE "off"
    <2> DEFINE before == {j \in Enabled(readers) : j < k}
               i == Cardinality(before) + 1
               cfg == asOf.cfg
    <2>1. before = {y \in cfg : y < k} /\ k \in cfg
        BY <1>2 DEF Enabled, StatusType, Slots
    <2>2. /\ IsFiniteSet(before) /\ Cardinality(before) \in Nat /\ k \notin before
          /\ Cardinality(before \cup {k}) = i
        <3>1. before \subseteq Enabled(readers) /\ k \notin before
            BY <1>3
        <3>2. IsFiniteSet(before) /\ Cardinality(before) \in Nat
            BY <1>3, <3>1, FS_Subset, FS_CardinalityType
        <3> QED
            BY <3>1, <3>2, FS_AddElement
    <2>3. i <= EnabledCount(readers) /\ i \in 1..EnabledCount(readers)
        <3>1. i <= Cardinality(Enabled(readers))
            BY <1>3, <2>2, FS_Subset
        <3>2. EnabledCount(readers) = Cardinality(Enabled(readers))
            BY <3>1, <2>2 DEF EnabledCount
        <3> QED
            BY <1>4, <2>2, <3>1, <3>2
    <2>4. cfg \in SUBSET Slots /\ IsFiniteSet(cfg) /\ Cardinality(cfg) \in Nat
        <3>1. cfg \in SUBSET Slots /\ IsFiniteSet(Slots)
            BY <1>2, FS_Interval, SizesAssumption DEF StatusType, Slots
        <3> QED
            BY <3>1, FS_Subset, FS_CardinalityType
    <2>5. i <= Cardinality(cfg)
        BY <1>3, <2>1, <2>2, <2>4, FS_Subset
    <2>6. Nth(cfg, i) = k
        BY <2>1, <2>4, NthRank
    <2> DEFINE reported == Report(asOf).online
    <2>7. reported = [n \in 1..Cardinality(cfg) |-> Nth(cfg, n) \in asOf.online]
        BY DEF Report
    <2>8. Len(reported) = Cardinality(cfg) /\ reported[i] = (k \in asOf.online)
        BY <2>2, <2>4, <2>5, <2>6, <2>7
    <2>9. data[1].online = Pad(reported, EnabledCount(readers), FALSE)
        BY <1>1 DEF WorkStatus
    <2>10. IsOn(data[1].online, i) = IF reported[i] THEN "on" ELSE "off"
        <3>1. i \in 1..EnabledCount(readers) /\ i <= Cardinality(cfg)
            BY <2>3, <2>5
        <3> HIDE DEF i, reported
        <3>2. IsOn(Pad(reported, EnabledCount(readers), FALSE), i) =
                  IF reported[i] THEN "on" ELSE "off"
            BY <1>4, <2>4, <2>8, <3>1, PadEntry
        <3> QED
            BY <2>9, <3>2
    <2>11. ReaderOnline(data[1], readers, k) = IsOn(data[1].online, i)
        BY DEF ReaderOnline, EnabledIndex
    <2> QED
        BY <2>8, <2>10, <2>11
<1>6. ASSUME NEW d \in Doors, d \in 1..DoorCount(readers)
      PROVE  /\ DoorOpen(data[1], d) = IF d \in asOf.open THEN "on" ELSE "off"
             /\ DoorLock(data[1], d) = IF d \in asOf.locked THEN "off" ELSE "on"
    <2> DEFINE open == Report(asOf).open
               lock == Report(asOf).lock
    <2>1. open = [x \in Doors |-> x \in asOf.open] /\ lock = [x \in Doors |-> x \in asOf.locked]
        BY DEF Report
    <2>2. /\ Len(open) = NumDoors /\ Len(lock) = NumDoors /\ d <= NumDoors
          /\ open[d] = (d \in asOf.open) /\ lock[d] = (d \in asOf.locked)
        BY <2>1, SizesAssumption DEF Doors
    <2>3. /\ data[1].open = Pad(open, DoorCount(readers), FALSE)
          /\ data[1].lock = Pad(lock, DoorCount(readers), FALSE)
        BY <1>1 DEF WorkStatus
    <2>4. /\ IsOn(data[1].open, d) = IF open[d] THEN "on" ELSE "off"
          /\ IsOn(data[1].lock, d) = IF lock[d] THEN "on" ELSE "off"
        <3> HIDE DEF open, lock
        <3>1. /\ IsOn(Pad(open, DoorCount(readers), FALSE), d) = IF open[d] THEN "on" ELSE "off"
              /\ IsOn(Pad(lock, DoorCount(readers), FALSE), d) = IF lock[d] THEN "on" ELSE "off"
            BY <1>4, <1>6, <2>2, PadEntry, SizesAssumption, ZenonT(40)
        <3> QED
            BY <2>3, <3>1
    <2> QED
        BY <2>2, <2>4 DEF DoorOpen, DoorLock
<1> QED
    BY <1>5, <1>6

\* "so the entity reads the right slot at runtime": for every number of slots and
\* doors and every set of enabled readers, while the flags are those that were
\* probed each entity shows its own reader or door.
THEOREM OwnStatus == Spec => []StatusIsOwn
<1>1. Init => DataInv
    BY DEF Init, DataInv, StatusType
<1> QED
    BY <1>1, DataStep, StatusOwn, SensorTypes, PTL DEF Spec

-----------------------------------------------------------------------------
(* All the types. *)

\* The entry is at one point of its setup; a poll and its data are at most one.
EntryTypeOK ==
    /\ phase \in {"down", "probing", "refreshing", "adding", "loaded"}
    /\ Len(poll) <= 1 /\ Len(data) <= 1 /\ ok \in BOOLEAN

\* A poll, and its data, is one or none.
LEMMA AtMostOne == Len(<<>>) <= 1 /\ \A x : Len(<<x>>) <= 1
OBVIOUS

LEMMA EntryTypeStep == EntryTypeOK /\ [Next]_vars => EntryTypeOK'
<1> SUFFICES ASSUME EntryTypeOK, [Next]_vars PROVE EntryTypeOK'
    OBVIOUS
<1>1. CASE Update
    BY AtMostOne, <1>1 DEF Update, EntryTypeOK
<1>2. CASE Answer
    BY AtMostOne, <1>2 DEF Answer, EntryTypeOK
<1>3. CASE UpdateFails
    BY AtMostOne, <1>3 DEF UpdateFails, EntryTypeOK
<1>4. CASE SetupFails \/ Unload \/ Crash
    BY AtMostOne, <1>4 DEF SetupFails, Unload, Crash, NoEntry, EntryTypeOK
<1>5. CASE BeginSetup \/ Probe \/ EndProbing \/ AddEntities
    BY <1>5 DEF BeginSetup, Probe, EndProbing, AddEntities, EntryTypeOK
<1>6. CASE UNCHANGED <<phase, poll, data, ok>>
    BY <1>6 DEF EntryTypeOK
<1> QED
    BY <1>1, <1>2, <1>3, <1>4, <1>5, <1>6
       DEF Next, vars, Change, Dispatch, Midnight, MidnightReset, Dump

\* MAX_CARDS holds for every sensor, a sensor never stands on a day that has not
\* come, and a midnight callback is due only for an entity that exists.
THEOREM EntitiesTypeCorrect == Spec => []TypeOK
<1>1. Init => DataInv /\ EntryTypeOK
    BY AtMostOne DEF Init, DataInv, StatusType, EntryTypeOK
<1>2. SensorTypeOK /\ VisitorInv /\ KeptInv /\ DataInv /\ EntryTypeOK => TypeOK
    BY DEF SensorTypeOK, SensorsOK, Bounded, VisitorInv, KeptInv, DueStale, DataInv,
           StatusType, EntryTypeOK, TypeOK
<1> QED
    BY <1>1, <1>2, SensorTypes, Visitors, KeptInvariant, DataStep, EntryTypeStep, PTL
       DEF Spec

-----------------------------------------------------------------------------
(* The tables. *)

CategoriesOf(minor) == {c \in Categories : minor \in EVENT_CATEGORIES[c]}

\* A labelled code is of one category, any other of none; the denials are those of
\* two categories.
LEMMA CodeCategory ==
    ASSUME NEW minor \in Nat
    PROVE  /\ Cardinality(CategoriesOf(minor)) =
                  IF minor \in MINOR_EVENT_LABELS THEN 1 ELSE 0
           /\ minor \in DENIAL_MINOR_CODES <=>
                  /\ CategoriesOf(minor) \subseteq {"card_denied", "fingerprint_invalid"}
                  /\ CategoriesOf(minor) # {}
<1> DEFINE Is(c) == CategoriesOf(minor) = {c} /\ minor \in MINOR_EVENT_LABELS
<1>1. \A c : c \in Categories <=>
          c \in {"card_valid", "card_denied", "fingerprint_valid", "fingerprint_invalid",
                 "door_events"}
    BY DEF Categories, EVENT_CATEGORIES
<1>2. \A c : c \in CategoriesOf(minor) <=>
          \/ c = "card_valid" /\ minor = 1
          \/ c = "card_denied" /\ minor \in 6..12
          \/ c = "fingerprint_valid" /\ minor = 22
          \/ c = "fingerprint_invalid" /\ minor = 21
          \/ c = "door_events" /\ minor \in {75, 76, 81, 82}
    BY <1>1 DEF CategoriesOf, EVENT_CATEGORIES
<1>3. minor \in MINOR_EVENT_LABELS <=>
          \/ minor = 1 \/ minor \in 6..12 \/ minor = 22 \/ minor = 21
          \/ minor \in {75, 76, 81, 82}
    BY DEF MINOR_EVENT_LABELS
<1>4. \/ Is("card_valid") /\ minor = 1
      \/ Is("card_denied") /\ minor \in 6..12
      \/ Is("fingerprint_valid") /\ minor = 22
      \/ Is("fingerprint_invalid") /\ minor = 21
      \/ Is("door_events") /\ minor \in {75, 76, 81, 82}
      \/ CategoriesOf(minor) = {} /\ minor \notin MINOR_EVENT_LABELS
    BY <1>2, <1>3
<1>5. \A c : Cardinality({c}) = 1
    BY FS_Singleton
<1>6. Cardinality({}) = 0
    BY FS_EmptySet
<1>7. Cardinality(CategoriesOf(minor)) = IF minor \in MINOR_EVENT_LABELS THEN 1 ELSE 0
    BY <1>4, <1>5, <1>6, ZenonT(40)
<1>8. minor \in DENIAL_MINOR_CODES <=> minor \in 6..12 \/ minor = 21
    BY DEF DENIAL_MINOR_CODES
<1>9. /\ CategoriesOf(minor) \subseteq {"card_denied", "fingerprint_invalid"}
      /\ CategoriesOf(minor) # {}
      <=> minor \in 6..12 \/ minor = 21
    BY <1>2
<1> QED
    BY <1>7, <1>8, <1>9

\* What an event changes are the counters of its categories.
LEMMA CountedCategories ==
    ASSUME SensorTypeOK, NEW e \in Events, Dispatch(e)
    PROVE  {c \in Categories : mem'[e.slot].counts[c] # mem[e.slot].counts[c]} =
               CategoriesOf(e.minor)
<1> DEFINE m == mem[e.slot]
           v == IF e.card = NoCard THEN m ELSE Visit(m, e)
<1>1. /\ mem' = [mem EXCEPT ![e.slot] = Hear(m, e)] /\ e.slot \in Slots
      /\ m \in ReaderState /\ Bounded(m)
    BY EnabledSlots DEF Dispatch, SensorTypeOK, SensorsOK
<1>2. mem'[e.slot] = Count(v, e)
    BY <1>1 DEF Hear, SensorTypeOK, SensorsOK
<1>3. v \in ReaderState /\ v.counts = m.counts
    BY <1>1, VisitResult, EventsAssumption
<1> HIDE DEF m, v
<1>4. \A c \in Categories : Count(v, e).counts[c] =
          IF e.minor \in EVENT_CATEGORIES[c] THEN v.counts[c] + 1 ELSE v.counts[c]
    BY <1>3 DEF Count, ReaderState
<1>5. \A c \in Categories : v.counts[c] \in Nat
    BY <1>3 DEF ReaderState
<1>6. \A c \in Categories :
          mem'[e.slot].counts[c] # mem[e.slot].counts[c] <=> e.minor \in EVENT_CATEGORIES[c]
    BY <1>2, <1>3, <1>4, <1>5 DEF m
<1> QED
    BY <1>6 DEF CategoriesOf

\* The labels, the counters and the triggers are three tables of the same codes: for
\* any event, one counter goes up if and only if its code has a label, and the
\* card_denied trigger fires if and only if that counter is one of the two denials.
THEOREM OneCategory == Spec => OneCategoryEach
<1> DEFINE Up(e) == {c \in Categories : mem'[e.slot].counts[c] # mem[e.slot].counts[c]}
<1>1. ASSUME SensorTypeOK, NEW e \in Events, Dispatch(e)
      PROVE  /\ Cardinality(Up(e)) = (IF e.minor \in MINOR_EVENT_LABELS THEN 1 ELSE 0)
             /\ Matches("card_denied", e) <=>
                    Up(e) \subseteq {"card_denied", "fingerprint_invalid"} /\ Up(e) # {}
    <2>1. Up(e) = CategoriesOf(e.minor)
        BY <1>1, CountedCategories
    <2>2. e.minor \in Nat
        BY EventsAssumption
    <2>3. Matches("card_denied", e) <=> e.minor \in DENIAL_MINOR_CODES
        BY DEF Matches
    <2> HIDE DEF Up
    <2> QED
        BY <2>1, <2>2, <2>3, CodeCategory
<1>2. SensorTypeOK /\ [Next]_vars =>
          [\A e \in Events :
              Dispatch(e) =>
                LET up == {c \in Categories : mem'[e.slot].counts[c] # mem[e.slot].counts[c]} IN
                /\ Cardinality(up) = (IF e.minor \in MINOR_EVENT_LABELS THEN 1 ELSE 0)
                /\ Matches("card_denied", e) <=>
                       up \subseteq {"card_denied", "fingerprint_invalid"} /\ up # {}]_vars
    BY <1>1
<1> QED
    BY <1>2, SensorTypes, PTL DEF Spec, OneCategoryEach
=============================================================================
