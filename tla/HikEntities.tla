------------------------------ MODULE HikEntities ------------------------------
(***************************************************************************)
(* The entities of one config entry: setup probes the reader slots, the     *)
(* first poll and every later one fills the coordinator, the sensors of the *)
(* enabled readers are restored, hear events and are reset at midnight.     *)
(* Composes HikDiscovery (what is derived from the answers) and HikSensors  *)
(* (what a sensor does with an event).                                      *)
(***************************************************************************)
EXTENDS HikDiscovery, HikSensors

CONSTANTS
    NumSlots,       \* reader slots the controller has
    NumDoors,       \* doors the controller has
    MaxSlots,       \* max_slots of probe_readers
    Events,         \* payloads that may be dispatched
    MaxDay,         \* bound: last day
    MaxChanges,     \* bound: changes of the controller's settings and status
    MaxLoads,       \* bound: setups
    MaxHeard,       \* bound: events dispatched
    MaxCrashes      \* bound: ends of the process

Slots == 1..NumSlots
Doors == 1..NumDoors

ASSUME SizesAssumption == NumSlots \in Nat /\ NumDoors \in Nat /\ MaxSlots \in Nat
ASSUME DaysAssumption  == MaxDay \in Nat \ {0}
ASSUME EventsAssumption ==
    \A e \in Events : /\ e.slot \in Nat /\ e.minor \in Nat
                      /\ e.card \in Cards \cup {NoCard} /\ e.named \in BOOLEAN

VARIABLES
    \* The controller: its enabled readers and the status it reports.
    device,     \* [cfg, online, open, locked]
    \* The entry.
    phase,      \* where async_setup_entry is
    readers,    \* data.readers: the enabled flags of the slots probed
    poll,       \* the poll in flight: the answer once the controller gave it
    data,       \* coordinator.data, <<>> before the first
    asOf,       \* the status that data was made from
    ok,         \* last_update_success
    \* The sensors.
    day,        \* the local day
    due,        \* slots whose midnight callback has not run yet
    mem,        \* mem[k]: the sensors of reader k, while they exist
    saved,      \* saved[k]: what RestoreStateData would give them
    disk,       \* the restore store
    \* Budgets, and history variables of the properties.
    changes, loads, crashes, dispatched,
    heard,      \* heard[k]: cards reader k's sensors were handed today
    early       \* of these, those that are not kept: handed before the day's reset,
                \* or to a sensor that stood on another day when its state was taken

setupVars  == <<phase, readers>>
pollVars   == <<poll, data, asOf, ok>>
sensorVars == <<due, mem, saved>>
ghostVars  == <<heard, early>>
budgets    == <<changes, loads, crashes, dispatched>>
vars == <<device, setupVars, pollVars, day, sensorVars, disk, budgets, ghostVars>>

Live == IF phase = "loaded" THEN Enabled(readers) ELSE {}

\* What Home Assistant knows of reader k's sensors: their state, or the kept one.
Shown(k) == IF k \in Live THEN mem[k] ELSE saved[k]

\* Whoever a state that stands on another day names, is not restored today.
NotKept(k) == IF k \in Live /\ mem[k].lastReset # day THEN heard[k] ELSE early[k]

-----------------------------------------------------------------------------
Nobody == [k \in Slots |-> {}]
Fresh  == [k \in Slots |-> NothingSaved]

Init ==
    /\ device \in [cfg : SUBSET Slots, online : {Slots}, open : {{}}, locked : {Doors}]
    /\ phase = "down" /\ readers = <<>>
    /\ poll = <<>> /\ data = <<>> /\ asOf = device /\ ok = FALSE
    /\ day = 1 /\ due = {}
    /\ mem = Fresh /\ saved = Fresh
    /\ disk = [saved |-> Fresh, day |-> 1, heard |-> Nobody, early |-> Nobody]
    /\ changes = 0 /\ loads = 0 /\ crashes = 0 /\ dispatched = 0
    /\ heard = Nobody /\ early = Nobody

-----------------------------------------------------------------------------
(* The controller. *)

\* Its configuration is edited, a reader comes or goes, a door moves.
Flip(S, x) == IF x \in S THEN S \ {x} ELSE S \cup {x}
Change ==
    /\ changes < MaxChanges
    /\ changes' = changes + 1
    /\ \/ \E k \in Slots : \/ device' = [device EXCEPT !.cfg = Flip(@, k)]
                           \/ device' = [device EXCEPT !.online = Flip(@, k)]
       \/ \E d \in Doors : \/ device' = [device EXCEPT !.open = Flip(@, d)]
                           \/ device' = [device EXCEPT !.locked = Flip(@, d)]
    /\ UNCHANGED <<setupVars, pollVars, day, sensorVars, disk, loads, crashes,
                   dispatched, ghostVars>>

\* The arrays of its AcsWorkStatus; cardReaderOnlineStatus is dense.
Nth(S, i) == CHOOSE x \in S : Cardinality({y \in S : y < x}) = i - 1
Report(v) ==
    [lock   |-> [d \in Doors |-> d \in v.locked],
     open   |-> [d \in Doors |-> d \in v.open],
     online |-> [i \in 1..Cardinality(v.cfg) |-> Nth(v.cfg, i) \in v.online]]

-----------------------------------------------------------------------------
(* Setup and unload. *)

BeginSetup ==
    /\ phase = "down" /\ loads < MaxLoads
    /\ loads' = loads + 1
    /\ phase' = "probing" /\ readers' = <<>>
    /\ UNCHANGED <<device, pollVars, day, sensorVars, disk, changes, crashes,
                   dispatched, ghostVars>>

\* One turn of the loop in probe_card_readers that finds a reader.
Probe ==
    /\ phase = "probing"
    /\ Len(readers) < MaxSlots /\ Len(readers) < NumSlots
    /\ readers' = Append(readers, Len(readers) + 1 \in device.cfg)
    /\ UNCHANGED <<device, phase, pollVars, day, sensorVars, disk, budgets, ghostVars>>

\* The loop ends: after max_slots, at notSupport, and at any ClientError or
\* unreadable answer, which is taken for the end of the slots.
EndProbing ==
    /\ phase = "probing"
    /\ phase' = "refreshing"
    /\ UNCHANGED <<device, readers, pollVars, day, sensorVars, disk, budgets, ghostVars>>

\* What unload, a failed setup and a crash leave.
NoEntry ==
    /\ phase' = "down" /\ readers' = <<>>
    /\ poll' = <<>> /\ data' = <<>> /\ ok' = FALSE
    /\ due' = {} /\ mem' = Fresh

\* A request that times out, or a first poll that fails: ConfigEntryNotReady.
SetupFails ==
    /\ phase \in {"probing", "refreshing"}
    /\ NoEntry
    /\ UNCHANGED <<device, asOf, day, saved, disk, budgets, ghostVars>>

\* The controller answers the poll.
Answer ==
    /\ phase \in {"refreshing", "loaded"} /\ poll = <<>>
    /\ poll' = <<device>>
    /\ UNCHANGED <<device, setupVars, data, asOf, ok, day, sensorVars, disk, budgets,
                   ghostVars>>

\* _async_update_data returns; the first time setup goes on to the platforms,
\* which construct the entities.
Update ==
    /\ poll # <<>>
    /\ poll' = <<>>
    /\ data' = <<WorkStatus(Report(poll[1]), DoorCount(readers), EnabledCount(readers))>>
    /\ asOf' = poll[1]
    /\ ok' = TRUE
    /\ IF phase = "refreshing"
       THEN /\ phase' = "adding"
            /\ mem' = [k \in Slots |-> IF k \in Enabled(readers) THEN Construct(day)
                                       ELSE NothingSaved]
       ELSE UNCHANGED <<phase, mem>>
    /\ UNCHANGED <<device, readers, day, due, saved, disk, budgets, ghostVars>>

\* UpdateFailed: the data is kept, the entities are unavailable.
UpdateFails ==
    /\ phase = "loaded" /\ ok
    /\ poll' = <<>> /\ ok' = FALSE
    /\ UNCHANGED <<device, setupVars, data, asOf, day, sensorVars, disk, budgets,
                   ghostVars>>

\* The entities are added: they restore their state and listen.
AddEntities ==
    /\ phase = "adding"
    /\ phase' = "loaded"
    /\ mem' = [k \in Slots |-> IF k \in Enabled(readers) THEN Restore(mem[k], saved[k], day)
                               ELSE NothingSaved]
    /\ UNCHANGED <<device, readers, pollVars, day, due, saved, disk, budgets, ghostVars>>

\* The entities are removed, their last states kept.
Unload ==
    /\ phase = "loaded"
    /\ saved' = [k \in Slots |-> Shown(k)]
    /\ early' = [k \in Slots |-> NotKept(k)]
    /\ NoEntry
    /\ UNCHANGED <<device, asOf, day, disk, budgets, heard>>

-----------------------------------------------------------------------------
(* Events and midnight. *)

\* SIGNAL_EVENT, live or replayed, and the sensors whose reader it names.
Dispatch(e) ==
    /\ e.slot \in Live /\ dispatched < MaxHeard
    /\ dispatched' = dispatched + 1
    /\ mem' = [mem EXCEPT ![e.slot] = Hear(@, e)]
    /\ IF e.card = NoCard THEN UNCHANGED <<heard, early>>
       ELSE /\ heard' = [heard EXCEPT ![e.slot] = @ \cup {e.card}]
            /\ early' = [early EXCEPT ![e.slot] =
                            IF e.slot \in due THEN @ \cup {e.card} ELSE @ \ {e.card}]
    /\ UNCHANGED <<device, setupVars, pollVars, day, due, saved, disk, changes,
                   loads, crashes>>

\* The callbacks of the sensors run up to half a second later, in any order.
Midnight ==
    /\ day < MaxDay /\ due = {}
    /\ day' = day + 1
    /\ due' = Live
    /\ heard' = Nobody /\ early' = Nobody
    /\ UNCHANGED <<device, setupVars, pollVars, mem, saved, disk, budgets>>

MidnightReset(k) ==
    /\ k \in due
    /\ due' = due \ {k}
    /\ mem' = [mem EXCEPT ![k] = Reset(@, day)]
    /\ UNCHANGED <<device, setupVars, pollVars, day, saved, disk, budgets, ghostVars>>

-----------------------------------------------------------------------------
(* The process. *)

Dump ==
    /\ crashes < MaxCrashes
    /\ disk' = [saved |-> [k \in Slots |-> Shown(k)], day |-> day, heard |-> heard,
                early |-> [k \in Slots |-> NotKept(k)]]
    /\ UNCHANGED <<device, setupVars, pollVars, day, sensorVars, budgets, ghostVars>>

Crash ==
    /\ crashes < MaxCrashes
    /\ crashes' = crashes + 1
    /\ NoEntry
    /\ saved' = disk.saved
    /\ heard' = IF disk.day = day THEN disk.heard ELSE Nobody
    /\ early' = IF disk.day = day THEN disk.early ELSE Nobody
    /\ UNCHANGED <<device, asOf, day, disk, changes, loads, dispatched>>

Next ==
    \/ Change \/ BeginSetup \/ Probe \/ EndProbing \/ SetupFails
    \/ Answer \/ Update \/ UpdateFails \/ AddEntities \/ Unload
    \/ \E e \in Events : Dispatch(e)
    \/ Midnight
    \/ \E k \in Slots : MidnightReset(k)
    \/ Dump \/ Crash

Spec == Init /\ [][Next]_vars
-----------------------------------------------------------------------------
(* Properties. *)

\* Every variable holds a value of its kind; no sensor holds more cards than
\* MAX_CARDS, or a day that has not come.
TypeOK ==
    /\ device \in [cfg : SUBSET Slots, online : SUBSET Slots, open : SUBSET Doors,
                   locked : SUBSET Doors]
    /\ phase \in {"down", "probing", "refreshing", "adding", "loaded"}
    /\ readers \in Seq(BOOLEAN) /\ Len(readers) <= MaxSlots /\ Len(readers) <= NumSlots
    /\ Len(poll) <= 1 /\ Len(data) <= 1 /\ ok \in BOOLEAN
    /\ day \in 1..MaxDay /\ due \subseteq Live
    /\ mem \in [Slots -> ReaderState] /\ saved \in [Slots -> ReaderState]
    /\ \A k \in Slots : /\ Cardinality(mem[k].cards) <= MaxCards
                        /\ mem[k].lastReset <= day
    /\ disk.saved \in [Slots -> ReaderState] /\ disk.day \in 1..day
    /\ heard \in [Slots -> SUBSET Cards] /\ early \in [Slots -> SUBSET Cards]

\* "Track each reader's position-among-enabled so the entity reads the right
\* slot at runtime": as long as the controller's enable flags are those that were
\* probed, every entity shows its own reader's or door's status of the last
\* answer, also when the probe loop was cut short by an error.
StatusIsOwn ==
    phase = "loaded" /\ ok /\ asOf.cfg \cap 1..Len(readers) = Enabled(readers) =>
        /\ \A k \in Enabled(readers) :
              ReaderOnline(data[1], readers, k) = IF k \in asOf.online THEN "on" ELSE "off"
        /\ \A d \in Doors \cap 1..DoorCount(readers) :
              /\ DoorOpen(data[1], d) = IF d \in asOf.open THEN "on" ELSE "off"
              /\ DoorLock(data[1], d) = IF d \in asOf.locked THEN "off" ELSE "on"

\* "Count of distinct cardholders seen today (resets at local midnight)": once its
\* reset has run, a sensor counts nobody it was not handed today, whatever was
\* unloaded, restored or crashed in between; also a sensor that was constructed
\* before midnight and added after it, and was neither reset nor restored.
OnlyToday == \A k \in Live \ due : mem[k].cards \subseteq heard[k]

\* "so a same-day HA restart resumes the count": who was handed to the sensor
\* today, after its reset, is still counted, up to the cap, if the store was written
\* since or the process has not ended; also when the reader was missing from the list
\* of a setup in between.  A sensor that stands on another day keeps its visitors
\* until it is unloaded.
TodayKept ==
    \A k \in Live \ due :
        \/ heard[k] \ early[k] \subseteq mem[k].cards
        \/ Cardinality(mem[k].cards) = MaxCards

\* The names in `cardholders` belong to cards that are counted: the cap holds
\* both sets, and midnight clears both.
NamesCounted ==
    \A k \in Slots : mem[k].names \subseteq mem[k].cards

\* total_increasing counters: no unload, failed setup or lost reader makes a
\* counter fall; only the end of the process can take it back to what was
\* stored.
CountersOnlyGrow ==
    [][crashes' = crashes =>
        \A k \in Slots, c \in Categories : Shown(k)'.counts[c] >= Shown(k).counts[c]]_vars

\* The tables of the counters, the labels and the triggers agree: an event with
\* a known label counts in exactly one category, any other in none, and the
\* card_denied trigger fires exactly for those that count as a denied card or an
\* invalid fingerprint.
OneCategoryEach ==
    [][\A e \in Events :
          Dispatch(e) =>
            LET up == {c \in Categories : mem'[e.slot].counts[c] # mem[e.slot].counts[c]} IN
            /\ Cardinality(up) = (IF e.minor \in MINOR_EVENT_LABELS THEN 1 ELSE 0)
            /\ Matches("card_denied", e) <=> up \subseteq {"card_denied", "fingerprint_invalid"} /\ up # {}
      ]_vars
=============================================================================
