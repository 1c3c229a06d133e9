------------------------------- MODULE HikIngest -------------------------------
(***************************************************************************)
(* How an access event travels from a controller's own log to Home         *)
(* Assistant: live over the alertStream, or replayed by the startup        *)
(* backfill, and how the persisted high-water mark of the TotalSwipes      *)
(* sensors is meant to keep the two apart.                                 *)
(*                                                                         *)
(* The event bus, the dispatcher and the sensors run on one asyncio loop:  *)
(* an action is what the loop does between two awaits.  The replay of one  *)
(* page has no await in it, so while some page is being replayed no other  *)
(* action of Home Assistant is enabled (Idle); the devices, the clock and  *)
(* a crash do not wait.                                                    *)
(***************************************************************************)
EXTENDS Naturals, FiniteSets, Sequences

CONSTANTS
    Controllers,    \* config entries, one per controller
    Readers,        \* enabled reader slots of every controller
    NoReader,       \* cardReaderNo missing, not a number, or of no enabled slot
    Windows,        \* values of the backfill option, in clock units; 0 disables
    PageSize,       \* maxResults of an AcsEvent search
    MaxPages,       \* MAX_PAGES
    StuckCursor,    \* TRUE: the device ignores searchResultPosition
    HomeLead,       \* seconds Home Assistant's clock is ahead of the true time
    Leads,          \* seconds a controller's clock may be ahead of it
    MaxLog,         \* bound: events one controller logs
    MaxTime,        \* bound: last second of the clock
    MaxLoads,       \* bound: times an entry is loaded, all entries together
    MaxDrops,       \* bound: alertStream connections lost
    MaxCrashes      \* bound: ends of the Home Assistant process

ASSUME ReadersAssumption == NoReader \notin Readers
ASSUME WindowsAssumption == Windows \subseteq Nat
ASSUME PagingAssumption  == PageSize \in Nat \ {0} /\ MaxPages \in Nat \ {0}
ASSUME CursorAssumption  == StuckCursor \in BOOLEAN
ASSUME ClocksAssumption  == HomeLead \in Nat /\ Leads \subseteq Nat
ASSUME BoundsAssumption  ==
    /\ MaxLog \in Nat /\ MaxTime \in Nat /\ MaxLoads \in Nat
    /\ MaxDrops \in Nat /\ MaxCrashes \in Nat

VARIABLES
    \* The controllers.
    now,        \* the true time, in whole seconds
    lead,       \* lead[c]: how far the controller's clock is ahead of it
    log,        \* log[c]: the device's AcsEvent log; an event's serial is its index
    wire,       \* wire[c]: serials sent on the open alertStream, not yet consumed
    \* The config entries.
    entry,      \* entry[c]: down, loaded, or unloading (platforms gone)
    stream,     \* stream[c]: TRUE while the alertStream is connected
    sensor,     \* sensor[c][r]: the TotalSwipes sensor of reader r
    \* The backfill task.
    bfpc,       \* where _run_backfill is
    window,     \* [high, deep, from, until]: high_water, deep_start, start, end
    pos,        \* fetch_pages' position
    pages,      \* pages received
    seen,       \* serials client.backfill() has yielded
    page,       \* serials of the received page still to be replayed
    replayed,   \* replayed[c][r]: Len(replayed_per_slot[r])
    tally,      \* the serials the task counted, and the sums before it (history variable)
    result,     \* how the fetch ended
    \* What survives the process.
    disk,       \* the restore-state store
    history,    \* history[c][r]: the last `sum` of the external statistic
    \* Budgets of the bounds above, and history variables of the properties.
    loads, drops, crashes,
    fired,      \* fired[c][s]: bus events for serial s since the entry was loaded
    ingested,   \* serials dispatched while the entry's sensors listened
    restored,   \* ingested, as of the load
    offline     \* [first, last]: serials logged while the entry was down

deviceVars   == <<now, lead, log, wire>>
backfillVars == <<bfpc, window, pos, pages, seen, page, replayed, tally, result>>
budgetVars   == <<loads, drops, crashes>>
vars == <<deviceVars, entry, stream, sensor, backfillVars, disk, history,
          budgetVars, fired, ingested, restored, offline>>

Serials == 1..MaxLog
Event   == [time : Nat, reader : Readers \cup {NoReader}, card : BOOLEAN]

\* _count, _last_serial and _last_event_time; 0 stands for None in the last two.
Sensor == [count : Nat, lastSerial : Nat, lastTime : Nat]
NewSensor == [count |-> 0, lastSerial |-> 0, lastTime |-> 0]
NoWindow  == [high |-> 0, deep |-> 0, from |-> 0, until |-> 0]
NewSensors  == [c \in Controllers |-> [r \in Readers |-> NewSensor]]
NothingFrom == [c \in Controllers |-> [r \in Readers |-> 0]]
Tally(sums) == [yielded |-> {}, before |-> sums]

\* A page is replayed without an await.
Idle == \A c \in Controllers : bfpc[c] # "replay"

-----------------------------------------------------------------------------
Init ==
    /\ now = 1
    /\ lead \in [Controllers -> Leads]
    /\ log = [c \in Controllers |-> <<>>]
    /\ wire = [c \in Controllers |-> <<>>]
    /\ entry = [c \in Controllers |-> "down"]
    /\ stream = [c \in Controllers |-> FALSE]
    /\ sensor = NewSensors
    /\ bfpc = [c \in Controllers |-> "off"]
    /\ window = [c \in Controllers |-> NoWindow]
    /\ pos = [c \in Controllers |-> 0]
    /\ pages = [c \in Controllers |-> 0]
    /\ seen = [c \in Controllers |-> {}]
    /\ page = [c \in Controllers |-> {}]
    /\ replayed = NothingFrom
    /\ tally = [c \in Controllers |-> Tally([r \in Readers |-> 0])]
    /\ result = [c \in Controllers |-> "none"]
    /\ disk = [sensor |-> NewSensors, ingested |-> [c \in Controllers |-> {}]]
    /\ history = NothingFrom
    /\ loads = 0 /\ drops = 0 /\ crashes = 0
    /\ fired = [c \in Controllers |-> [s \in Serials |-> 0]]
    /\ ingested = [c \in Controllers |-> {}]
    /\ restored = [c \in Controllers |-> {}]
    /\ offline = [c \in Controllers |-> [first |-> 1, last |-> 0]]

-----------------------------------------------------------------------------
(* The controllers and the clock. *)

\* The device logs an event, stamped with its own clock, and, when an alertStream
\* is open, sends it.
Occur(c) ==
    /\ Len(log[c]) < MaxLog
    /\ \E r \in Readers \cup {NoReader}, card \in BOOLEAN :
          /\ r = NoReader => ~card
          /\ log' = [log EXCEPT ![c] =
                        Append(@, [time |-> now + lead[c], reader |-> r, card |-> card])]
    /\ wire' = IF stream[c]
               THEN [wire EXCEPT ![c] = Append(@, Len(log'[c]))]
               ELSE wire
    /\ UNCHANGED <<now, lead, entry, stream, sensor, backfillVars, disk, history,
                   budgetVars, fired, ingested, restored, offline>>

Tick ==
    /\ now < MaxTime
    /\ now' = now + 1
    /\ UNCHANGED <<lead, log, wire, entry, stream, sensor, backfillVars, disk, history,
                   budgetVars, fired, ingested, restored, offline>>

-----------------------------------------------------------------------------
(* Delivery of one event: async_fire on the bus, then the dispatcher, whose *)
(* SIGNAL_EVENT reaches the sensors of every loaded entry.                  *)

\* A slip: the serial of the event at hand replaces the mark.
AdvanceLastWins(m, s, e) ==
    [count      |-> IF e.card THEN m.count + 1 ELSE m.count,
     lastSerial |-> s,
     lastTime   |-> IF e.time > m.lastTime THEN e.time ELSE m.lastTime]

\* A slip: the time is the time of the last delivery, not of the newest event.
AdvanceLastTimeWins(m, s, e) ==
    [count      |-> IF e.card THEN m.count + 1 ELSE m.count,
     lastSerial |-> IF s > m.lastSerial THEN s ELSE m.lastSerial,
     lastTime   |-> e.time]

\* TotalSwipesSensor._on_event, past the reader filter.
Advance(m, s, e) ==
    [count      |-> IF e.card THEN m.count + 1 ELSE m.count,
     lastSerial |-> IF s > m.lastSerial THEN s ELSE m.lastSerial,
     lastTime   |-> IF e.time > m.lastTime THEN e.time ELSE m.lastTime]

\* The sensors listen while the platforms of their entry are set up.
Listening(c) == entry[c] = "loaded"

Deliver(c, s) ==
    LET e == log[c][s] IN
    /\ sensor' = [d \in Controllers |-> [r \in Readers |->
                     IF Listening(d) /\ e.reader = r
                     THEN Advance(sensor[d][r], s, e)
                     ELSE sensor[d][r]]]
    /\ fired' = [fired EXCEPT ![c][s] = @ + 1]
    /\ ingested' = IF Listening(c)
                   THEN [ingested EXCEPT ![c] = @ \cup {s}]
                   ELSE ingested

-----------------------------------------------------------------------------
(* Loading an entry: the sensors take their restored values (RestoreEntity  *)
(* keeps them while an entry is unloaded), then the backfill task runs       *)
(* eagerly up to its first await and fixes its high-water mark and window.   *)

\* The TotalSwipes states that exist in the state machine: those of c, just
\* restored, and those of every other loaded entry.
MarkedSensors(c) == {d \in Controllers : d = c \/ Listening(d)}
SerialMarks(c) ==
    {0} \cup {sensor[d][r].lastSerial : d \in MarkedSensors(c), r \in Readers}
TimeMarks(c) ==
    {0} \cup {sensor[d][r].lastTime : d \in MarkedSensors(c), r \in Readers}
IsHighest(n, S) == n \in S /\ \A m \in S : m <= n

\* A slip: the search starts after the second of the newest event.
LaterExclusive(a, b) == IF a >= b THEN a + 1 ELSE b

Later(a, b) == IF a >= b THEN a ELSE b

Before(t, w) == IF t > w THEN t - w ELSE 0

\* A slip: the end is rounded up to the next second.
EndRoundedUp == now + HomeLead + 1

\* The end of the search: Home Assistant's clock.
End == now + HomeLead

Load(c) ==
    /\ Idle
    /\ entry[c] = "down" /\ ~stream[c]
    /\ bfpc[c] \in {"off", "done"}
    /\ loads < MaxLoads
    /\ loads' = loads + 1
    /\ entry' = [entry EXCEPT ![c] = "loaded"]
    /\ \E w \in Windows, high \in SerialMarks(c), latest \in TimeMarks(c) :
          /\ IsHighest(high, SerialMarks(c))
          /\ IsHighest(latest, TimeMarks(c))
          /\ window' = [window EXCEPT ![c] =
                           IF w = 0 THEN NoWindow
                           ELSE [high  |-> high,
                                 deep  |-> Before(End, w),
                                 from  |-> Later(latest, Before(End, w)),
                                 until |-> End]]
          /\ bfpc' = [bfpc EXCEPT ![c] = IF w = 0 THEN "done" ELSE "fetch"]
    /\ result' = [result EXCEPT ![c] = "none"]
    /\ fired' = [fired EXCEPT ![c] = [s \in Serials |-> 0]]
    /\ restored' = [restored EXCEPT ![c] = ingested[c]]
    /\ offline' = [offline EXCEPT ![c].last = Len(log[c])]
    /\ UNCHANGED <<deviceVars, stream, sensor, pos, pages, seen, page, replayed, tally,
                   disk, history, drops, crashes, ingested>>

\* async_unload_platforms: the sensors stop listening, the stream still runs.
Unload(c) ==
    /\ Idle
    /\ Listening(c)
    /\ entry' = [entry EXCEPT ![c] = "unloading"]
    /\ UNCHANGED <<deviceVars, stream, sensor, backfillVars, disk, history,
                   budgetVars, fired, ingested, restored, offline>>

\* stream_task.cancel() and client.stop(): the session is closed; the backfill
\* task is not cancelled.
Close(c) ==
    /\ Idle
    /\ entry[c] = "unloading"
    /\ entry' = [entry EXCEPT ![c] = "down"]
    /\ stream' = [stream EXCEPT ![c] = FALSE]
    /\ wire' = [wire EXCEPT ![c] = <<>>]
    /\ offline' = [offline EXCEPT ![c] = [first |-> Len(log[c]) + 1, last |-> 0]]
    /\ UNCHANGED <<now, lead, log, sensor, backfillVars, disk, history, budgetVars,
                   fired, ingested, restored>>

-----------------------------------------------------------------------------
(* The live stream. *)

Connect(c) ==
    /\ Idle
    /\ entry[c] # "down" /\ ~stream[c]
    /\ stream' = [stream EXCEPT ![c] = TRUE]
    /\ UNCHANGED <<deviceVars, entry, sensor, backfillVars, disk, history,
                   budgetVars, fired, ingested, restored, offline>>

\* The connection ends: what it carried and was not consumed is lost, the part
\* the multipart parser holds until the next boundary included.
Drop(c) ==
    /\ Idle
    /\ stream[c] /\ drops < MaxDrops
    /\ drops' = drops + 1
    /\ stream' = [stream EXCEPT ![c] = FALSE]
    /\ wire' = [wire EXCEPT ![c] = <<>>]
    /\ UNCHANGED <<now, lead, log, entry, sensor, backfillVars, disk, history, loads,
                   crashes, fired, ingested, restored, offline>>

\* One turn of the loop in _run_stream.
Live(c) ==
    /\ Idle
    /\ stream[c] /\ wire[c] # <<>>
    /\ Deliver(c, Head(wire[c]))
    /\ wire' = [wire EXCEPT ![c] = Tail(@)]
    /\ UNCHANGED <<now, lead, log, entry, stream, backfillVars, disk, history,
                   budgetVars, restored, offline>>

-----------------------------------------------------------------------------
(* The backfill. *)

\* The device's answer to a search: the events of the window, oldest first.
Matches(c) == {s \in 1..Len(log[c]) :
                  window[c].from <= log[c][s].time /\ log[c][s].time <= window[c].until}
Rank(c, s) == Cardinality({t \in Matches(c) : t <= s})
Answer(c) ==
    LET first == IF StuckCursor THEN 0 ELSE pos[c]
    IN  {s \in Matches(c) : first < Rank(c, s) /\ Rank(c, s) <= first + PageSize}

\* The generators of the fetch end, and their locals with them.
EndPaging(c) ==
    /\ pos' = [pos EXCEPT ![c] = 0]
    /\ pages' = [pages EXCEPT ![c] = 0]
    /\ seen' = [seen EXCEPT ![c] = {}]

\* A slip: one page too many.
CapReachedLate(c) == pages[c] > MaxPages

CapReached(c) == pages[c] >= MaxPages

\* One turn of the loop in fetch_pages: a page, or the empty answer that ends it.
Fetch(c) ==
    /\ Idle
    /\ bfpc[c] = "fetch" /\ entry[c] # "down"
    /\ ~CapReached(c)
    /\ IF Answer(c) = {}
       THEN /\ bfpc' = [bfpc EXCEPT ![c] = "stats"]
            /\ result' = [result EXCEPT ![c] = "complete"]
            /\ EndPaging(c)
            /\ UNCHANGED page
       ELSE /\ bfpc' = [bfpc EXCEPT ![c] = "answered"]
            /\ page' = [page EXCEPT ![c] = Answer(c)]
            /\ pos' = [pos EXCEPT ![c] = @ + Cardinality(Answer(c))]
            /\ pages' = [pages EXCEPT ![c] = @ + 1]
            /\ UNCHANGED <<seen, result>>
    /\ UNCHANGED <<deviceVars, entry, stream, sensor, window, replayed, tally, disk,
                   history, budgetVars, fired, ingested, restored, offline>>

\* A slip: the search starts over instead of ending.
CapRestarts(c) ==
    /\ Idle
    /\ bfpc[c] = "fetch" /\ CapReached(c)
    /\ pos' = [pos EXCEPT ![c] = 0]
    /\ pages' = [pages EXCEPT ![c] = 0]
    /\ UNCHANGED <<deviceVars, entry, stream, sensor, bfpc, window, seen, page,
                   replayed, tally, result, disk, history, budgetVars, fired, ingested,
                   restored, offline>>

\* The MAX_PAGES cap.
Cap(c) ==
    /\ Idle
    /\ bfpc[c] = "fetch" /\ CapReached(c)
    /\ bfpc' = [bfpc EXCEPT ![c] = "stats"]
    /\ result' = [result EXCEPT ![c] = "capped"]
    /\ EndPaging(c)
    /\ UNCHANGED <<deviceVars, entry, stream, sensor, window, page, replayed, tally, disk,
                   history, budgetVars, fired, ingested, restored, offline>>

\* A slip: what was counted before the failure is given up with the search.
FetchFailsForgets(c) ==
    /\ Idle
    /\ bfpc[c] \in {"fetch", "answered"}
    /\ bfpc' = [bfpc EXCEPT ![c] = "stats"]
    /\ page' = [page EXCEPT ![c] = {}]
    /\ replayed' = [replayed EXCEPT ![c] = [r \in Readers |-> 0]]
    /\ result' = [result EXCEPT ![c] = "failed"]
    /\ EndPaging(c)
    /\ UNCHANGED <<deviceVars, entry, stream, sensor, window, tally, disk,
                   history, budgetVars, fired, ingested, restored, offline>>

\* Any exception of the request, a closed session's included, is swallowed.
FetchFails(c) ==
    /\ Idle
    /\ bfpc[c] \in {"fetch", "answered"}
    /\ bfpc' = [bfpc EXCEPT ![c] = "stats"]
    /\ page' = [page EXCEPT ![c] = {}]
    /\ result' = [result EXCEPT ![c] = "failed"]
    /\ EndPaging(c)
    /\ UNCHANGED <<deviceVars, entry, stream, sensor, window, replayed, tally, disk,
                   history, budgetVars, fired, ingested, restored, offline>>

\* A slip: no dedup across the pages.
AcceptsRepeats(c, s) == s > window[c].high

\* replay_page skips what client.backfill() has yielded, _run_backfill what is
\* not above the high-water mark it read at its start.
Accepts(c, s) == s \notin seen[c] /\ s > window[c].high

\* The next event of the page: fired, counted for the statistic and dispatched,
\* or skipped.
Replay(c) ==
    /\ bfpc[c] \in {"answered", "replay"}
    /\ \A d \in Controllers \ {c} : bfpc[d] # "replay"
    /\ \E s \in page[c] :
          /\ \A t \in page[c] : s <= t
          /\ page' = [page EXCEPT ![c] = @ \ {s}]
          /\ bfpc' = [bfpc EXCEPT ![c] = IF page[c] = {s} THEN "fetch" ELSE "replay"]
          /\ seen' = [seen EXCEPT ![c] = @ \cup {s}]
          /\ IF Accepts(c, s)
             THEN /\ Deliver(c, s)
                  /\ replayed' = [replayed EXCEPT ![c] = [r \in Readers |->
                        IF log[c][s].card /\ log[c][s].reader = r
                        THEN @[r] + 1 ELSE @[r]]]
                  /\ tally' = [tally EXCEPT ![c].yielded = @ \cup {s}]
             ELSE UNCHANGED <<sensor, fired, ingested, replayed, tally>>
    /\ UNCHANGED <<deviceVars, entry, stream, window, pos, pages, result, disk,
                   history, budgetVars, restored, offline>>

\* One reader's turn of the statistics loop: the sum continues from the stored row.
Import(c, r) ==
    /\ Idle
    /\ bfpc[c] = "stats" /\ replayed[c][r] > 0
    /\ history' = [history EXCEPT ![c][r] = @ + replayed[c][r]]
    /\ replayed' = [replayed EXCEPT ![c][r] = 0]
    /\ UNCHANGED <<deviceVars, entry, stream, sensor, bfpc, window, pos, pages, seen,
                   page, tally, result, disk, budgetVars, fired, ingested, restored,
                   offline>>

Finish(c) ==
    /\ Idle
    /\ bfpc[c] = "stats" /\ \A r \in Readers : replayed[c][r] = 0
    /\ bfpc' = [bfpc EXCEPT ![c] = "done"]
    /\ tally' = [tally EXCEPT ![c] = Tally(history[c])]
    /\ UNCHANGED <<deviceVars, entry, stream, sensor, window, pos, pages, seen, page,
                   replayed, result, disk, history, budgetVars, fired, ingested,
                   restored, offline>>

-----------------------------------------------------------------------------
(* The process. *)

\* The restore store is written every 15 minutes and at a clean shutdown; only
\* the next process reads it, so within the bounds the last one need not write.
Dump ==
    /\ Idle
    /\ crashes < MaxCrashes
    /\ disk' = [sensor |-> sensor, ingested |-> ingested]
    /\ disk' # disk
    /\ UNCHANGED <<deviceVars, entry, stream, sensor, backfillVars, history,
                   budgetVars, fired, ingested, restored, offline>>

\* The process ends; the next one starts from the restore store.  A clean
\* shutdown is a Dump and, some events later, a Crash.
Crash ==
    /\ crashes < MaxCrashes
    /\ crashes' = crashes + 1
    /\ sensor' = disk.sensor
    /\ ingested' = disk.ingested
    /\ entry' = [c \in Controllers |-> "down"]
    /\ stream' = [c \in Controllers |-> FALSE]
    /\ wire' = [c \in Controllers |-> <<>>]
    /\ bfpc' = [c \in Controllers |-> "off"]
    /\ window' = [c \in Controllers |-> NoWindow]
    /\ pos' = [c \in Controllers |-> 0]
    /\ pages' = [c \in Controllers |-> 0]
    /\ seen' = [c \in Controllers |-> {}]
    /\ page' = [c \in Controllers |-> {}]
    /\ replayed' = NothingFrom
    /\ tally' = [c \in Controllers |-> Tally(history[c])]
    /\ result' = [c \in Controllers |-> "none"]
    /\ offline' = [c \in Controllers |->
                      IF entry[c] = "down" THEN [offline[c] EXCEPT !.last = 0]
                      ELSE [first |-> Len(log[c]) + 1, last |-> 0]]
    /\ fired' = [c \in Controllers |-> [s \in Serials |-> 0]]
    /\ restored' = [c \in Controllers |-> {}]
    /\ UNCHANGED <<now, lead, log, disk, history, loads, drops>>

-----------------------------------------------------------------------------
Next ==
    \/ Tick
    \/ Dump
    \/ Crash
    \/ \E c \in Controllers :
          \/ Occur(c)
          \/ Load(c)
          \/ Unload(c)
          \/ Close(c)
          \/ Connect(c)
          \/ Drop(c)
          \/ Live(c)
          \/ Fetch(c)
          \/ Cap(c)
          \/ FetchFails(c)
          \/ Replay(c)
          \/ \E r \in Readers : Import(c, r)
          \/ Finish(c)

Spec == Init /\ [][Next]_vars

\* A request of the client session ends, with an answer or with an error,
\* within aiohttp's total timeout of five minutes; the loop runs every task
\* that is ready.
Fairness ==
    \A c \in Controllers :
        /\ WF_vars(Fetch(c) \/ Cap(c) \/ FetchFails(c))
        /\ WF_vars(Replay(c))
        /\ WF_vars((\E r \in Readers : Import(c, r)) \/ Finish(c))

FairSpec == Spec /\ Fairness
-----------------------------------------------------------------------------
(* Properties. *)

DeviceTypeOK ==
    /\ now \in Nat /\ lead \in [Controllers -> Leads]
    /\ log \in [Controllers -> Seq(Event)]
    /\ \A c \in Controllers : Len(log[c]) <= MaxLog
    /\ wire \in [Controllers -> Seq(Serials)]
    /\ \A c \in Controllers : \A i \in 1..Len(wire[c]) : wire[c][i] <= Len(log[c])

EntryTypeOK ==
    /\ entry \in [Controllers -> {"down", "loaded", "unloading"}]
    /\ stream \in [Controllers -> BOOLEAN]
    /\ sensor \in [Controllers -> [Readers -> Sensor]]

BackfillTypeOK ==
    /\ bfpc \in [Controllers -> {"off", "fetch", "answered", "replay", "stats", "done"}]
    /\ window \in [Controllers -> [high : Nat, deep : Nat, from : Nat, until : Nat]]
    /\ pos \in [Controllers -> Nat]
    /\ pages \in [Controllers -> 0..MaxPages]
    /\ seen \in [Controllers -> SUBSET Serials]
    /\ page \in [Controllers -> SUBSET Serials]
    /\ \A c \in Controllers : \A s \in page[c] : s <= Len(log[c])
    /\ replayed \in [Controllers -> [Readers -> Nat]]
    /\ tally \in [Controllers -> [yielded : SUBSET Serials, before : [Readers -> Nat]]]
    /\ result \in [Controllers -> {"none", "complete", "capped", "failed"}]

StoreTypeOK ==
    /\ disk \in [sensor : [Controllers -> [Readers -> Sensor]],
                 ingested : [Controllers -> SUBSET Serials]]
    /\ history \in [Controllers -> [Readers -> Nat]]
    /\ loads \in Nat /\ drops \in Nat /\ crashes \in Nat

RecordTypeOK ==
    /\ fired \in [Controllers -> [Serials -> Nat]]
    /\ ingested \in [Controllers -> SUBSET Serials]
    /\ restored \in [Controllers -> SUBSET Serials]
    /\ offline \in [Controllers -> [first : Nat, last : Nat]]

\* Every variable holds a value of its kind; no page or wire names an event the
\* device has not logged, and no backfill takes more than MAX_PAGES pages.
TypeOK ==
    DeviceTypeOK /\ EntryTypeOK /\ BackfillTypeOK /\ StoreTypeOK /\ RecordTypeOK

\* "it's what stops a restart from re-firing old events onto the bus": what the
\* sensors had ingested before the entry was loaded is not fired again, live or
\* by the backfill, whatever the other controllers do.  Only events of an
\* enabled reader are protected: no sensor keeps a mark for the others.
RestartNeverRefires ==
    \A c \in Controllers : \A s \in restored[c] :
        log[c][s].reader \in Readers => fired[c][s] = 0

\* The detailed system is a ledger: whatever streams, pages and marks do, an event
\* is published only after it was logged, never again once the sensors knew it at
\* the load, and what the sensors know is lost only back to the last store.
Ledger == INSTANCE HikLedger WITH
    logged   <- [c \in Controllers |-> Len(log[c])],
    ours     <- [c \in Controllers |-> {s \in 1..Len(log[c]) : log[c][s].reader \in Readers}],
    accepted <- ingested,
    known    <- restored,
    stored   <- disk.ingested
ImplementsLedger == Ledger!Spec

\* The two halves of a persisted mark, which live and replayed events advance in
\* any order, always describe one and the same event of that reader, so the time
\* bound of the next window never cuts off what its serial bound would accept.
\* With one controller.
MarkNamesOneEvent ==
    \A c \in Controllers, r \in Readers :
        LET m == sensor[c][r] IN
        IF m.lastSerial = 0
        THEN m.lastTime = 0 /\ m.count = 0
        ELSE /\ m.lastSerial <= Len(log[c])
             /\ log[c][m.lastSerial].reader = r
             /\ log[c][m.lastSerial].time = m.lastTime

\* The window reaches an event: it is not older than the option allows nor, by a
\* clock that is ahead of Home Assistant's, of a second after the load.
Reached(c, s) ==
    /\ log[c][s].time >= window[c].deep
    /\ lead[c] > HomeLead => log[c][s].time <= window[c].until

\* "Replay AcsEvents the controller buffered while HA was down": a backfill that
\* ran to its end has fired every event that was logged while the entry was down
\* and that its window reaches.  Of a controller whose clock is not ahead these are
\* all those within the configured days.
DowntimeReplayed ==
    \A c \in Controllers :
        result[c] = "complete" =>
            \A s \in offline[c].first..offline[c].last : Reached(c, s) => fired[c][s] >= 1

\* The event was logged after the load: by the controller's clock not before the
\* second at which the search of the backfill ends by Home Assistant's.
SinceLoad(c, s) == window[c].until + lead[c] <= log[c][s].time + HomeLead

\* The mark is read once, so an event that the stream delivers while the backfill
\* runs may be replayed as well: but only once, and only an event logged after the
\* load that its controller stamped no later than the end of the search.  With equal
\* clocks this is the very second of the load, with a controller that is n seconds
\* behind n seconds more, and with one that is ahead no event at all.
DoubleFireOnlyAtLoad ==
    \A c \in Controllers, s \in Serials :
        fired[c][s] > 1 =>
            fired[c][s] = 2 /\ SinceLoad(c, s) /\ log[c][s].time <= window[c].until

\* No swipe that _run_backfill counted is lost or counted twice on its way to the
\* statistic: what is stored and what is still to be stored of a reader grew by its
\* card reads among the serials counted so far, also once a later page failed or the
\* cap was reached, and also when the device answers every search with one page.
ReplayCountsOnce ==
    \A c \in Controllers, r \in Readers :
        history[c][r] + replayed[c][r] =
            tally[c].before[r]
                + Cardinality({s \in tally[c].yielded : log[c][s].card /\ log[c][s].reader = r})

\* However the requests end, and whatever cursor the device keeps, the backfill
\* task comes to its end (or its process does).
BackfillTerminates ==
    \A c \in Controllers : bfpc[c] = "fetch" ~> bfpc[c] \in {"done", "off"}

\* Claims of the documentation that the code does not keep.

\* "anything at or below high_water was already ingested (counted and fired) in
\* a prior session".
HighWaterCovers ==
    \A c \in Controllers :
        bfpc[c] \in {"fetch", "answered", "replay"} =>
            \A s \in 1..Len(log[c]) : s <= window[c].high => s \in restored[c]
=============================================================================
