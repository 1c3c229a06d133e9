# A TLA+ model of hikvision_access

`hikvision_access` is a Home Assistant integration for Hikvision access
controllers. It follows a controller's `alertStream`, replays the controller's
`AcsEvent` log after a downtime, polls door and reader status, and turns all of
it into bus events, sensors and long-term statistics.

The model is written from the code under `custom_components/hikvision_access/`
(paths below are relative to it). `PROJECT.json` maps every definition to the
lines it models.

## 1. Inventory

| component | code | state | operations |
|---|---|---|---|
| event ingestion | `__init__.py` `_run_stream`, `_run_backfill` | high-water mark, window, swipes replayed per slot | consume live events, replay the log at startup, write the statistic |
| pager | `api/backfill.py`, `HikAccessClient.backfill` | search position, serials seen | next page, dedup, page cap |
| TotalSwipes sensor | `sensor.py:120-204` | count, last serial, last event time; persisted | restore, count, advance the mark |
| counters and visitors | `sensor.py:207-368` | category counts; today's cards and names, day of the last reset; persisted | restore, count, midnight reset |
| last event | `sensor.py:68-117` | the last payload | show it |
| client | `api/__init__.py` `events`, `stop` | session, stop event, streaming flag, 401 count, backoff | stream with reconnection, stop |
| setup and unload | `__init__.py:253-349` | runtime data, tasks | probe, refresh, start tasks; unload, stop |
| throttle and handshake | `api/__init__.py:113-121, 227-294`, `api/digest.py` | lock, time of the last request | pace, probe, answer a challenge |
| coordinator | `coordinator.py`, `api/http.py:82-91` | last data, last success | poll |
| multipart parser | `api/multipart.py` | buffer | feed |
| discovery, doors, binary sensors | `api/discovery.py`, `api/http.py:53-79`, `binary_sensor.py` | readers, door count | probe slots, decode status arrays |
| external statistics | `__init__.py:191-250` and the recorder | hourly rows with a cumulative sum | read last row, append |
| config flows | `config_flow.py` | entry data, options, unique id | user, reauth, reconfigure, options |
| triggers, diagnostics, constants | `device_trigger.py`, `diagnostics.py`, `const.py` | none | |

How they interact. One asyncio loop runs everything. Setup builds a client,
awaits requests on it, refreshes the coordinator, sets up the entities (which
restore their state and subscribe to `SIGNAL_EVENT`), then creates the stream
task and the backfill task. Both tasks fire on the bus and dispatch
`SIGNAL_EVENT`, which is one signal for *all* config entries. The backfill finds
its high-water mark by scanning the state machine for TotalSwipes sensors, again
of all entries. Stream, poll and backfill share the client's session and its
throttle; the stream's `finally` clause closes the session.

What is hard: live and replayed events reach the same sensors in any order while
the mark is read once; the mark, the statistic and the device's log live in
three stores that a crash separates; connections lose what was in flight; the
session's owner changes with the state of a task that may be cancelled at any
await; tasks race for the throttle; Home Assistant's clock bounds a search in events that
the controller stamped with its own. The list, each with its line and the
properties that cover it, is `hazards` in `PROJECT.json`.

What makes each component correct:

- ingestion: nothing the persisted sensors knew is fired again; what was missed
  is fired; each swipe is counted once per store.
- client: the session is closed exactly when nobody uses it any more; the stream
  reconnects except for a stated cause; rejected logins are bounded.
- throttle: requests are spaced, nobody starves, challenges are answered once.
- parser: the events yielded do not depend on how the bytes were cut.
- statistics: the sum up to an hour is the number of swipes up to it, and never more.
- counters and visitors: counters do not fall; today's visitors are exactly those
  seen today, up to the cap, through restarts and setups that miss a reader.
- discovery and binary sensors: every entity shows its own reader or door.
- flows: an entry keeps its device and its id, and runs on its present settings.

## 2. Modules

| module | models | checked by | proofs |
|---|---|---|---|
| `HikLedger` | abstract: events logged, published, known, stored | `HikIngest!ImplementsLedger` | `HikIngestProofs` |
| `HikIngest` | ingestion, pager, TotalSwipes, the restore store; N controllers | `MCIngest` | `HikIngestProofs`, `HikMarkProofs` |
| `HikHistory` | the external statistics and the recorder's queue | `MCHistory` | `HikHistoryProofs` |
| `HikClient` | one entry's client from construction to release, with setup, unload, stream task and poll | `MCClient` | `HikClientProofs` |
| `HikHandshake` | concurrent requests through the throttle and the Digest handshake | `MCHandshake` | `HikHandshakeProofs` |
| `HikMultipart` | chunks, the incremental parser, what the consumer yields | `MCMultipart` | `HikMultipartProofs` |
| `HikDiscovery` | pure: doors and readers, status arrays, `is_on` | through `HikEntities` | `HikEntitiesProofs` |
| `HikSensors` | pure: counters, visitors, tables of codes, triggers | through `HikEntities` | `HikEntitiesProofs` |
| `HikEntities` | setup, poll, sensors, midnight, crash of one entry | `MCEntities` | `HikEntitiesProofs` |
| `HikConfigFlow` | user, reconfigure and options flows next to setups and reloads | `MCConfigFlow` | `HikConfigFlowProofs` |

`HikEntities` composes `HikDiscovery` and `HikSensors`; the other modules look at
one system from different sides. `HikIngest` takes connections as given (`Connect`,
`Drop`, `FetchFails`), `HikClient` shows what opens and ends them, `HikHandshake`
what one request of the client does, `HikMultipart` what the bytes of one connection
become. `HikHistory` takes up the swipes that `HikIngest` has replayed (`Import`).
`HikEntities!Dispatch` is a live or replayed event, `HikConfigFlow` decides with
which host and window `HikEntities` and `HikIngest` start.

Operators introduced by a comment "A slip:" are wrong variants of the definition
below them, used to show that the properties notice such a bug; no specification
uses them.

### HikIngest

An action is what the loop does between two awaits. `Replay` takes one event of
a page; as the code replays a page without an await, `Idle` disables the other
actions of Home Assistant meanwhile, while the devices (`Occur`), the clock
(`Tick`) and a crash go on. `Deliver` is `bus.async_fire` plus the dispatcher:
every listening sensor of the event's slot, of any controller, runs
`_on_event` (`Advance`).

- An event's serial is its index in its controller's log. `NoReader` stands for
  every event that no enabled reader owns.
- Time is in whole seconds, the resolution of the search request. There are two
  kinds of clocks: a controller stamps its events with its own (`lead[c]` seconds
  ahead of the true time `now`), while the search ends at Home Assistant's (`End`,
  `HomeLead` seconds ahead). Both differences are fixed; they are naturals because
  only which clock is ahead, and by how much, matters.
- `Windows` are values of the `backfill_days` option in the same unit: 1 is a window
  the downtime may exceed, 9 is longer than any behaviour.
- `Load` is the end of the setup and the first, eager part of the backfill task
  (`hass.async_create_task` starts it at once): no other code runs between the
  restored sensors and the scan.
- `disk` is the restore store: `Dump` writes it (every 15 minutes and at a clean
  stop), `Crash` makes it the only memory. `sensor` of an unloaded entry keeps
  its value, as `RestoreEntity` does within one process.
- `Fetch` advances the position when the page arrives rather than after its
  replay; nothing reads it in between.
- `FetchFails` is any exception of a request, that of a closed session included.
- History variables: `fired` (since the load), `ingested`, `restored`, `offline`, and
  `tally`, the serials the task has counted with the sums of the statistic before it.
- An entry is loaded only when its previous backfill task has ended. The code
  does not wait for it (see the hazard at `__init__.py:348`).
- `history` keeps only the last sum; hours, names, failed reads and the recorder's
  queue are `HikHistory`'s, and so are names that the recorder refuses.
- `Ledger` is the refinement mapping: the log's length, the serials of enabled
  readers, and the history variables `fired`, `ingested`, `restored`. Whatever marks,
  windows, pages and streams do, a step either logs, publishes, loads, saves, crashes or
  changes nothing of the ledger; `HikLedger!Publish` is the promise: only what was
  logged, and nothing of an enabled reader that was known at the load.

### HikClient

`task` is what the stream task awaits, `setup` what setup or unload awaits.
`Close` is `stream_task.cancel()` and `client.stop()` up to the first point where
another task can run; the cancellation is delivered later (`Cancelled`), or loses
against a timer that had fired (`TimeoutWins`). `Stop` and `EndEvents` are the two
places that close the session. `Raises` and `Surfaces` are the mapping from what
the device answers to what setup raises. A retried setup builds a new client, so
the variables describe the newest one.

The 401s the device counts (`denials`) are a history variable of their own,
separate from the client's `authFails`.

### HikHandshake

A request is `Begin` (queue at the lock), `Acquire` (read the time, sleep), `Probe`
(record the time, release, send), then `Retry` and `Answer`, or `GiveUp`. asyncio's
lock is first come first served, hence `queue`. Time is kept as ages capped at the
interval, since the code only compares them with it. A challenge is a number;
the response computed in `digest.py` is identified with the nonce it answers.

### HikHistory

A backfill (`Tasks`, numbered as their fetches end) has its replayed swipes by
reader and hour (`batch`). `Read` asks the executor for the last row, or seeds 0;
`Queue` hands the recorder the rows of one reader; `Commit` is the recorder's thread.
Two tasks may overlap, because an unload does not cancel the first one. `Crash` loses
what is queued, and the next process may start from an older mark (`newest`). The ids of
the slots are chosen in `Init`, so both readers may share one.

An id is made of the reader's name, of which `_slug` replaces the spaces only. The
recorder accepts digits, `a`..`z` and single underscores (`ValidIds`); for a name with a
hyphen, a `#`, an umlaut or two spaces in a row `async_add_external_statistics` raises,
outside of any `try`: the task ends (`Refuse`), and the rows of that reader and of every
reader whose turn had not come are lost.

`flawed` records the ids whose reader met one of the causes the code does not
exclude: a failed read, a read before an earlier import was committed, a crash between
the stores. `ChartCorrect` is what holds for all others, `NeverOvercounts` what holds
even for those, relative to what the backfills counted. A row's `state` is left out:
for an hour that two backfills share it is the second one's count only.

### HikMultipart

Bytes are symbols; the boundary has two, a header ends with `#`, a body is one symbol.
`MeaningAssumption` says what a part means without reference to the parser: the symbol
behind the first `#` is an event, something fatal, or neither.
`Receive` takes any prefix of what is left of the stream as a chunk, and `feed()` is
one `Extract` per turn, since its consumer may be cancelled between two parts. `Raises`
is a part for which there is no exception handler, in one of four ways (`Fatal`): JSON that
is not an object, and an event whose `AccessControllerEvent` is not one (`AttributeError`);
an event whose type code or reader is `Infinity`, which Python's `json` accepts
(`OverflowError`, where `TypeError` and `ValueError` are caught); JSON nested too deeply
(`RecursionError`, where `feed()` catches `ValueError`). `Drop` is a lost
connection: transport and parser are made anew.

### HikDiscovery, HikSensors, HikEntities

A list of readers is the sequence of the `enabled` flags of the probed slots.
`EndProbing` may happen at any slot, because the code takes every `ClientError` for
the last slot. The controller's configuration and status change at any time
(`Change`); a poll is split into the answer and its use, so the data may be old.

`mem` are the sensors of the enabled readers, `saved` what Home Assistant keeps of
those that do not exist now, `disk` the restore store. `Construct` and `Restore` are
two steps because setup awaits between them, and midnight may come in between.
`Midnight` turns the day at once, the sensors' callbacks (`MidnightReset`) follow in
any order. `heard` and `early` are history variables: the cards each reader's sensor
was handed today, and those of them that the code does not keep. These are the cards
handed over between midnight and the reset, and all those of a sensor that stands on
another day when its state is taken (`NotKept`): a state of another day is not restored.

### HikConfigFlow

A flow asks the device (`asking`), has its answer (`answered`), and a user flow that
passed the check of the unique id awaits `client.stop()` (`closing`) before Home
Assistant creates the entry. Devices behind a host may change at any time (`Swap`).
`state` is the entry's setup; `reload` is a scheduled reload; `used` is what the
running setup was built from: the client's host is read at its beginning, the window at
its end. The flow manager and the reloads under the entry's lock are external, and
modelled as the code relies on them. The host stands for the whole connection form.

## 3. Runs

Passing runs:

| run | question and bounds | states |
|---|---|---|
| `IngestRestart` | one controller, its clock 1 s behind or ahead of Home Assistant's, two readers, 2 events, 2 seconds, windows 0/1, 2 loads, 1 lost connection, 1 crash; refinement of `HikLedger` | 2.3 M |
| `IngestStuck` | a device with a stuck cursor, 3 events, page size 2, cap 2, 1 crash; liveness | 332 k |
| `HistorySums` | 2 backfills, 2 readers, 1 or 2 ids, valid or not, 2 hours, 1 swipe an hour, 1 crash; liveness | 118 k |
| `ClientLife` | two setups, the source's backoff (25 s, 60 s) and limit (2); liveness | 860 |
| `HandshakePacing` | three tasks, interval of 2 ticks, 4 requests; liveness | 6.4 k |
| `MultipartChunks` | up to 3 of 9 kinds of parts, buffer of 9 symbols, 1 lost connection; liveness | 46 k |
| `EntitiesStatus` | 3 slots, 2 doors, 2 changes at the device, 2 setups, 1 event of 6 codes | 1.1 M |
| `EntitiesDay` | 2 readers, 3 cards, cap 2, 2 days, 3 setups, 3 events, 1 crash | 1.6 M |
| `FlowRaces` | 2 flows, 2 hosts, 2 entries, 1 serial number, windows 0/1, 1 swap, 4 forms | 1.0 M |

Why the bounds suffice. `HikIngest`: two events and two seconds give every order of
serial and time, before, in and after a downtime, and an event on the boundary second of
the window. The controller that is a second behind can have an event older than a window
of one second, and one of the second after the load that the search still covers; the one
that is ahead has its last second before the load cut off. Two loads give one restart
(after an unload or a crash). Two readers let each sensor hold a mark of its own. More
controllers appear in a failing run; that `RestartNeverRefires` survives them is proved.
The stuck device needs more pages than the cap allows, and three events so that a page is
neither the whole log nor a single event. `HikHistory`: two hours have a boundary hour
that the second backfill replaces and one it must not touch; two tasks give one overlap;
two readers share an id, have one each, or a valid and an invalid one in either order of
their turns. `HikClient`: the only counters are the backoff, the 401s and the setups, and
each reaches its end value; `rounds` stops at 2 because 25 doubled twice is above 60 (the
definition is exact when `Ceiling <= 4 * Floor`). `HikHandshake`: three tasks give a
holder, a first and a second waiter, and four requests make one of them come again.
`HikMultipart`: with three parts one lies between two others; 9 symbols hold two of the
parts but not three, so the buffer can overflow with and without a boundary in it.
`HikEntities`: three slots, all of them probed, give a disabled reader before or between
enabled ones, and a reader that the probe misses; a cap of 2 takes the second card and
refuses the third. `HikConfigFlow`: one serial number, hosts without one and a swap let
an id be a host or a serial, and change in between; two flows race.

`CHECK_DEADLOCK FALSE` is set where the system may stop: an unloaded entry, or the
end of the bounds. `HandshakePacing` checks deadlock (time always passes). `FlowRaces`
uses the symmetry of the flows, `IngestRestart` that of the readers; neither checks
liveness.

Fairness. `HikIngest`: a request ends with an answer or an error because aiohttp's
default total timeout is five minutes, and the loop runs a task that is ready;
nothing is assumed of the devices, of loads or of crashes. `HikClient`: a ready
task runs, a sleep ends, a handshake ends in time, and Home Assistant completes an
unload it began; no fairness for events or for the end of a connection.
`HikHandshake`: time passes, the lock is handed on, requests end. `HikHistory`: the
executor answers or fails, the loop and the recorder run what is ready (`Read`, `Queue`,
`Commit`); none for backfills or crashes. `HikMultipart`: what was sent arrives and the
loop runs (`Receive`, `Extract`); none for the device.

Runs that are expected to fail. Each checks one sentence of a comment or of the
documentation that the code does not keep; the counterexample is the finding.

| run | sentence | what happens |
|---|---|---|
| `IngestHighWater` | all at or below the mark was ingested (`__init__.py:112`) | event 1 is logged while the entry is down; the live event 2 overtakes the backfill, whose search then fails; the next load's mark is 2 |
| `IngestMasked` | replays what was missed (`__init__.py:90`) | another controller's serial hides it |
| `ClientAuth` | 401s surface `ConfigEntryAuthFailed` (README:167) | a 401 becomes `ConfigEntryNotReady` at setup, and is only logged by the stream task |

More sentences do not hold as they stand. Where a property of a run marks out what
does hold, it is named.

- "a restart neither re-paginates the whole window nor double-counts" (README:104): after
  a crash between the recorder's commit and the restore store the same swipes are
  added again; `ChartCorrect` excludes exactly this and the other causes of `flawed`.
- "a separate external statistic per reader" (README:94): per name; readers of one name
  share it (`Own` in `ChartCorrect`).
- "Lifetime cumulative count of card swipes on this reader" (`sensor.py:121`): swipes of
  the same slot of another controller count too, since `SIGNAL_EVENT` is shared.
- "only dispatches genuinely-new events" (`sensor.py:212`): an event logged after the load
  can be fired live and replayed, if its controller stamped it no later than the end of the
  search. `DoubleFireOnlyAtLoad` states that bound: the second of the load, and n seconds
  more when the controller's clock is n seconds behind Home Assistant's.
- "Replay AcsEvents the controller buffered while HA was down" (`__init__.py:90`): the
  search ends at Home Assistant's time, so of a controller that is n seconds ahead it
  cuts off what was logged in the last n seconds before the load; `DowntimeReplayed`
  leaves these out (`Reached`).
- "what stops a restart from re-firing" (`__init__.py:156`): not for events of no
  enabled reader, which move no mark; `RestartNeverRefires` excludes them.
- "events will resume on next entry reload" (`__init__.py:86`): when the stream ends its
  `finally` closes the session of the poll too, so the entities become unavailable;
  `PollsUntilStreamEnds` states that nothing else does it.
- "one bad chunk must not tear down the stream consumer" (`api/events.py:43`): four kinds
  of parts do, by exceptions that nothing catches; `EndsOnlyForCause` of `HikMultipart`
  says that it is these four and no other (the list is under `HikMultipart` in section
  2).
- "a separate external statistic per reader" (README:94), once more: a reader whose name
  makes an invalid id gets none, and may cost others theirs; `EveryHourStored` marks out
  the rest.
- "grows past max_buffer without ever seeing a boundary" (`api/multipart.py:11`): the
  length is checked before complete parts are taken out, so a burst of them raises too.
- "Two consecutive 401s" (`api/__init__.py:58`): an accepted connection without events
  does not reset the count; `LockoutGuard` is the bound that does hold.
- "keep them MIN_REQUEST_INTERVAL apart" (`api/__init__.py:107`): of probes
  (`ProbesSpaced`), not of the retry that follows each probe at once.
- "stay together" (`api/__init__.py:249`), of a probe and its retry: the lock is released
  before the probe is sent, so another task's probe may come between.
- "distinct cardholders seen today" (`sensor.py:268`): the backfill hands on the events of
  earlier days as well, and the sensor does not look at their time. `OnlyToday` says
  *handed to it* today, of every sensor whose reset has run. A sensor that was constructed
  before midnight and added after it stands on yesterday until the next midnight: it counts
  rightly, but a reload loses its visitors. What is heard between midnight and the callback
  is cleared. `TodayKept` leaves out exactly these two (`early`).
- The door of an event may exceed the door count if an earlier reader is
  disabled: slot 3 alone belongs to door 2 of 1. No property states the rest, which is
  arithmetic.
- A lock status the controller leaves out is padded with 0 and shown as unlocked
  (`api/discovery.py:90`), one that is no number becomes -1 and is shown as locked.
- "promoting to a real serial via reconfigure" (`sensor.py:91`) cannot happen: a
  reconfigure that finds another id than the entry's is refused (`WrongDevice`).
- The reauth step would run the user step, which refuses an id that is already
  configured. No path of the code starts it, as `ClientAuth` shows.

Constants that merely differ between code and text were noted while reading and
need no run: `coordinator.py:20` says 10 s where `const.py` polls every 60 s;
`__init__.py:97` and README:171 say 30 days where `const.py` has 0.

## 4. Proofs

All theorems hold for every value of the constants that satisfies the named
assumptions of the module (naturals, a page size, a limit and a number of hours above 0,
`Floor <= Ceiling`, `NoReader` no reader, `NoTask` no task, no card `NoCard`, hosts and
serial numbers apart, finitely many `Slots`, parts without a boundary whose meaning is
that of their body); those of `HikMarkProofs` assume one controller besides.

`HikIngestProofs`. `TypeCorrect` is an ordinary induction, with lemmas for the
operators (`AdvanceType`, `DeliverType`, `AnswerType`) and for groups of variables.
`NeverRefires` proves `RestartNeverRefires`. The property alone is not inductive.
`RefireInv` adds, for every controller,

- `HighCovers`: while a backfill runs, its high-water mark is at least the serial
  of every restored event of an enabled reader;
- `MarksCover`: a sensor's mark is at least every ingested serial of its reader,
  in memory and in the restore store (so a crash keeps it);
- `RestoredLogged`: what was restored is in the log, and log entries never change;
- `WireIsNew`: what an open connection still carries was sent after the load, so
  it was not among the restored events.

Replay is then harmless by `HighCovers`, live delivery by `WireIsNew`, and `Load`
re-establishes `HighCovers` from `MarksCover`, whatever other controllers' marks are
mixed in: they only raise the maximum. That is also why the same mixing breaks
`DowntimeReplayed` with two controllers.

Its last part speaks of one load. `LoadInv` has three parts: a page holds nothing stamped
later than the end of the search (`PageAt`); a wire is increasing and holds only what was
logged since the load, by the controller's clock (`WireAt`); what the backfill has not
yielded was fired by the stream at most, what is still on the wire by the backfill at
most (`OnceAt`). So an event that is fired twice lies on both sides: logged after the
load, stamped no later than the end of the search (`SecondFire`). `CountInv` relates what
is stored and what is to be stored to the serials counted, from an empty tally through
every page, failure and import (`CountsOnce`). `Steps` reduces each step to one of the
controller at hand, a crash, or a step that does not touch it.

`HikMarkProofs` assumes one controller, because the code mixes the marks of several and
the claims then fail. `OneEventMarks`: `LogOrdered` (a later serial has no earlier time)
makes the two separate comparisons agree; the store needs the same invariant as the
sensors. `DowntimeFired` follows the argument the code relies on: while an entry is down
every mark is below its downtime, also in the store (`OfflineAt`); so the window of the
load holds the downtime, as far as the option reaches (`LoadWindow`); the cursor has
passed only what was yielded or is on the page (`SearchAt`); and an empty page means that
nothing is left, because ranks have no gaps (`Ranks`, `PageSizes`), not even when events
are logged during the search (`MatchesGrow`).

`HikClientProofs`. `ClientInv` says who holds the session: setup, a pending task that
is not cancelled, or a running iterator; a stopped client's task is cancelled or was
never created; and `denials <= authFails`. From it
follow `OpenWhileStreaming`, `NoLeak`, `EndsForCause`, `DenialsBounded` and
`PollingBounded`. `WaitsClimb` needs a second invariant, `Climb`: in every state of the
task, not only in its sleep, the backoff is the floor doubled `rounds` times.

`HikHandshakeProofs`. `HandshakeInv`: the holder of the lock is the one sleeper, its
remaining sleep is at least what the interval asks for, and every nonce held is
unused and at most `issued`. From it follow `ThrottleSpaces` and `FreshChallenges`.
`QueueInv` says that the queue of the lock holds exactly the tasks that wait, each once
(`NoWaiterForgotten`); `WithoutQueues` is what a cancellation takes out of its middle. No
run checks it by that name, but it is the safety part of `ThrottlePasses`, and with it
`HandshakeTypeCorrect` follows.

`HikHistoryProofs`. The running sum `UpTo` is a recursive function of the hour. What it
is for every number of hours is proved by the least hour at which a claim fails
(`LeastNumber`, `NoLeastHour`), first that such a function exists (`RunExists`), then how
sums add, grow and stay (`UpToAdds`, `UpToGrows`, `UpToStays`). `NoRowOvercounts` needs
`CountedOnce`: neither a row, nor a sum in the recorder's queue, nor a base that was read
exceeds what the backfills counted. `ChartIsCorrect` needs the order of things: batches do
not go back in time (`BatchesInOrder`), so what is left of a reader lies in no earlier
hour than what was imported (`ImportsInOrder`), and an import under way is the only one
and continues the whole chart (`OneUnderWay`). Then the rows a commit adds behind the
last one complete the chart (`ChartContinues`).

`HikMultipartProofs`. `FlattenSeq`, a recursive function too, is shown to add one sequence
at a time (`FlatStep`), which gives the place of every part in the stream
(`PartInStream`). `FirstBoundary` and `SecondBoundary` say where `find` ends: at the
beginning of the buffer and at the end of the first part, because no boundary stands
inside a part or begins with its last byte. `ParserInv`: the buffer is what was received
from the end of the last part cut out on, and a parser that waits has cut out all it can.
A chunk, however it is cut, prolongs the buffer (`ReceiveStep`), a turn of the loop cuts
one part off (`CutPart`), whose decoding is what the sender means (`PartMeans`), and a
part that the device sends changes nothing of what was received (`OneMore`).
`YieldsWhatWasSent` follows since the complete parts are the first ones (`CompleteIs`).

The refinement, in `HikIngestProofs` too. `IngestImplementsLedger`: `LedgerStep` maps
each action to a step of the ledger or to a stutter. The guard of `Publish`, that an
event of an enabled reader was not known at the load, is `RefireInv` again: `WireIsNew`
for a live event, `HighCovers` for a replayed one.

`HikEntitiesProofs`. `SensorTypeOK` types the sensors and the two stores and bounds their
days (nothing stands on a day that has not come). `VisitorInv` says of all three (`mem`,
`saved`, `disk`) that what stands on its store's day is among the cards heard that day;
the property alone, about live sensors, is lost by an unload. `ResetDone` gives the same
for whatever day a sensor stands on: before it is added it counts nobody, and from then
on, unless its callback is due, only cards it was handed today. `DataInv` ties the data
to the status it was made from and to the readers probed; `NthRank` (the n-th member of a
set has n - 1 smaller ones) turns the position among the enabled readers into the place
in the dense array. `CountersNeverFall` needs that `disk` is read by a crash only.
`NobodyLost` needs `KeptInv`: the entity of a reader, the state kept for a reader without
an entity, and the store each keep who was heard on the day they stand on (`Held`), up to
the cap, and a midnight callback is due only for an entity that stands on an earlier day.
`OneCategory` compares the three tables of codes, category by category (`CodeCategory`).

`HikConfigFlowProofs`. `Answered` (an id is held exactly from the answer on) types the
flows. `NoReplacement`: Home Assistant's flow manager lets one flow with an id past the
check, and no other action gives an entry that id while it closes. `SettingsCurrent`
follows from `SetupIsCurrent`: during a setup the host in use is the entry's unless a
reload is scheduled. `WindowKept` follows from `FormCurrent`: while a reconfigure flow
asks, the window it has merged is still the entry's; it uses `NoReplacement`, since a
replaced entry would have another window.

Only model-checked: the liveness properties (`BackfillTerminates`, `SessionReleased`,
`ThrottlePasses`, `EveryHourStored`, `NextPartReleases`), because the prover has no
fairness or `ENABLED`. Every invariant, action property and refinement of a passing run
is proved. The library's induction theorems take an operator as a parameter, which no
installed prover can instantiate; hence the inductions by a least counterexample.

## 5. Not modelled

- A backfill that is still replaying when its entry has been loaded again: `HikIngest`
  loads an entry only when its previous backfill has ended.
- One model of client and ingestion together, with the client's own steps in place of
  `Connect`, `Drop` and `FetchFails`: their product with two stores and a pager is out of
  TLC's reach at bounds where both matter.
- Items of an AcsEvent page without a serial number, a readable type or a time
  (`api/backfill.py:34-50`, `__init__.py:168`): `replay_page` drops the first two, and the
  statistic the last; the model's device answers in full.
- Clocks that drift or are set while the system runs: `HikIngest` has a fixed difference
  for each controller.
- Readers that change from load to load in `HikIngest`: `HikEntities` has setups that
  miss a reader, and keeps what its sensors knew.
- A page that holds the same item twice: a page of `HikIngest` is a set. Repetition from
  page to page is modelled (`StuckCursor`).
- An unload that Home Assistant refuses (`async_unload_platforms` returns false): nothing
  is stopped and the entry goes on as it was.
- LastEvent (`sensor.py:68-117`): its state is the last payload, not restored, read by
  nothing. Diagnostics: a redacted snapshot.
- The MD5 arithmetic and header grammar of `digest.py`, XML and JSON decoding, labels and
  texts, form schemas: stateless conversions that unit tests reach.
- The device registry, entity ids and unique ids: written once, never read back.

## 6. Plan

1. Two overlapping backfills of one entry in `HikIngest`.
2. Malformed items of a page.
3. An abstract specification of the statistics (one chart per id) that `HikHistory`
   implements where no cause of a flaw has occurred.
