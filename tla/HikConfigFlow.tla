------------------------------ MODULE HikConfigFlow ------------------------------
(***************************************************************************)
(* The config flows: entries are created, pointed at another host and given *)
(* options while other flows, setups and reloads of the same entry run.     *)
(* A flow asks the device who it is and decides on the answer.              *)
(*                                                                          *)
(* What Home Assistant's flow manager does (flows in progress, replacing an *)
(* entry of the same unique id, reloads under the entry's lock) is external *)
(* code, modelled as this integration relies on it.                         *)
(***************************************************************************)
EXTENDS Naturals, FiniteSets

CONSTANTS
    Hosts, Serials,
    NoSerial,       \* the device sends no serial_number
    NoId,           \* no entry, or nothing answered yet
    Flows, Entries,
    Days,           \* values of backfill_days
    Unset,          \* no options saved
    DefaultDays,    \* DEFAULT_BACKFILL_DAYS
    MaxSwaps,       \* bound: times another device answers at a host
    MaxSubmits      \* bound: forms submitted

ASSUME ValuesAssumption ==
    /\ NoSerial \notin Serials /\ NoId \notin Hosts \cup Serials /\ Unset \notin Days
    /\ DefaultDays \in Days /\ Hosts \cap Serials = {}
    /\ Hosts # {} /\ Entries # {}

Ids == Hosts \cup Serials

VARIABLES
    at,         \* at[h]: serial number of the device at host h
    flow,       \* flow[f]: [step, pc, host, days, entry, id]
    uid,        \* uid[e]: unique_id, NoId when there is no such entry
    data,       \* data[e]: [host, days], entry.data
    options,    \* options[e]: backfill_days of entry.options
    state,      \* state[e]: "none", "setup", "loaded" or "retry"
    reload,     \* reload[e]: a reload of the entry is scheduled
    used,       \* used[e]: the data and window the running setup was built from
    swaps, submits,
    answered    \* answered[e]: who answered when the host in data was checked

entryVars == <<uid, data, options, state, reload, used, answered>>
vars == <<at, flow, entryVars, swaps, submits>>

SomeHost  == CHOOSE h \in Hosts : TRUE
Blank     == [host |-> SomeHost, days |-> DefaultDays]
Idle      == [step |-> "user", pc |-> "idle", host |-> SomeHost, days |-> DefaultDays,
              entry |-> CHOOSE e \in Entries : TRUE, id |-> NoId]
Existing  == {e \in Entries : uid[e] # NoId}

Init ==
    /\ at \in [Hosts -> Serials \cup {NoSerial}]
    /\ flow = [f \in Flows |-> Idle]
    /\ uid = [e \in Entries |-> NoId]
    /\ data = [e \in Entries |-> Blank]
    /\ options = [e \in Entries |-> Unset]
    /\ state = [e \in Entries |-> "none"]
    /\ reload = [e \in Entries |-> FALSE]
    /\ used = [e \in Entries |-> Blank]
    /\ answered = [e \in Entries |-> NoId]
    /\ swaps = 0 /\ submits = 0

\* Devices are replaced, readdressed, updated.
Swap(h) ==
    /\ swaps < MaxSwaps
    /\ swaps' = swaps + 1
    /\ \E s \in Serials \cup {NoSerial} : s # at[h] /\ at' = [at EXCEPT ![h] = s]
    /\ UNCHANGED <<flow, entryVars, submits>>

-----------------------------------------------------------------------------
(* Asking the device, in async_step_user and async_step_reconfigure. *)

\* A slip: only what the form has is kept.
MergedForm(e, h) == [host |-> h, days |-> DefaultDays]

\* entry.data overlaid with the connection form, which has no backfill_days.
Merged(e, h) == [data[e] EXCEPT !.host = h]

SubmitUser(f) ==
    /\ flow[f].pc = "idle" /\ submits < MaxSubmits
    /\ submits' = submits + 1
    /\ \E h \in Hosts, d \in Days :
          flow' = [flow EXCEPT ![f] =
                      [Idle EXCEPT !.pc = "asking", !.host = h, !.days = d]]
    /\ UNCHANGED <<at, entryVars, swaps>>

SubmitReconfigure(f) ==
    /\ flow[f].pc = "idle" /\ submits < MaxSubmits
    /\ submits' = submits + 1
    /\ \E h \in Hosts, e \in Existing :
          flow' = [flow EXCEPT ![f] =
                      [step |-> "reconfigure", pc |-> "asking", entry |-> e, id |-> NoId,
                       host |-> Merged(e, h).host, days |-> Merged(e, h).days]]
    /\ UNCHANGED <<at, entryVars, swaps>>

\* A slip: no id for a device that sends none.
IdentitySerial(h) == at[h]

\* serial_number, or the host for a device without one.
Identity(h) == IF at[h] = NoSerial THEN h ELSE at[h]

\* get_device_info is answered; the flow goes on later.
DeviceAnswers(f) ==
    /\ flow[f].pc = "asking"
    /\ flow' = [flow EXCEPT ![f].pc = "answered", ![f].id = Identity(flow[f].host)]
    /\ UNCHANGED <<at, entryVars, swaps, submits>>

\* Any error shows the form again.
AskingFails(f) ==
    /\ flow[f].pc = "asking"
    /\ flow' = [flow EXCEPT ![f] = Idle]
    /\ UNCHANGED <<at, entryVars, swaps, submits>>

-----------------------------------------------------------------------------
(* A new entry. *)

InProgress(f) == \E g \in Flows \ {f} : flow[g].pc = "closing" /\ flow[g].id = flow[f].id

\* A slip: _abort_if_unique_id_configured is not called.
RefusedInProgress(f) == InProgress(f)

\* async_set_unique_id and _abort_if_unique_id_configured.
Refused(f) == InProgress(f) \/ \E e \in Existing : uid[e] = flow[f].id

\* The decision; then the finally clause awaits client.stop().
DecideUser(f) ==
    /\ flow[f].step = "user" /\ flow[f].pc = "answered"
    /\ flow' = [flow EXCEPT ![f] = IF Refused(f) THEN Idle ELSE [@ EXCEPT !.pc = "closing"]]
    /\ UNCHANGED <<at, entryVars, swaps, submits>>

\* The flow manager adds the entry, in place of one with the same id.
CreateEntry(f) ==
    /\ flow[f].pc = "closing"
    /\ flow' = [flow EXCEPT ![f] = Idle]
    /\ \E e \in Entries :
          LET new == [host |-> flow[f].host, days |-> flow[f].days]
              old == {o \in Existing : uid[o] = flow[f].id}
          IN
          /\ IF old = {} THEN uid[e] = NoId ELSE e \in old
          /\ uid' = [uid EXCEPT ![e] = flow[f].id]
          /\ answered' = [answered EXCEPT ![e] = flow[f].id]
          /\ data' = [data EXCEPT ![e] = new]
          /\ options' = [options EXCEPT ![e] = Unset]
          /\ state' = [state EXCEPT ![e] = "setup"]
          /\ reload' = [reload EXCEPT ![e] = FALSE]
          /\ used' = [used EXCEPT ![e] = new]
    /\ UNCHANGED <<at, swaps, submits>>

-----------------------------------------------------------------------------
(* An existing entry. *)

\* A slip: a device that sends no serial number is not compared.
WrongSerial(f) == flow[f].id \in Serials /\ flow[f].id # uid[flow[f].entry]

WrongDevice(f) == flow[f].id # uid[flow[f].entry]

\* The update listener is added at the end of setup.
Listener(e) == state[e] = "loaded"

\* async_update_reload_and_abort reloads in any state; the listener a second time.
DecideReconfigure(f) ==
    LET e == flow[f].entry IN
    /\ flow[f].step = "reconfigure" /\ flow[f].pc = "answered"
    /\ flow' = [flow EXCEPT ![f] = Idle]
    /\ IF WrongDevice(f)
       THEN UNCHANGED <<data, answered, reload>>
       ELSE /\ data' = [data EXCEPT ![e] = [host |-> flow[f].host, days |-> flow[f].days]]
            /\ answered' = [answered EXCEPT ![e] = flow[f].id]
            /\ reload' = [reload EXCEPT ![e] = TRUE]
    /\ UNCHANGED <<at, uid, options, state, used, swaps, submits>>

\* OptionsFlowHandler; only a change calls the listener.
SaveOptions(e) ==
    /\ e \in Existing /\ submits < MaxSubmits
    /\ submits' = submits + 1
    /\ \E d \in Days :
          /\ options' = [options EXCEPT ![e] = d]
          /\ reload' = [reload EXCEPT ![e] = @ \/ (d # options[e] /\ Listener(e))]
    /\ UNCHANGED <<at, flow, uid, data, state, used, answered, swaps>>

\* The flow manager ends the flows of an entry that is removed.
Remove(e) ==
    /\ e \in Existing /\ state[e] # "setup"
    /\ uid' = [uid EXCEPT ![e] = NoId]
    /\ state' = [state EXCEPT ![e] = "none"]
    /\ data' = [data EXCEPT ![e] = Blank]
    /\ options' = [options EXCEPT ![e] = Unset]
    /\ reload' = [reload EXCEPT ![e] = FALSE]
    /\ used' = [used EXCEPT ![e] = Blank]
    /\ answered' = [answered EXCEPT ![e] = NoId]
    /\ flow' = [f \in Flows |->
                   IF flow[f].step = "reconfigure" /\ flow[f].entry = e THEN Idle ELSE flow[f]]
    /\ UNCHANGED <<at, swaps, submits>>

-----------------------------------------------------------------------------
(* Setup of the entry, as far as it reads the entry's data and options. *)

\* A slip: 0, "no backfill", is taken for "not set".
WindowOr(e) == IF options[e] \in {Unset, 0} THEN data[e].days ELSE options[e]

\* The option, or else what the entry was created with.
Window(e) == IF options[e] = Unset THEN data[e].days ELSE options[e]

\* The client is built from entry.data at the beginning of setup ...
BeginSetup(e) ==
    /\ \/ state[e] = "retry"
       \/ state[e] = "loaded" /\ reload[e]
    /\ state' = [state EXCEPT ![e] = "setup"]
    /\ reload' = [reload EXCEPT ![e] = FALSE]
    /\ used' = [used EXCEPT ![e].host = data[e].host]
    /\ UNCHANGED <<at, flow, uid, data, options, answered, swaps, submits>>

\* ... and the window is read at its end, when the backfill task starts.
FinishSetup(e) ==
    /\ state[e] = "setup"
    /\ state' = [state EXCEPT ![e] = "loaded"]
    /\ used' = [used EXCEPT ![e].days = Window(e)]
    /\ UNCHANGED <<at, flow, uid, data, options, reload, answered, swaps, submits>>

SetupFails(e) ==
    /\ state[e] = "setup"
    /\ state' = [state EXCEPT ![e] = "retry"]
    /\ UNCHANGED <<at, flow, uid, data, options, reload, used, answered, swaps, submits>>

Next ==
    \/ \E h \in Hosts : Swap(h)
    \/ \E f \in Flows : \/ SubmitUser(f) \/ SubmitReconfigure(f)
                        \/ DeviceAnswers(f) \/ AskingFails(f)
                        \/ DecideUser(f) \/ CreateEntry(f) \/ DecideReconfigure(f)
    \/ \E e \in Entries : \/ SaveOptions(e) \/ Remove(e)
                          \/ BeginSetup(e) \/ FinishSetup(e) \/ SetupFails(e)

Spec == Init /\ [][Next]_vars
-----------------------------------------------------------------------------
(* Properties. *)

\* Every variable holds a value of its kind; what does not exist has no state.
TypeOK ==
    /\ at \in [Hosts -> Serials \cup {NoSerial}]
    /\ flow \in [Flows -> [step : {"user", "reconfigure"}, host : Hosts, days : Days,
                           pc : {"idle", "asking", "answered", "closing"},
                           entry : Entries, id : Ids \cup {NoId}]]
    /\ uid \in [Entries -> Ids \cup {NoId}]
    /\ data \in [Entries -> [host : Hosts, days : Days]]
    /\ options \in [Entries -> Days \cup {Unset}]
    /\ state \in [Entries -> {"none", "setup", "loaded", "retry"}]
    /\ reload \in [Entries -> BOOLEAN]
    /\ used \in [Entries -> [host : Hosts, days : Days]]
    /\ answered \in [Entries -> Ids \cup {NoId}]
    /\ \A e \in Entries : uid[e] = NoId <=> state[e] = "none"

\* Two flows that add one controller at a time: an entry, with its entities, is
\* never replaced by another one, although client.stop() is awaited between the
\* check of the unique id and the creation of the entry.
NoEntryReplaced ==
    \A f \in Flows : flow[f].pc = "closing" =>
        /\ \A e \in Existing : uid[e] # flow[f].id
        /\ \A g \in Flows \ {f} : flow[g].pc = "closing" => flow[g].id # flow[f].id

\* "the unique_id is locked to the original device's serial": the device that
\* answered when the host in an entry's data was checked is the entry's own,
\* whatever other flows did meanwhile.
BoundToOwnDevice == \A e \in Existing : answered[e] = uid[e]

\* "Reload the entry when options change so the new backfill window applies": a
\* loaded entry without a scheduled reload runs on its present host and window,
\* also when they were changed while a setup was under way.
SettingsApplied ==
    \A e \in Existing :
        state[e] = "loaded" /\ ~reload[e] =>
            used[e] = [host |-> data[e].host,
                       days |-> IF options[e] \in Days THEN options[e] ELSE data[e].days]

\* A reconfiguration changes the connection, never the backfill window.
ReconfigureKeepsWindow ==
    [][\A f \in Flows : DecideReconfigure(f) =>
          data'[flow[f].entry].days = data[flow[f].entry].days]_vars
=============================================================================
