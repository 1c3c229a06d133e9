-------------------------- MODULE HikConfigFlowProofs --------------------------
(***************************************************************************)
(* Proofs about HikConfigFlow, for every set of hosts, serial numbers,      *)
(* flows and entries and every bound: entries are not replaced, stay bound  *)
(* to their own device, and run on their present settings.                  *)
(***************************************************************************)
EXTENDS HikConfigFlow, TLAPS

USE DEF entryVars

Flow == [step : {"user", "reconfigure"}, host : Hosts, days : Days,
         pc : {"idle", "asking", "answered", "closing"},
         entry : Entries, id : Ids \cup {NoId}]

-----------------------------------------------------------------------------
(* Types. *)

\* A flow that has ended, and what a device answers.
LEMMA ValueTypes ==
    /\ Idle \in Flow /\ Idle.pc = "idle"
    /\ Blank \in [host : Hosts, days : Days]
    /\ NoId \notin Ids
    /\ at \in [Hosts -> Serials \cup {NoSerial}] => \A h \in Hosts : Identity(h) \in Ids
<1>1. SomeHost \in Hosts /\ (CHOOSE e \in Entries : TRUE) \in Entries
    BY ValuesAssumption DEF SomeHost
<1> QED
    BY <1>1, ValuesAssumption DEF Idle, Flow, Blank, Ids, Identity

LEMMA FlowTypeStep ==
    ASSUME TypeOK, [Next]_vars
    PROVE  flow' \in [Flows -> Flow]
<1>1. flow \in [Flows -> Flow]
    BY DEF TypeOK, Flow
<1>2. ASSUME NEW f \in Flows, NEW g \in Flow, flow' = [flow EXCEPT ![f] = g]
      PROVE  flow' \in [Flows -> Flow]
    BY <1>1, <1>2
<1>3. ASSUME NEW f \in Flows, SubmitUser(f) PROVE flow' \in [Flows -> Flow]
    <2>1. PICK h \in Hosts, d \in Days :
              flow' = [flow EXCEPT ![f] = [Idle EXCEPT !.pc = "asking", !.host = h, !.days = d]]
        BY <1>3 DEF SubmitUser
    <2>2. [Idle EXCEPT !.pc = "asking", !.host = h, !.days = d] \in Flow
        BY ValueTypes DEF Flow
    <2> QED
        BY <1>2, <2>1, <2>2
<1>4. ASSUME NEW f \in Flows, SubmitReconfigure(f) PROVE flow' \in [Flows -> Flow]
    <2>1. PICK h \in Hosts, e \in Entries :
              flow' = [flow EXCEPT ![f] =
                          [step |-> "reconfigure", pc |-> "asking", entry |-> e, id |-> NoId,
                           host |-> Merged(e, h).host, days |-> Merged(e, h).days]]
        BY <1>4 DEF SubmitReconfigure, Existing
    <2>2. Merged(e, h) \in [host : Hosts, days : Days]
        BY SMTT(30) DEF Merged, TypeOK
    <2>3. [step |-> "reconfigure", pc |-> "asking", entry |-> e, id |-> NoId,
           host |-> Merged(e, h).host, days |-> Merged(e, h).days] \in Flow
        BY <2>2 DEF Flow
    <2> QED
        BY <1>2, <2>1, <2>3
<1>5. ASSUME NEW f \in Flows, DeviceAnswers(f) PROVE flow' \in [Flows -> Flow]
    <2>1. Identity(flow[f].host) \in Ids
        BY <1>1, ValueTypes DEF TypeOK, Flow
    <2> QED
        BY <1>1, <1>5, <2>1, ZenonT(40) DEF DeviceAnswers, Flow
<1>6. ASSUME NEW f \in Flows, AskingFails(f) \/ CreateEntry(f) \/ DecideReconfigure(f)
      PROVE  flow' \in [Flows -> Flow]
    BY <1>2, <1>6, ValueTypes DEF AskingFails, CreateEntry, DecideReconfigure
<1>7. ASSUME NEW f \in Flows, DecideUser(f) PROVE flow' \in [Flows -> Flow]
    <2>1. [flow[f] EXCEPT !.pc = "closing"] \in Flow
        BY <1>1 DEF Flow
    <2> QED
        BY <1>1, <1>7, <2>1, ValueTypes DEF DecideUser
<1>8. ASSUME NEW e \in Entries, Remove(e) PROVE flow' \in [Flows -> Flow]
    BY <1>1, <1>8, ValueTypes DEF Remove
<1>9. CASE UNCHANGED flow
    BY <1>1, <1>9
<1> QED
    BY <1>3, <1>4, <1>5, <1>6, <1>7, <1>8, <1>9
       DEF Next, vars, Swap, SaveOptions, BeginSetup, FinishSetup, SetupFails

\* What CreateEntry picks: the entry, and the data it gets.
LEMMA Created ==
    ASSUME TypeOK, NEW f \in Flows, CreateEntry(f)
    PROVE  \E e \in Entries :
               /\ \/ uid[e] = NoId /\ \A o \in Existing : uid[o] # flow[f].id
                  \/ uid[e] = flow[f].id /\ e \in Existing
               /\ uid' = [uid EXCEPT ![e] = flow[f].id]
               /\ answered' = [answered EXCEPT ![e] = flow[f].id]
               /\ data' = [data EXCEPT ![e] = [host |-> flow[f].host, days |-> flow[f].days]]
               /\ options' = [options EXCEPT ![e] = Unset]
               /\ state' = [state EXCEPT ![e] = "setup"]
               /\ reload' = [reload EXCEPT ![e] = FALSE]
               /\ used' = [used EXCEPT ![e] = [host |-> flow[f].host, days |-> flow[f].days]]
BY DEF CreateEntry

\* A form that was submitted is asking.
LEMMA Submitted ==
    ASSUME TypeOK, NEW f \in Flows, SubmitUser(f) \/ SubmitReconfigure(f)
    PROVE  flow'[f].pc = "asking"
<1>1. flow \in [Flows -> Flow]
    BY DEF TypeOK, Flow
<1>2. CASE SubmitUser(f)
    <2>1. PICK h \in Hosts, d \in Days :
              flow' = [flow EXCEPT ![f] =
                          [Idle EXCEPT !.pc = "asking", !.host = h, !.days = d]]
        BY <1>2 DEF SubmitUser
    <2>2. [Idle EXCEPT !.pc = "asking", !.host = h, !.days = d].pc = "asking"
        BY ValueTypes DEF Flow
    <2> QED
        BY <1>1, <2>1, <2>2
<1>3. CASE SubmitReconfigure(f)
    BY <1>1, <1>3 DEF SubmitReconfigure
<1> QED
    BY <1>2, <1>3

Answered == \A f \in Flows : flow[f].pc \in {"answered", "closing"} => flow[f].id \in Ids

\* Once the device has answered, a flow holds an id.
LEMMA AnsweredStep ==
    ASSUME TypeOK, Answered, [Next]_vars
    PROVE  Answered'
<1>1. flow \in [Flows -> Flow]
    BY DEF TypeOK, Flow
<1>2. ASSUME NEW f \in Flows, SubmitUser(f) \/ SubmitReconfigure(f) PROVE Answered'
    <2>1. \A g \in Flows \ {f} : flow'[g] = flow[g]
        BY <1>1, <1>2 DEF SubmitUser, SubmitReconfigure
    <2>2. flow'[f].pc = "asking"
        BY <1>2, Submitted
    <2> QED
        BY <2>1, <2>2 DEF Answered
<1>3. ASSUME NEW f \in Flows, DeviceAnswers(f) PROVE Answered'
    <2>1. \A g \in Flows \ {f} : flow'[g] = flow[g]
        BY <1>1, <1>3 DEF DeviceAnswers
    <2>2. flow'[f].id = Identity(flow[f].host) /\ flow[f].host \in Hosts
        BY <1>1, <1>3 DEF DeviceAnswers, Flow
    <2> QED
        BY <2>1, <2>2, ValueTypes DEF Answered, TypeOK
<1>4. ASSUME NEW f \in Flows, AskingFails(f) \/ CreateEntry(f) \/ DecideReconfigure(f)
      PROVE  Answered'
    BY <1>1, <1>4, ValueTypes DEF AskingFails, CreateEntry, DecideReconfigure, Answered
<1>5. ASSUME NEW f \in Flows, DecideUser(f) PROVE Answered'
    BY <1>1, <1>5, ValueTypes DEF DecideUser, Answered, Flow
<1>6. ASSUME NEW e \in Entries, Remove(e) PROVE Answered'
    BY <1>1, <1>6, ValueTypes DEF Remove, Answered
<1>7. CASE UNCHANGED flow
    BY <1>7 DEF Answered
<1> QED
    BY <1>2, <1>3, <1>4, <1>5, <1>6, <1>7
       DEF Next, vars, Swap, SaveOptions, BeginSetup, FinishSetup, SetupFails

EntryTypeOK ==
    /\ uid \in [Entries -> Ids \cup {NoId}]
    /\ data \in [Entries -> [host : Hosts, days : Days]]
    /\ options \in [Entries -> Days \cup {Unset}]
    /\ state \in [Entries -> {"none", "setup", "loaded", "retry"}]
    /\ reload \in [Entries -> BOOLEAN]
    /\ used \in [Entries -> [host : Hosts, days : Days]]
    /\ answered \in [Entries -> Ids \cup {NoId}]
    /\ \A e \in Entries : uid[e] = NoId <=> state[e] = "none"

LEMMA EntryTypeStep == TypeOK /\ Answered /\ [Next]_vars => EntryTypeOK'
<1> SUFFICES ASSUME TypeOK, Answered, [Next]_vars PROVE EntryTypeOK'
    OBVIOUS
<1> USE DEF TypeOK, EntryTypeOK
<1>1. ASSUME NEW f \in Flows, CreateEntry(f) PROVE EntryTypeOK'
    <2>1. flow[f].id \in Ids /\ flow[f].id # NoId
        BY <1>1, ValueTypes DEF CreateEntry, Answered
    <2>2. [host |-> flow[f].host, days |-> flow[f].days] \in [host : Hosts, days : Days]
        OBVIOUS
    <2>3. PICK e \in Entries :
              /\ uid' = [uid EXCEPT ![e] = flow[f].id]
              /\ answered' = [answered EXCEPT ![e] = flow[f].id]
              /\ data' = [data EXCEPT ![e] = [host |-> flow[f].host, days |-> flow[f].days]]
              /\ options' = [options EXCEPT ![e] = Unset]
              /\ state' = [state EXCEPT ![e] = "setup"]
              /\ reload' = [reload EXCEPT ![e] = FALSE]
              /\ used' = [used EXCEPT ![e] = [host |-> flow[f].host, days |-> flow[f].days]]
        BY <1>1, Created
    <2>4. /\ uid' \in [Entries -> Ids \cup {NoId}]
          /\ answered' \in [Entries -> Ids \cup {NoId}]
          /\ data' \in [Entries -> [host : Hosts, days : Days]]
          /\ used' \in [Entries -> [host : Hosts, days : Days]]
        BY <2>1, <2>2, <2>3
    <2>5. /\ options' \in [Entries -> Days \cup {Unset}]
          /\ state' \in [Entries -> {"none", "setup", "loaded", "retry"}]
          /\ reload' \in [Entries -> BOOLEAN]
        BY <2>3
    <2>6. \A o \in Entries : uid'[o] = NoId <=> state'[o] = "none"
        BY <2>1, <2>3
    <2> QED
        BY <2>4, <2>5, <2>6
<1>2. ASSUME NEW f \in Flows, DecideReconfigure(f) PROVE EntryTypeOK'
    <2>1. /\ [host |-> flow[f].host, days |-> flow[f].days] \in [host : Hosts, days : Days]
          /\ flow[f].entry \in Entries /\ flow[f].id \in Ids \cup {NoId}
        OBVIOUS
    <2> QED
        BY <1>2, <2>1, ZenonT(40) DEF DecideReconfigure
<1>3. ASSUME NEW e \in Entries, Remove(e) PROVE EntryTypeOK'
    BY <1>3, ValueTypes DEF Remove
<1>4. ASSUME NEW e \in Entries, SaveOptions(e) PROVE EntryTypeOK'
    <2>1. PICK d \in Days : /\ options' = [options EXCEPT ![e] = d]
                            /\ reload' = [reload EXCEPT ![e] =
                                             @ \/ (d # options[e] /\ Listener(e))]
        BY <1>4 DEF SaveOptions
    <2> QED
        BY <1>4, <2>1 DEF SaveOptions
<1>5. ASSUME NEW e \in Entries, BeginSetup(e) PROVE EntryTypeOK'
    BY <1>5 DEF BeginSetup
<1>6. ASSUME NEW e \in Entries, FinishSetup(e) PROVE EntryTypeOK'
    <2>1. Window(e) \in Days
        BY DEF Window
    <2> QED
        BY <1>6, <2>1 DEF FinishSetup
<1>7. ASSUME NEW e \in Entries, SetupFails(e) PROVE EntryTypeOK'
    BY <1>7 DEF SetupFails
<1>8. CASE UNCHANGED entryVars
    BY <1>8
<1> QED
    BY <1>1, <1>2, <1>3, <1>4, <1>5, <1>6, <1>7, <1>8
       DEF Next, vars, Swap, SubmitUser, SubmitReconfigure, DeviceAnswers, AskingFails,
           DecideUser

\* Every variable holds a value of its kind, an entry has a state exactly when it
\* exists, and a flow whose device has answered knows an id.
LEMMA Types == Spec => [](TypeOK /\ Answered)
<1>1. Init => TypeOK /\ Answered
    BY ValueTypes DEF Init, TypeOK, Answered, Flow
<1>2. TypeOK /\ Answered /\ [Next]_vars => TypeOK' /\ Answered'
    <2> SUFFICES ASSUME TypeOK, Answered, [Next]_vars PROVE TypeOK' /\ Answered'
        OBVIOUS
    <2>1. at' \in [Hosts -> Serials \cup {NoSerial}]
        BY DEF TypeOK, Next, vars, Swap, SubmitUser, SubmitReconfigure, DeviceAnswers,
               AskingFails, DecideUser, CreateEntry, DecideReconfigure, SaveOptions,
               Remove, BeginSetup, FinishSetup, SetupFails
    <2> QED
        BY <2>1, FlowTypeStep, EntryTypeStep, AnsweredStep DEF TypeOK, EntryTypeOK, Flow
<1> QED
    BY <1>1, <1>2, PTL DEF Spec

\* Every variable holds a value of its kind, and an entry has a state exactly when
\* it exists.
THEOREM FlowTypeCorrect == Spec => []TypeOK
BY Types, PTL

-----------------------------------------------------------------------------
(* Entries are not replaced, and stay bound to their device. *)

\* A step of one flow that touches no entry: the flow must be past no check, or have
\* an id of its own.
LEMMA StaysApart ==
    ASSUME NoEntryReplaced, UNCHANGED uid, NEW f \in Flows,
           \A g \in Flows \ {f} : flow'[g] = flow[g],
           \/ flow'[f].pc # "closing"
           \/ /\ flow'[f].id = flow[f].id
              /\ \A e \in Existing : uid[e] # flow[f].id
              /\ \A g \in Flows \ {f} : flow[g].pc = "closing" => flow[g].id # flow[f].id
    PROVE  NoEntryReplaced'
<1>1. Existing' = Existing
    BY DEF Existing
<1>2. ASSUME NEW g \in Flows, flow'[g].pc = "closing"
      PROVE  /\ \A e \in Existing : uid[e] # flow'[g].id
             /\ \A h \in Flows \ {g} : flow'[h].pc = "closing" => flow'[h].id # flow'[g].id
    <2>1. CASE g = f
        BY <1>2, <2>1
    <2>2. CASE g # f
        BY <1>2, <2>2 DEF NoEntryReplaced
    <2> QED
        BY <2>1, <2>2
<1> QED
    BY <1>1, <1>2 DEF NoEntryReplaced

\* The two facts hold together: an entry is created only by a flow that passed the
\* check, and every flow that is past it has an id of its own.
LEMMA ReplacedStep ==
    ASSUME TypeOK, Answered, NoEntryReplaced, [Next]_vars
    PROVE  NoEntryReplaced'
<1> USE DEF TypeOK
<1>1. flow \in [Flows -> Flow] /\ flow' \in [Flows -> Flow]
    BY FlowTypeStep DEF Flow
<1>2. ASSUME NEW f \in Flows, DecideUser(f) PROVE NoEntryReplaced'
    <2>1. UNCHANGED uid
        BY <1>2 DEF DecideUser
    <2>2. CASE Refused(f)
        <3>1. flow' = [flow EXCEPT ![f] = Idle]
            BY <1>2, <2>2 DEF DecideUser
        <3> QED
            BY <1>1, <2>1, <3>1, ValueTypes DEF NoEntryReplaced, Existing
    <2>3. CASE ~Refused(f)
        <3>1. flow' = [flow EXCEPT ![f] = [@ EXCEPT !.pc = "closing"]]
            BY <1>2, <2>3 DEF DecideUser
        <3>2. flow'[f].id = flow[f].id /\ \A g \in Flows \ {f} : flow'[g] = flow[g]
            BY <1>1, <3>1 DEF Flow
        <3>3. /\ \A e \in Existing : uid[e] # flow[f].id
              /\ \A g \in Flows \ {f} : flow[g].pc = "closing" => flow[g].id # flow[f].id
            BY <2>3 DEF Refused, InProgress
        <3> QED
            BY <2>1, <3>2, <3>3, StaysApart
    <2> QED
        BY <2>2, <2>3
<1>3. ASSUME NEW f \in Flows, CreateEntry(f) PROVE NoEntryReplaced'
    <2>1. PICK e \in Entries : uid' = [uid EXCEPT ![e] = flow[f].id]
        BY <1>3, Created
    <2>2. flow[f].pc = "closing" /\ flow' = [flow EXCEPT ![f] = Idle]
        BY <1>3 DEF CreateEntry
    <2>3. ASSUME NEW g \in Flows, flow'[g].pc = "closing"
          PROVE  /\ g # f /\ flow'[g] = flow[g]
                 /\ \A o \in Existing' : uid'[o] # flow[g].id
        <3>1. g # f /\ flow'[g] = flow[g]
            BY <1>1, <2>2, <2>3, ValueTypes
        <3>2. flow[g].id # flow[f].id /\ \A o \in Existing : uid[o] # flow[g].id
            BY <2>2, <2>3, <3>1 DEF NoEntryReplaced
        <3> QED
            BY <2>1, <3>1, <3>2 DEF Existing
    <2> QED
        BY <2>3 DEF NoEntryReplaced
<1>4. ASSUME NEW f \in Flows,
             SubmitUser(f) \/ SubmitReconfigure(f) \/ DeviceAnswers(f) \/ AskingFails(f)
                 \/ DecideReconfigure(f)
      PROVE  NoEntryReplaced'
    <2>1. UNCHANGED uid /\ \A g \in Flows \ {f} : flow'[g] = flow[g]
        BY <1>1, <1>4
           DEF SubmitUser, SubmitReconfigure, DeviceAnswers, AskingFails, DecideReconfigure
    <2>2. flow'[f].pc # "closing"
        <3>1. CASE SubmitUser(f) \/ SubmitReconfigure(f)
            BY <3>1, Submitted
        <3>2. CASE DeviceAnswers(f)
            BY <1>1, <3>2 DEF DeviceAnswers, Flow
        <3>3. CASE AskingFails(f) \/ DecideReconfigure(f)
            BY <1>1, <3>3, ValueTypes DEF AskingFails, DecideReconfigure
        <3> QED
            BY <1>4, <3>1, <3>2, <3>3
    <2> QED
        BY <2>1, <2>2, StaysApart
<1>5. ASSUME NEW e \in Entries, Remove(e) PROVE NoEntryReplaced'
    BY <1>1, <1>5, ValueTypes DEF Remove, NoEntryReplaced, Existing
<1>6. CASE UNCHANGED <<flow, uid>>
    BY <1>6 DEF NoEntryReplaced, Existing
<1> QED
    BY <1>2, <1>3, <1>4, <1>5, <1>6
       DEF Next, vars, Swap, SaveOptions, BeginSetup, FinishSetup, SetupFails

\* Two flows that add the same controller, or add one that is already there: no
\* entry takes the place of another, for any number of flows.
THEOREM NoReplacement == Spec => []NoEntryReplaced
<1>1. Init => NoEntryReplaced
    BY ValueTypes DEF Init, NoEntryReplaced
<1> QED
    BY <1>1, Types, ReplacedStep, PTL DEF Spec

LEMMA BoundStep ==
    ASSUME TypeOK, Answered, BoundToOwnDevice, [Next]_vars
    PROVE  BoundToOwnDevice'
<1> USE DEF TypeOK
<1>1. ASSUME NEW f \in Flows, CreateEntry(f) PROVE BoundToOwnDevice'
    <2>1. PICK e \in Entries : /\ uid' = [uid EXCEPT ![e] = flow[f].id]
                               /\ answered' = [answered EXCEPT ![e] = flow[f].id]
        BY <1>1, Created
    <2> QED
        BY <2>1 DEF BoundToOwnDevice, Existing
<1>2. ASSUME NEW f \in Flows, DecideReconfigure(f) PROVE BoundToOwnDevice'
    <2>1. UNCHANGED uid
        BY <1>2 DEF DecideReconfigure
    <2>2. CASE WrongDevice(f)
        BY <1>2, <2>1, <2>2 DEF DecideReconfigure, BoundToOwnDevice, Existing
    <2>3. CASE ~WrongDevice(f)
        BY <1>2, <2>1, <2>3
           DEF DecideReconfigure, WrongDevice, BoundToOwnDevice, Existing
    <2> QED
        BY <2>2, <2>3
<1>3. ASSUME NEW e \in Entries, Remove(e) PROVE BoundToOwnDevice'
    BY <1>3 DEF Remove, BoundToOwnDevice, Existing
<1>4. CASE UNCHANGED <<uid, answered>>
    BY <1>4 DEF BoundToOwnDevice, Existing
<1> QED
    BY <1>1, <1>2, <1>3, <1>4
       DEF Next, vars, Swap, SubmitUser, SubmitReconfigure, DeviceAnswers, AskingFails,
           DecideUser, SaveOptions, BeginSetup, FinishSetup, SetupFails

\* Whatever other flows do between the form and the answer, and whichever device
\* answers at a host: the host of an entry was last checked to be its own device's.
THEOREM OwnDevice == Spec => []BoundToOwnDevice
<1>1. Init => BoundToOwnDevice
    BY DEF Init, BoundToOwnDevice, Existing
<1> QED
    BY <1>1, Types, BoundStep, PTL DEF Spec

-----------------------------------------------------------------------------
(* Settings. *)

\* A setup under way that is not to be followed by a reload has the host of now.
SetupIsCurrent ==
    \A e \in Entries :
        state[e] = "setup" /\ ~reload[e] => used[e].host = data[e].host

LEMMA SettingsStep ==
    ASSUME TypeOK, Answered, SettingsApplied, SetupIsCurrent, [Next]_vars
    PROVE  SettingsApplied' /\ SetupIsCurrent'
<1> USE DEF TypeOK
<1> DEFINE Now(e) == [host |-> data[e].host, days |-> Window(e)]
<1>1. ASSUME NEW f \in Flows, CreateEntry(f) PROVE SettingsApplied' /\ SetupIsCurrent'
    <2>1. PICK e \in Entries :
              /\ uid' = [uid EXCEPT ![e] = flow[f].id]
              /\ data' = [data EXCEPT ![e] = [host |-> flow[f].host, days |-> flow[f].days]]
              /\ options' = [options EXCEPT ![e] = Unset]
              /\ state' = [state EXCEPT ![e] = "setup"]
              /\ reload' = [reload EXCEPT ![e] = FALSE]
              /\ used' = [used EXCEPT ![e] = [host |-> flow[f].host, days |-> flow[f].days]]
        BY <1>1, Created
    <2> QED
        BY <2>1 DEF SettingsApplied, SetupIsCurrent, Existing
<1>2. ASSUME NEW f \in Flows, DecideReconfigure(f)
      PROVE  SettingsApplied' /\ SetupIsCurrent'
    <2>1. UNCHANGED <<uid, options, state, used>>
        BY <1>2 DEF DecideReconfigure
    <2>2. CASE WrongDevice(f)
        BY <1>2, <2>1, <2>2
           DEF DecideReconfigure, SettingsApplied, SetupIsCurrent, Existing
    <2>3. CASE ~WrongDevice(f)
        BY <1>2, <2>1, <2>3, ZenonT(40)
           DEF DecideReconfigure, SettingsApplied, SetupIsCurrent, Existing
    <2> QED
        BY <2>2, <2>3
<1>3. ASSUME NEW e \in Entries, SaveOptions(e) PROVE SettingsApplied' /\ SetupIsCurrent'
    <2>1. PICK d \in Days : /\ options' = [options EXCEPT ![e] = d]
                            /\ reload' = [reload EXCEPT ![e] =
                                             @ \/ (d # options[e] /\ Listener(e))]
        BY <1>3 DEF SaveOptions
    <2>2. UNCHANGED <<uid, data, state, used>>
        BY <1>3 DEF SaveOptions
    <2>3. \A o \in Entries \ {e} : options'[o] = options[o] /\ reload'[o] = reload[o]
        BY <2>1
    <2>4. /\ options'[e] = d
          /\ ~reload'[e] => ~reload[e] /\ (d = options[e] \/ state[e] # "loaded")
        BY <2>1 DEF Listener
    <2> QED
        BY <2>2, <2>3, <2>4, ZenonT(40) DEF SettingsApplied, SetupIsCurrent, Existing
<1>4. ASSUME NEW e \in Entries, Remove(e) PROVE SettingsApplied' /\ SetupIsCurrent'
    BY <1>4 DEF Remove, SettingsApplied, SetupIsCurrent, Existing
<1>5. ASSUME NEW e \in Entries, BeginSetup(e) PROVE SettingsApplied' /\ SetupIsCurrent'
    BY <1>5 DEF BeginSetup, SettingsApplied, SetupIsCurrent, Existing
<1>6. ASSUME NEW e \in Entries, FinishSetup(e) PROVE SettingsApplied' /\ SetupIsCurrent'
    <2>1. /\ state[e] = "setup"
          /\ state' = [state EXCEPT ![e] = "loaded"]
          /\ used' = [used EXCEPT ![e].days = Window(e)]
          /\ UNCHANGED <<uid, data, options, reload>>
        BY <1>6 DEF FinishSetup
    <2>2. used'[e] = [host |-> used[e].host, days |-> Window(e)]
        BY <2>1
    <2>3. Window(e) = IF options[e] \in Days THEN options[e] ELSE data[e].days
        BY ValuesAssumption DEF Window
    <2>4. \A o \in Entries \ {e} : state'[o] = state[o] /\ used'[o] = used[o]
        BY <2>1
    <2>5. SetupIsCurrent'
        BY <2>1, <2>4 DEF SetupIsCurrent
    <2>6. SettingsApplied'
        BY <2>1, <2>2, <2>3, <2>4 DEF SettingsApplied, SetupIsCurrent, Existing
    <2> QED
        BY <2>5, <2>6
<1>7. ASSUME NEW e \in Entries, SetupFails(e) PROVE SettingsApplied' /\ SetupIsCurrent'
    BY <1>7 DEF SetupFails, SettingsApplied, SetupIsCurrent, Existing
<1>8. CASE UNCHANGED entryVars
    BY <1>8 DEF SettingsApplied, SetupIsCurrent, Existing
<1> QED
    BY <1>1, <1>2, <1>3, <1>4, <1>5, <1>6, <1>7, <1>8
       DEF Next, vars, Swap, SubmitUser, SubmitReconfigure, DeviceAnswers, AskingFails,
           DecideUser

\* A loaded entry that is not about to be reloaded runs on its present host and
\* backfill window, also when they were changed while a setup was under way.
THEOREM SettingsCurrent == Spec => []SettingsApplied
<1>1. Init => SettingsApplied /\ SetupIsCurrent
    BY DEF Init, SettingsApplied, SetupIsCurrent, Existing
<1>2. TypeOK /\ Answered /\ SettingsApplied /\ SetupIsCurrent /\ [Next]_vars
          => SettingsApplied' /\ SetupIsCurrent'
    BY SettingsStep
<1> QED
    BY <1>1, <1>2, Types, PTL DEF Spec

-----------------------------------------------------------------------------
(* Reconfiguration. *)

\* The form of a reconfiguration under way still has the window of its entry.
FormCurrent ==
    \A f \in Flows : flow[f].step = "reconfigure" /\ flow[f].pc # "idle" =>
        flow[f].entry \in Existing /\ flow[f].days = data[flow[f].entry].days

LEMMA DecisionKeeps ==
    ASSUME TypeOK, FormCurrent, NEW f \in Flows, DecideReconfigure(f)
    PROVE  \A e \in Entries : data'[e].days = data[e].days
<1>1. flow[f].entry \in Entries /\ flow[f].days = data[flow[f].entry].days
    BY DEF TypeOK, DecideReconfigure, FormCurrent
<1>2. \/ data' = data
      \/ data' = [data EXCEPT ![flow[f].entry] = [host |-> flow[f].host, days |-> flow[f].days]]
    BY DEF DecideReconfigure
<1>3. data \in [Entries -> [host : Hosts, days : Days]]
    BY DEF TypeOK
<1> QED
    BY <1>1, <1>2, <1>3

LEMMA FormStep ==
    ASSUME TypeOK, Answered, NoEntryReplaced, FormCurrent, [Next]_vars
    PROVE  FormCurrent'
<1> USE DEF TypeOK
<1>1. flow \in [Flows -> Flow]
    BY DEF Flow
<1>2. ASSUME NEW f \in Flows, CreateEntry(f) PROVE FormCurrent'
    <2>1. PICK e \in Entries :
              /\ \/ uid[e] = NoId
                 \/ uid[e] = flow[f].id /\ e \in Existing
              /\ uid' = [uid EXCEPT ![e] = flow[f].id]
              /\ data' = [data EXCEPT ![e] = [host |-> flow[f].host, days |-> flow[f].days]]
        BY <1>2, Created
    <2>2. e \notin Existing /\ flow[f].id # NoId
        BY <1>2, <2>1, ValueTypes DEF CreateEntry, NoEntryReplaced, Answered, Existing
    <2>3. flow' = [flow EXCEPT ![f] = Idle]
        BY <1>2 DEF CreateEntry
    <2> QED
        BY <1>1, <2>1, <2>2, <2>3, ValueTypes DEF FormCurrent, Existing
<1>3. ASSUME NEW f \in Flows, DecideReconfigure(f) PROVE FormCurrent'
    <2>1. UNCHANGED uid /\ flow' = [flow EXCEPT ![f] = Idle]
        BY <1>3 DEF DecideReconfigure
    <2>2. \A e \in Entries : data'[e].days = data[e].days
        BY <1>3, DecisionKeeps
    <2> QED
        BY <1>1, <2>1, <2>2, ValueTypes DEF FormCurrent, Existing
<1>4. ASSUME NEW f \in Flows, SubmitReconfigure(f) PROVE FormCurrent'
    <2>1. PICK h \in Hosts, e \in Existing :
              flow' = [flow EXCEPT ![f] =
                          [step |-> "reconfigure", pc |-> "asking", entry |-> e, id |-> NoId,
                           host |-> Merged(e, h).host, days |-> Merged(e, h).days]]
        BY <1>4 DEF SubmitReconfigure
    <2>2. Merged(e, h).days = data[e].days
        BY DEF Merged, Existing
    <2>3. UNCHANGED <<uid, data>>
        BY <1>4 DEF SubmitReconfigure
    <2> QED
        BY <1>1, <2>1, <2>2, <2>3 DEF FormCurrent, Existing
<1>5. ASSUME NEW f \in Flows, SubmitUser(f) PROVE FormCurrent'
    <2>1. PICK h \in Hosts, d \in Days :
              flow' = [flow EXCEPT ![f] =
                          [Idle EXCEPT !.pc = "asking", !.host = h, !.days = d]]
        BY <1>5 DEF SubmitUser
    <2>2. [Idle EXCEPT !.pc = "asking", !.host = h, !.days = d].step = "user"
        BY DEF Idle
    <2>3. UNCHANGED <<uid, data>>
        BY <1>5 DEF SubmitUser
    <2> QED
        BY <1>1, <2>1, <2>2, <2>3 DEF FormCurrent, Existing
<1>6. ASSUME NEW f \in Flows, DeviceAnswers(f) \/ AskingFails(f) \/ DecideUser(f)
      PROVE  FormCurrent'
    <2>1. UNCHANGED <<uid, data>> /\ \A g \in Flows \ {f} : flow'[g] = flow[g]
        BY <1>1, <1>6 DEF DeviceAnswers, AskingFails, DecideUser
    <2>2. CASE DeviceAnswers(f)
        <3>1. /\ flow'[f].step = flow[f].step /\ flow'[f].entry = flow[f].entry
              /\ flow'[f].days = flow[f].days /\ flow[f].pc # "idle"
            BY <1>1, <2>2 DEF DeviceAnswers, Flow
        <3> QED
            BY <2>1, <3>1 DEF FormCurrent, Existing
    <2>3. CASE AskingFails(f)
        BY <1>1, <2>1, <2>3, ValueTypes DEF AskingFails, FormCurrent, Existing
    <2>4. CASE DecideUser(f)
        <3>1. flow'[f].pc = "idle" \/ flow'[f].step = "user"
            BY <1>1, <2>4, ValueTypes DEF DecideUser, Flow
        <3> QED
            BY <2>1, <3>1 DEF FormCurrent, Existing
    <2> QED
        BY <1>6, <2>2, <2>3, <2>4
<1>7. ASSUME NEW e \in Entries, Remove(e) PROVE FormCurrent'
    BY <1>1, <1>7, ValueTypes DEF Remove, FormCurrent, Existing
<1>8. CASE UNCHANGED <<flow, uid, data>>
    BY <1>8 DEF FormCurrent, Existing
<1> QED
    BY <1>2, <1>3, <1>4, <1>5, <1>6, <1>7, <1>8
       DEF Next, vars, Swap, SaveOptions, BeginSetup, FinishSetup, SetupFails

\* A reconfiguration never changes the backfill window, however long its form was
\* open and whatever was created, removed or reloaded meanwhile.
THEOREM WindowKept == Spec => ReconfigureKeepsWindow
<1>1. Init => FormCurrent
    BY ValueTypes DEF Init, FormCurrent
<1>2. ASSUME TypeOK, FormCurrent, NEW f \in Flows, DecideReconfigure(f)
      PROVE  data'[flow[f].entry].days = data[flow[f].entry].days
    BY <1>2, DecisionKeeps DEF TypeOK
<1>3. TypeOK /\ FormCurrent /\ [Next]_vars =>
          [\A f \in Flows : DecideReconfigure(f) =>
              data'[flow[f].entry].days = data[flow[f].entry].days]_vars
    BY <1>2
<1> QED
    BY <1>1, <1>3, Types, NoReplacement, FormStep, PTL DEF Spec, ReconfigureKeepsWindow
=============================================================================
