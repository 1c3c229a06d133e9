------------------------------- MODULE HikLedger -------------------------------
(***************************************************************************)
(* What the ingestion of events promises, without saying how: a ledger of   *)
(* the events a controller logged, those published on the bus, and those    *)
(* the integration knows of.  No marks, windows, pages, streams or tasks.   *)
(***************************************************************************)
EXTENDS Naturals

CONSTANTS
    Controllers,
    Serials

VARIABLES
    logged,     \* logged[c]: serial of the newest event
    ours,       \* ours[c]: serials of the events of an enabled reader
    fired,      \* fired[c][s]: times s was published since c was last loaded
    accepted,   \* accepted[c]: serials the sensors have taken in
    known,      \* known[c]: accepted, when c was last loaded
    stored      \* stored[c]: accepted, when the store was last written

vars == <<logged, ours, fired, accepted, known, stored>>

Nothing == [c \in Controllers |-> {}]
Never   == [c \in Controllers |-> [s \in Serials |-> 0]]

Init ==
    /\ logged = [c \in Controllers |-> 0]
    /\ ours = Nothing /\ accepted = Nothing /\ known = Nothing /\ stored = Nothing
    /\ fired = Never

Log(c) ==
    /\ logged' = [logged EXCEPT ![c] = @ + 1]
    /\ ours' \in {ours, [ours EXCEPT ![c] = @ \cup {logged[c] + 1}]}
    /\ UNCHANGED <<fired, accepted, known, stored>>

\* Only a logged event, and none of an enabled reader that was known at the load.
Publish(c, s) ==
    /\ fired' = [fired EXCEPT ![c][s] = @ + 1]
    /\ s <= logged[c]
    /\ s \in ours[c] => s \notin known[c]
    /\ accepted' \in {accepted, [accepted EXCEPT ![c] = @ \cup {s}]}
    /\ UNCHANGED <<logged, ours, known, stored>>

Load(c) ==
    /\ fired' = [fired EXCEPT ![c] = [s \in Serials |-> 0]]
    /\ known' = [known EXCEPT ![c] = accepted[c]]
    /\ UNCHANGED <<logged, ours, accepted, stored>>

Save ==
    /\ stored' = accepted
    /\ UNCHANGED <<logged, ours, fired, accepted, known>>

\* What was accepted since the last Save is forgotten.
Crash ==
    /\ accepted' = stored
    /\ fired' = Never /\ known' = Nothing
    /\ UNCHANGED <<logged, ours, stored>>

Next ==
    \/ \E c \in Controllers : Log(c) \/ Load(c) \/ (\E s \in Serials : Publish(c, s))
    \/ Save
    \/ Crash

Spec == Init /\ [][Next]_vars
=============================================================================
