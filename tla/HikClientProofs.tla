---------------------------- MODULE HikClientProofs ----------------------------
(***************************************************************************)
(* Proofs about HikClient, for every backoff range and every limit of      *)
(* 401s: who holds the aiohttp session at any moment, and what ends the    *)
(* stream.                                                                 *)
(***************************************************************************)
EXTENDS HikClient, TLAPS

USE BackoffAssumption, LimitAssumption, SetupsAssumption
USE DEF taskVars, pollVars, setupVars, InEvents

\* A client exists before its stream task, and the task of a client that is
\* stopped has been cancelled or was never created.
TaskFollowsSetup ==
    /\ task = "none" <=> setup \notin {"up", "unloading", "gone"}
    /\ stopping <=> setup \in {"failed", "gone"}
    /\ cancel => stopping /\ task \in {"pending"} \cup InEvents
    /\ setup = "gone" /\ task # "done" => cancel
    /\ streaming <=> task \in InEvents

\* The session has one owner at a time: setup, then the iterator.
SessionHeld ==
    /\ task \in InEvents => session = "open"
    /\ task = "pending" => session = (IF cancel THEN "closed" ELSE "open")
    /\ task = "done" => session = "closed"
    /\ setup \in {"info", "readers", "refresh", "platforms"} => session = "open"
    /\ setup = "failed" => session = "closed"

\* The client never counts fewer 401s than the device has seen in a row.
DenialsCounted ==
    /\ denials <= authFails
    /\ task = "reading" => denials = 0
    /\ authFails < AuthFailLimit \/ (task = "done" /\ exit = "auth")

ClientInv ==
    TypeOK /\ TaskFollowsSetup /\ SessionHeld /\ DenialsCounted /\ EndsOnlyForCause

LEMMA InitInv == Init => ClientInv
<1> SUFFICES ASSUME Init PROVE ClientInv
    OBVIOUS
<1>1. PhasesOK
    BY DEF Init, PhasesOK
<1>2. FlagsOK
    BY DEF Init, FlagsOK
<1>3. CountsOK
    BY DEF Init, CountsOK
<1>4. TaskFollowsSetup
    BY DEF Init, TaskFollowsSetup
<1>5. SessionHeld /\ DenialsCounted /\ EndsOnlyForCause
    BY DEF Init, SessionHeld, DenialsCounted, EndsOnlyForCause
<1> QED
    BY <1>1, <1>2, <1>3, <1>4, <1>5 DEF ClientInv, TypeOK

\* While a task that is not cancelled runs, nobody has stopped the client.
LEMMA PauseSleeps ==
    ASSUME ClientInv, task \in InEvents, ~cancel, Pause
    PROVE  /\ ~stopping
           /\ task' = "sleeping"
           /\ UNCHANGED <<session, cancel, exit, streaming>>
<1>1. ~stopping
    BY DEF ClientInv, TaskFollowsSetup
<1> QED
    BY <1>1 DEF Pause

LEMMA BackoffBound ==
    \A b \in Floor..Ceiling : NextBackoff(b) \in Floor..Ceiling
BY DEF NextBackoff, Lower

\* What a failed setup raised and remembers.
LEMMA FailureType ==
    SetupFails => /\ setup \in {"info", "readers", "refresh", "platforms"}
                  /\ outcome' \in {"auth_failed", "not_ready", "cancelled"}
                  /\ refused' \in BOOLEAN
BY DEF SetupFails, Failures, Surfaces

LEMMA SetupInv ==
    ASSUME ClientInv,
           Construct \/ SetupStep \/ Started \/ SetupFails \/ Unload \/ Close
    PROVE  ClientInv'
<1> USE DEF ClientInv, TypeOK
<1>1. CASE Construct
    <2>1. PhasesOK'
        BY <1>1 DEF Construct, PhasesOK
    <2>2. FlagsOK'
        BY <1>1 DEF Construct, FlagsOK
    <2>3. CountsOK' /\ DenialsCounted'
        BY <1>1 DEF Construct, CountsOK, DenialsCounted, TaskFollowsSetup, PhasesOK
    <2>4. TaskFollowsSetup' /\ SessionHeld' /\ EndsOnlyForCause'
        BY <1>1
           DEF Construct, TaskFollowsSetup, SessionHeld, EndsOnlyForCause, PhasesOK,
               FlagsOK
    <2> QED
        BY <2>1, <2>2, <2>3, <2>4
<1>2. CASE SetupStep
    <2>1. PhasesOK'
        BY <1>2 DEF SetupStep, PhasesOK
    <2>2. FlagsOK'
        BY <1>2 DEF SetupStep, FlagsOK
    <2>3. CountsOK' /\ DenialsCounted'
        BY <1>2 DEF SetupStep, CountsOK, DenialsCounted, TaskFollowsSetup, PhasesOK
    <2>4. TaskFollowsSetup' /\ SessionHeld' /\ EndsOnlyForCause'
        BY <1>2
           DEF SetupStep, TaskFollowsSetup, SessionHeld, EndsOnlyForCause, PhasesOK,
               FlagsOK
    <2> QED
        BY <2>1, <2>2, <2>3, <2>4
<1>3. CASE Started
    <2>1. PhasesOK'
        BY <1>3 DEF Started, PhasesOK
    <2>2. FlagsOK'
        BY <1>3 DEF Started, FlagsOK
    <2>3. CountsOK' /\ DenialsCounted'
        BY <1>3 DEF Started, CountsOK, DenialsCounted, TaskFollowsSetup, PhasesOK
    <2>4. TaskFollowsSetup' /\ SessionHeld' /\ EndsOnlyForCause'
        BY <1>3
           DEF Started, TaskFollowsSetup, SessionHeld, EndsOnlyForCause, PhasesOK,
               FlagsOK
    <2> QED
        BY <2>1, <2>2, <2>3, <2>4
<1>4. CASE SetupFails
    <2>1. PhasesOK'
        BY <1>4, FailureType DEF SetupFails, Stop, PhasesOK
    <2>2. FlagsOK'
        BY <1>4, FailureType DEF SetupFails, Stop, FlagsOK
    <2>3. CountsOK' /\ DenialsCounted'
        BY <1>4, FailureType
           DEF SetupFails, Stop, CountsOK, DenialsCounted, TaskFollowsSetup, PhasesOK
    <2>4. TaskFollowsSetup' /\ SessionHeld' /\ EndsOnlyForCause'
        BY <1>4, FailureType
           DEF SetupFails, Stop, TaskFollowsSetup, SessionHeld, EndsOnlyForCause,
               PhasesOK,
               FlagsOK
    <2> QED
        BY <2>1, <2>2, <2>3, <2>4
<1>5. CASE Unload
    <2>1. PhasesOK'
        BY <1>5 DEF Unload, PhasesOK
    <2>2. FlagsOK'
        BY <1>5 DEF Unload, FlagsOK
    <2>3. CountsOK' /\ DenialsCounted'
        BY <1>5 DEF Unload, CountsOK, DenialsCounted, TaskFollowsSetup, PhasesOK
    <2>4. TaskFollowsSetup' /\ SessionHeld' /\ EndsOnlyForCause'
        BY <1>5
           DEF Unload, TaskFollowsSetup, SessionHeld, EndsOnlyForCause, PhasesOK,
               FlagsOK
    <2> QED
        BY <2>1, <2>2, <2>3, <2>4
<1>6. CASE Close
    <2>1. PhasesOK'
        BY <1>6 DEF Close, Stop, PhasesOK
    <2>2. FlagsOK'
        BY <1>6 DEF Close, Stop, FlagsOK
    <2>3. CountsOK' /\ DenialsCounted'
        BY <1>6 DEF Close, Stop, CountsOK, DenialsCounted, TaskFollowsSetup, PhasesOK
    <2>4. TaskFollowsSetup' /\ SessionHeld' /\ EndsOnlyForCause'
        BY <1>6
           DEF Close, Stop, TaskFollowsSetup, SessionHeld, EndsOnlyForCause, PhasesOK,
               FlagsOK
    <2> QED
        BY <2>1, <2>2, <2>3, <2>4
<1> QED
    BY <1>1, <1>2, <1>3, <1>4, <1>5, <1>6

LEMMA TaskInv ==
    ASSUME ClientInv,
           TaskNext
    PROVE  ClientInv'
<1> USE DEF ClientInv, TypeOK
<1>1. CASE Begin
    <2>1. PhasesOK'
        BY <1>1 DEF Begin, PhasesOK
    <2>2. FlagsOK'
        BY <1>1 DEF Begin, FlagsOK
    <2>3. CountsOK' /\ DenialsCounted'
        BY <1>1 DEF Begin, CountsOK, DenialsCounted, TaskFollowsSetup, PhasesOK
    <2>4. TaskFollowsSetup' /\ SessionHeld' /\ EndsOnlyForCause'
        BY <1>1
           DEF Begin, TaskFollowsSetup, SessionHeld, EndsOnlyForCause, PhasesOK,
               FlagsOK
    <2> QED
        BY <2>1, <2>2, <2>3, <2>4
<1>2. CASE NeverBegins
    <2>1. PhasesOK'
        BY <1>2 DEF NeverBegins, PhasesOK
    <2>2. FlagsOK'
        BY <1>2 DEF NeverBegins, FlagsOK
    <2>3. CountsOK' /\ DenialsCounted'
        BY <1>2 DEF NeverBegins, CountsOK, DenialsCounted, TaskFollowsSetup, PhasesOK
    <2>4. TaskFollowsSetup' /\ SessionHeld' /\ EndsOnlyForCause'
        BY <1>2
           DEF NeverBegins, TaskFollowsSetup, SessionHeld, EndsOnlyForCause, PhasesOK,
               FlagsOK
    <2> QED
        BY <2>1, <2>2, <2>3, <2>4
<1>3. CASE Accepted
    <2>1. PhasesOK'
        BY <1>3 DEF Accepted, PhasesOK
    <2>2. FlagsOK'
        BY <1>3 DEF Accepted, FlagsOK
    <2>3. CountsOK' /\ DenialsCounted'
        BY <1>3 DEF Accepted, CountsOK, DenialsCounted, TaskFollowsSetup, PhasesOK
    <2>4. TaskFollowsSetup' /\ SessionHeld' /\ EndsOnlyForCause'
        BY <1>3
           DEF Accepted, TaskFollowsSetup, SessionHeld, EndsOnlyForCause, PhasesOK,
               FlagsOK
    <2> QED
        BY <2>1, <2>2, <2>3, <2>4
<1>4. CASE Denied
    <2>1. PhasesOK'
        BY <1>4 DEF Denied, AtLimit, Pause, EndEvents, PhasesOK
    <2>2. FlagsOK'
        BY <1>4 DEF Denied, AtLimit, Pause, EndEvents, FlagsOK
    <2>3. CountsOK' /\ DenialsCounted'
        <3>1. /\ authFails < AuthFailLimit /\ denials <= authFails
              /\ authFails \in Nat /\ denials \in Nat
            BY <1>4 DEF Denied, CountsOK, DenialsCounted
        <3>2. /\ authFails' = authFails + 1 /\ denials' = denials + 1
              /\ UNCHANGED <<backoff, setups, rounds>>
            BY <1>4 DEF Denied
        <3>3. CountsOK'
            BY <3>1, <3>2 DEF CountsOK
        <3>4. CASE authFails' >= AuthFailLimit
            <4>1. task' = "done" /\ exit' = "auth"
                BY <1>4, <3>4 DEF Denied, AtLimit, EndEvents
            <4> QED
                BY <3>1, <3>2, <3>3, <4>1 DEF DenialsCounted
        <3>5. CASE ~(authFails' >= AuthFailLimit)
            <4>1. task = "connecting" /\ ~cancel /\ Pause
                BY <1>4, <3>5 DEF Denied, AtLimit
            <4>2. task' = "sleeping"
                BY <4>1, PauseSleeps
            <4> QED
                BY <3>1, <3>2, <3>3, <3>5, <4>2 DEF DenialsCounted
        <3> QED
            BY <3>4, <3>5
    <2>4. TaskFollowsSetup' /\ SessionHeld' /\ EndsOnlyForCause'
        BY <1>4
           DEF Denied, AtLimit, Pause, EndEvents, TaskFollowsSetup, SessionHeld,
               EndsOnlyForCause, PhasesOK,
               FlagsOK
    <2> QED
        BY <2>1, <2>2, <2>3, <2>4
<1>5. CASE Refused
    <2>1. PhasesOK'
        BY <1>5 DEF Refused, Pause, EndEvents, PhasesOK
    <2>2. FlagsOK'
        BY <1>5 DEF Refused, Pause, EndEvents, FlagsOK
    <2>3. CountsOK' /\ DenialsCounted'
        BY <1>5
           DEF Refused, Pause, EndEvents, CountsOK, DenialsCounted,
               TaskFollowsSetup, PhasesOK
    <2>4. TaskFollowsSetup' /\ SessionHeld' /\ EndsOnlyForCause'
        <3>1. task = "connecting" /\ ~cancel /\ Pause /\ UNCHANGED <<setup, stopping>>
            BY <1>5 DEF Refused
        <3>2. /\ ~stopping /\ task' = "sleeping"
              /\ UNCHANGED <<session, cancel, exit, streaming>>
            BY <3>1, PauseSleeps
        <3> QED
            BY <3>1, <3>2 DEF TaskFollowsSetup, SessionHeld, EndsOnlyForCause
    <2> QED
        BY <2>1, <2>2, <2>3, <2>4
<1>6. CASE Yield
    <2>1. PhasesOK'
        BY <1>6 DEF Yield, PhasesOK
    <2>2. FlagsOK'
        BY <1>6 DEF Yield, FlagsOK
    <2>3. CountsOK' /\ DenialsCounted'
        BY <1>6 DEF Yield, CountsOK, DenialsCounted, TaskFollowsSetup, PhasesOK
    <2>4. TaskFollowsSetup' /\ SessionHeld' /\ EndsOnlyForCause'
        BY <1>6
           DEF Yield, TaskFollowsSetup, SessionHeld, EndsOnlyForCause, PhasesOK,
               FlagsOK
    <2> QED
        BY <2>1, <2>2, <2>3, <2>4
<1>7. CASE Poison
    <2>1. PhasesOK'
        BY <1>7 DEF Poison, EndEvents, PhasesOK
    <2>2. FlagsOK'
        BY <1>7 DEF Poison, EndEvents, FlagsOK
    <2>3. CountsOK' /\ DenialsCounted'
        BY <1>7
           DEF Poison, EndEvents, CountsOK, DenialsCounted, TaskFollowsSetup, PhasesOK
    <2>4. TaskFollowsSetup' /\ SessionHeld' /\ EndsOnlyForCause'
        BY <1>7
           DEF Poison, EndEvents, TaskFollowsSetup, SessionHeld, EndsOnlyForCause,
               PhasesOK,
               FlagsOK
    <2> QED
        BY <2>1, <2>2, <2>3, <2>4
<1>8. CASE Lost
    <2>1. PhasesOK'
        BY <1>8 DEF Lost, Pause, EndEvents, PhasesOK
    <2>2. FlagsOK'
        BY <1>8 DEF Lost, Pause, EndEvents, FlagsOK
    <2>3. CountsOK' /\ DenialsCounted'
        BY <1>8
           DEF Lost, Pause, EndEvents, CountsOK, DenialsCounted,
               TaskFollowsSetup, PhasesOK
    <2>4. TaskFollowsSetup' /\ SessionHeld' /\ EndsOnlyForCause'
        <3>1. task = "reading" /\ ~cancel /\ Pause /\ UNCHANGED <<setup, stopping>>
            BY <1>8 DEF Lost
        <3>2. /\ ~stopping /\ task' = "sleeping"
              /\ UNCHANGED <<session, cancel, exit, streaming>>
            BY <3>1, PauseSleeps
        <3> QED
            BY <3>1, <3>2 DEF TaskFollowsSetup, SessionHeld, EndsOnlyForCause
    <2> QED
        BY <2>1, <2>2, <2>3, <2>4
<1>9. CASE Wake
    <2>1. PhasesOK'
        BY <1>9 DEF Wake, Lower, PhasesOK
    <2>2. FlagsOK'
        BY <1>9 DEF Wake, Lower, FlagsOK
    <2>3. CountsOK' /\ DenialsCounted'
        BY <1>9, BackoffBound
           DEF Wake, Lower, CountsOK, DenialsCounted, TaskFollowsSetup, PhasesOK
    <2>4. TaskFollowsSetup' /\ SessionHeld' /\ EndsOnlyForCause'
        BY <1>9
           DEF Wake, Lower, TaskFollowsSetup, SessionHeld, EndsOnlyForCause, PhasesOK,
               FlagsOK
    <2> QED
        BY <2>1, <2>2, <2>3, <2>4
<1>10. CASE Cancelled
    <2>1. PhasesOK'
        BY <1>10 DEF Cancelled, EndEvents, PhasesOK
    <2>2. FlagsOK'
        BY <1>10 DEF Cancelled, EndEvents, FlagsOK
    <2>3. CountsOK' /\ DenialsCounted'
        BY <1>10
           DEF Cancelled, EndEvents, CountsOK, DenialsCounted, TaskFollowsSetup, PhasesOK
    <2>4. TaskFollowsSetup' /\ SessionHeld' /\ EndsOnlyForCause'
        BY <1>10
           DEF Cancelled, EndEvents, TaskFollowsSetup, SessionHeld, EndsOnlyForCause,
               PhasesOK,
               FlagsOK
    <2> QED
        BY <2>1, <2>2, <2>3, <2>4
<1>11. CASE TimeoutWins
    <2>1. PhasesOK'
        BY <1>11 DEF TimeoutWins, Pause, EndEvents, PhasesOK
    <2>2. FlagsOK'
        BY <1>11 DEF TimeoutWins, Pause, EndEvents, FlagsOK
    <2>3. CountsOK' /\ DenialsCounted'
        BY <1>11
           DEF TimeoutWins, Pause, EndEvents, CountsOK, DenialsCounted,
               TaskFollowsSetup, PhasesOK
    <2>4. TaskFollowsSetup' /\ SessionHeld' /\ EndsOnlyForCause'
        BY <1>11
           DEF TimeoutWins, Pause, EndEvents, TaskFollowsSetup, SessionHeld,
               EndsOnlyForCause, PhasesOK,
               FlagsOK
    <2> QED
        BY <2>1, <2>2, <2>3, <2>4
<1> QED
    BY <1>1, <1>2, <1>3, <1>4, <1>5, <1>6, <1>7, <1>8, <1>9, <1>10, <1>11 DEF TaskNext

LEMMA PollInv ==
    ASSUME ClientInv, PollStart \/ PollEnd \/ UNCHANGED vars
    PROVE  ClientInv'
<1> USE DEF ClientInv, TypeOK, PollStart, PollEnd, vars
<1>1. PhasesOK'
    BY DEF PhasesOK
<1>2. FlagsOK'
    BY DEF FlagsOK
<1>3. CountsOK'
    BY DEF CountsOK
<1>4. TaskFollowsSetup' /\ SessionHeld' /\ DenialsCounted' /\ EndsOnlyForCause'
    BY DEF TaskFollowsSetup, SessionHeld, DenialsCounted, EndsOnlyForCause
<1> QED
    BY <1>1, <1>2, <1>3, <1>4

\* The inductive invariant of the client.
THEOREM ClientInvariant == Spec => []ClientInv
<1>1. ClientInv /\ [Next]_vars => ClientInv'
    BY SetupInv, TaskInv, PollInv DEF Next
<1> QED
    BY <1>1, InitInv, PTL DEF Spec

\* Type correctness of HikClient.
THEOREM ClientTypeCorrect == Spec => []TypeOK
<1>1. ClientInv => TypeOK
    BY DEF ClientInv
<1> QED
    BY <1>1, ClientInvariant, PTL

\* The iterator never works on a session that was closed under it.
THEOREM OpenWhileStreaming == Spec => []StreamUsesOpenSession
<1>1. ClientInv => StreamUsesOpenSession
    BY DEF ClientInv, SessionHeld, StreamUsesOpenSession
<1> QED
    BY <1>1, ClientInvariant, PTL

\* No failed setup and no unload leaves a session open once its task is over.
THEOREM NoLeak == Spec => []NoSessionLeak
<1>1. ClientInv => NoSessionLeak
    BY DEF ClientInv, SessionHeld, TaskFollowsSetup, TypeOK, NoSessionLeak
<1> QED
    BY <1>1, ClientInvariant, PTL

\* Nothing but a stop, a last 401 or an unknown exception ends the stream.
THEOREM EndsForCause == Spec => []EndsOnlyForCause
<1>1. ClientInv => EndsOnlyForCause
    BY DEF ClientInv
<1> QED
    BY <1>1, ClientInvariant, PTL

\* The device never sees more than AuthFailLimit 401s of the stream in a row.
THEOREM DenialsBounded == Spec => []LockoutGuard
<1>1. ClientInv => LockoutGuard
    BY DEF ClientInv, TypeOK, CountsOK, DenialsCounted, LockoutGuard
<1> QED
    BY <1>1, ClientInvariant, PTL

\* A loaded entry's session is closed by nobody but the end of its stream.
THEOREM PollingBounded == Spec => []PollsUntilStreamEnds
<1>1. ClientInv => PollsUntilStreamEnds
    BY DEF ClientInv, SessionHeld, TaskFollowsSetup, EndsOnlyForCause, TypeOK, PhasesOK,
           FlagsOK, PollsUntilStreamEnds
<1> QED
    BY <1>1, ClientInvariant, PTL

-----------------------------------------------------------------------------
(* The wait between two connections. *)

\* The floor, doubled once per wait since the last event.
Climb ==
    backoff = CASE rounds = 0 -> Floor
                [] rounds = 1 -> Lower(Floor * 2, Ceiling)
                [] OTHER      -> Lower(Lower(Floor * 2, Ceiling) * 2, Ceiling)

LEMMA ClimbStep ==
    ASSUME Ceiling <= 4 * Floor, ClientInv, Climb, [Next]_vars
    PROVE  Climb'
<1>1. CASE Begin \/ Yield
    BY <1>1 DEF Begin, Yield, Climb
<1>2. CASE Wake
    <2>1. backoff' = Lower(backoff * 2, Ceiling) /\ rounds' = Lower(rounds + 1, 2)
        BY <1>2 DEF Wake, NextBackoff
    <2>2. rounds \in 0..2
        BY DEF ClientInv, TypeOK, CountsOK
    <2>3. CASE rounds = 0
        BY <2>1, <2>3, BackoffAssumption DEF Climb, Lower
    <2>4. CASE rounds = 1
        BY <2>1, <2>4, BackoffAssumption DEF Climb, Lower
    <2>5. CASE rounds = 2
        BY <2>1, <2>5, BackoffAssumption DEF Climb, Lower
    <2> QED
        BY <2>2, <2>3, <2>4, <2>5
<1>3. CASE UNCHANGED <<backoff, rounds>>
    BY <1>3 DEF Climb
<1> QED
    BY <1>1, <1>2, <1>3
       DEF Next, TaskNext, vars, taskVars, Construct, SetupStep, Started, SetupFails,
           Unload, Close, NeverBegins, Accepted, Denied, Refused, Poison, Lost,
           Cancelled, TimeoutWins, PollStart, PollEnd

\* For a ceiling that two doublings reach, as the source's 60 s over 25 s: however
\* long an outage was, the waits after the next event climb from the floor again.
THEOREM WaitsClimb == ASSUME Ceiling <= 4 * Floor PROVE Spec => []WaitFollowsOutage
<1>1. Init => Climb
    BY DEF Init, Climb
<1>2. ClientInv /\ Climb /\ [Next]_vars => Climb'
    BY ClimbStep
<1>3. Climb => WaitFollowsOutage
    BY DEF Climb, WaitFollowsOutage
<1> QED
    BY <1>1, <1>2, <1>3, ClientInvariant, PTL DEF Spec
=============================================================================
