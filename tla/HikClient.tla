------------------------------- MODULE HikClient -------------------------------
(***************************************************************************)
(* The life of one config entry's HikAccessClient: async_setup_entry       *)
(* builds it and, when a request fails, stops it again; the stream task    *)
(* iterates events(), reconnecting with backoff; the coordinator polls     *)
(* over the same aiohttp session; async_unload_entry cancels the task and  *)
(* stops the client.  The question is who closes the session and when, and *)
(* what ends the stream.                                                   *)
(*                                                                         *)
(* Every retry of a failed setup builds a new client.  Clients share no    *)
(* state, so the variables describe the newest one.                        *)
(***************************************************************************)
EXTENDS Naturals

CONSTANTS
    Floor,          \* _initial_backoff
    Ceiling,        \* _BACKOFF_MAX
    AuthFailLimit,  \* _AUTH_FAIL_LIMIT
    MaxSetups       \* bound: clients built

ASSUME BackoffAssumption == Floor \in Nat \ {0} /\ Ceiling \in Nat /\ Floor <= Ceiling
ASSUME LimitAssumption   == AuthFailLimit \in Nat \ {0}
ASSUME SetupsAssumption  == MaxSetups \in Nat

VARIABLES
    setup,      \* what async_setup_entry or async_unload_entry awaits
    outcome,    \* what the last failed setup raised
    session,    \* the aiohttp ClientSession
    stopping,   \* the _stop event
    task,       \* what the stream task awaits
    cancel,     \* the task is cancelled and has not run since
    exit,       \* how events() ended
    streaming,  \* _streaming
    authFails,  \* _auth_fail_count
    backoff,    \* the local of events()
    poll,       \* the coordinator
    available,  \* its last_update_success
    setups,     \* clients built
    denials,    \* history: 401s of the stream since the device last accepted it
    rounds,     \* history: waits since the last event, 2 standing for more
    refused     \* history: the device answered the failed setup with a 401

taskVars  == <<task, cancel, exit, streaming, authFails, backoff, denials, rounds>>
pollVars  == <<poll, available>>
setupVars == <<setup, outcome, setups, refused>>
vars == <<setupVars, session, stopping, taskVars, pollVars>>

Lower(a, b) == IF a <= b THEN a ELSE b

\* The iterator is inside a request or its body, or between two of them.
InEvents == {"connecting", "reading", "sleeping"}

Init ==
    /\ setup = "idle" /\ outcome = "none" /\ setups = 0 /\ refused = FALSE
    /\ session = "none" /\ stopping = FALSE
    /\ task = "none" /\ cancel = FALSE /\ exit = "none"
    /\ streaming = FALSE /\ authFails = 0 /\ backoff = Floor
    /\ denials = 0 /\ rounds = 0
    /\ poll = "none" /\ available = FALSE

-----------------------------------------------------------------------------
(* client.stop() and the finally clause of events(). *)

\* A slip: the session is closed under the running iterator.
StopAtOnce ==
    /\ stopping' = TRUE
    /\ session' = "closed"

\* A slip: the session is always left to the iterator.
StopDefers ==
    /\ stopping' = TRUE
    /\ UNCHANGED session

\* client.stop(): the session of a running events() is left to its finally clause.
Stop ==
    /\ stopping' = TRUE
    /\ session' = IF streaming THEN session ELSE "closed"

\* A slip: the finally clause leaves the session to stop().
EndEventsOpen(how) ==
    /\ task' = "done" /\ exit' = how
    /\ streaming' = FALSE
    /\ cancel' = FALSE
    /\ UNCHANGED session

\* The finally clause, whatever raised or returned.
EndEvents(how) ==
    /\ task' = "done" /\ exit' = how
    /\ streaming' = FALSE
    /\ cancel' = FALSE
    /\ session' = "closed"

-----------------------------------------------------------------------------
(* async_setup_entry. *)

\* A first setup, or HA's retry of one that was not ready.
Construct ==
    /\ setup = "idle" \/ (setup = "failed" /\ outcome = "not_ready")
    /\ setups < MaxSetups
    /\ setups' = setups + 1
    /\ setup' = "info" /\ outcome' = "none" /\ refused' = FALSE
    /\ session' = "open" /\ stopping' = FALSE
    /\ UNCHANGED <<taskVars, pollVars>>

\* get_device_info, probe_readers, the first refresh and the platforms succeed
\* in turn; a reader probe that fails only shortens the list.
SetupStep ==
    /\ \/ setup = "info" /\ setup' = "readers" /\ UNCHANGED pollVars
       \/ setup = "readers" /\ setup' = "refresh" /\ UNCHANGED pollVars
       \/ setup = "refresh" /\ setup' = "platforms" /\ poll' = "idle" /\ available' = TRUE
    /\ UNCHANGED <<outcome, setups, refused, session, stopping, taskVars>>

\* The platforms are set up and the stream task is created; it has not run yet.
Started ==
    /\ setup = "platforms"
    /\ setup' = "up"
    /\ task' = "pending"
    /\ UNCHANGED <<outcome, setups, refused, session, stopping, cancel, exit, streaming,
                   authFails, backoff, denials, rounds, pollVars>>

\* What a request raises for the device's answer: raise_for_status makes no
\* difference between a 401 and any other status.
Raises(answer) == IF answer = "401" THEN "ClientResponseError" ELSE answer

\* What async_setup_entry makes of it.
Surfaces(error) ==
    CASE error = "HikAccessAuthError" -> "auth_failed"
      [] error = "CancelledError"     -> "cancelled"
      [] OTHER                        -> "not_ready"

\* The requests behind each await, and how they end: a reader probe swallows
\* every ClientError, the platforms make no request.
Failures == [info      |-> {"401", "ClientError", "TimeoutError", "CancelledError"},
             readers   |-> {"TimeoutError", "CancelledError"},
             refresh   |-> {"401", "ClientError", "TimeoutError", "CancelledError"},
             platforms |-> {"CancelledError"}]

\* Any of the awaits raises: `except BaseException` stops the client.
SetupFails ==
    /\ setup \in DOMAIN Failures
    /\ setup' = "failed"
    /\ \E answer \in Failures[setup] :
          /\ outcome' = Surfaces(Raises(answer))
          /\ refused' = (answer = "401")
    /\ Stop
    /\ poll' = "none"
    /\ UNCHANGED <<setups, taskVars, available>>

-----------------------------------------------------------------------------
(* async_unload_entry. *)

\* async_unload_platforms: no entity listens, so the coordinator stops polling.
Unload ==
    /\ setup = "up"
    /\ setup' = "unloading"
    /\ poll' = IF poll = "idle" THEN "none" ELSE poll
    /\ UNCHANGED <<outcome, setups, refused, session, stopping, taskVars, available>>

\* stream_task.cancel(), then client.stop(), without an await between them.
Close ==
    /\ setup = "unloading"
    /\ setup' = "gone"
    /\ cancel' = (task \notin {"none", "done"})
    /\ Stop
    /\ UNCHANGED <<outcome, setups, refused, task, exit, streaming, authFails, backoff,
                   denials, rounds, pollVars>>

-----------------------------------------------------------------------------
(* The stream task. *)

\* events() is entered.  The stop event is set only together with a cancellation,
\* so without one the condition of the loop holds, here and in Wake.
Begin ==
    /\ task = "pending" /\ ~cancel
    /\ task' = "connecting"
    /\ streaming' = TRUE
    /\ backoff' = Floor
    /\ rounds' = 0
    /\ UNCHANGED <<setupVars, session, stopping, cancel, exit, authFails, denials,
                   pollVars>>

\* A task cancelled before its first step never enters the coroutine.
NeverBegins ==
    /\ task = "pending" /\ cancel
    /\ task' = "done" /\ exit' = "cancelled" /\ cancel' = FALSE
    /\ UNCHANGED <<setupVars, session, stopping, streaming, authFails, backoff, denials,
                   rounds, pollVars>>

\* A slip: the end of a connection ends the iterator.
PauseEnds == EndEvents("returned")

\* The end of one turn of the loop: the stop event, or the sleep.
Pause ==
    \/ stopping /\ EndEvents("returned")
    \/ ~stopping /\ task' = "sleeping" /\ UNCHANGED <<session, cancel, exit, streaming>>

\* The handshake ends in a 200.
Accepted ==
    /\ task = "connecting" /\ ~cancel /\ session = "open"
    /\ task' = "reading"
    /\ denials' = 0
    /\ UNCHANGED <<setupVars, session, stopping, cancel, exit, streaming, authFails,
                   backoff, rounds, pollVars>>

\* A slip: one attempt too many.
AtLimitLate(n) == n > AuthFailLimit

AtLimit(n) == n >= AuthFailLimit

\* The handshake ends in a 401.
Denied ==
    /\ task = "connecting" /\ ~cancel /\ session = "open"
    /\ authFails' = authFails + 1
    /\ denials' = denials + 1
    /\ IF AtLimit(authFails') THEN EndEvents("auth") ELSE Pause
    /\ UNCHANGED <<setupVars, stopping, backoff, rounds, pollVars>>

\* A ClientError or a TimeoutError, a 400 of the single-session limit included.
Refused ==
    /\ task = "connecting" /\ ~cancel /\ session = "open"
    /\ Pause
    /\ UNCHANGED <<setupVars, stopping, authFails, backoff, denials, rounds, pollVars>>

\* A slip: the backoff is not reset.
YieldKeepsWait ==
    /\ task = "reading" /\ ~cancel
    /\ authFails' = 0 /\ rounds' = 0
    /\ UNCHANGED <<setupVars, session, stopping, task, cancel, exit, streaming, backoff,
                   denials, pollVars>>

\* An access event is yielded: the backoff and the count of 401s start over.
\* Parts that are no access event, or no JSON, change nothing.
Yield ==
    /\ task = "reading" /\ ~cancel
    /\ backoff' = Floor /\ authFails' = 0 /\ rounds' = 0
    /\ UNCHANGED <<setupVars, session, stopping, task, cancel, exit, streaming, denials,
                   pollVars>>

\* An exception that events() does not catch: a challenge without a nonce or of an
\* unknown algorithm, a part whose JSON is not an object, a buffer over its limit.
Poison ==
    /\ task \in {"connecting", "reading"} /\ ~cancel
    /\ EndEvents("crashed")
    /\ UNCHANGED <<setupVars, stopping, authFails, backoff, denials, rounds, pollVars>>

\* The connection ends: an error, the device's own timer, or the session's.
Lost ==
    /\ task = "reading" /\ ~cancel
    /\ Pause
    /\ UNCHANGED <<setupVars, stopping, authFails, backoff, denials, rounds, pollVars>>

\* A slip: the doubled wait is not capped.
NextBackoffUncapped(b) == b * 2

NextBackoff(b) == Lower(b * 2, Ceiling)

\* The sleep is over: the wait doubles and the loop goes round.
Wake ==
    /\ task = "sleeping" /\ ~cancel
    /\ backoff' = NextBackoff(backoff)
    /\ rounds' = Lower(rounds + 1, 2)
    /\ task' = "connecting"
    /\ UNCHANGED <<setupVars, session, stopping, cancel, exit, streaming, authFails,
                   denials, pollVars>>

\* The cancellation is thrown into whatever the iterator awaits.
Cancelled ==
    /\ task \in InEvents /\ cancel
    /\ EndEvents("cancelled")
    /\ UNCHANGED <<setupVars, stopping, authFails, backoff, denials, rounds, pollVars>>

\* The timer of the request had fired as well, and aiohttp turned the
\* cancellation into a TimeoutError: events() catches it and looks at _stop.
TimeoutWins ==
    /\ task \in {"connecting", "reading"} /\ cancel
    /\ Pause
    /\ UNCHANGED <<setupVars, stopping, authFails, backoff, denials, rounds, pollVars>>

-----------------------------------------------------------------------------
(* The coordinator's poll, a request of the same session. *)

PollStart ==
    /\ poll = "idle"
    /\ poll' = "inflight"
    /\ UNCHANGED <<setupVars, session, stopping, taskVars, available>>

\* Every exception becomes UpdateFailed, that of a closed session included.
PollEnd ==
    /\ poll = "inflight"
    /\ poll' = IF setup \in {"platforms", "up"} THEN "idle" ELSE "none"
    /\ \E ok \in BOOLEAN :
          /\ ok => session = "open"
          /\ available' = ok
    /\ UNCHANGED <<setupVars, session, stopping, taskVars>>

-----------------------------------------------------------------------------
TaskNext ==
    \/ Begin \/ NeverBegins \/ Accepted \/ Denied \/ Refused \/ Yield \/ Poison
    \/ Lost \/ Wake \/ Cancelled \/ TimeoutWins

Next ==
    \/ Construct \/ SetupStep \/ Started \/ SetupFails \/ Unload \/ Close
    \/ TaskNext
    \/ PollStart \/ PollEnd

Spec == Init /\ [][Next]_vars

\* The loop runs a task that is ready, a sleep ends, a handshake ends within
\* aiohttp's timeout, and Home Assistant finishes an unload it began.
Fairness ==
    /\ WF_vars(Begin \/ NeverBegins)
    /\ WF_vars(Accepted \/ Denied \/ Refused)
    /\ WF_vars(Wake)
    /\ WF_vars(Cancelled \/ TimeoutWins)
    /\ WF_vars(Close)

FairSpec == Spec /\ Fairness

-----------------------------------------------------------------------------
(* Properties. *)

PhasesOK ==
    /\ setup \in {"idle", "info", "readers", "refresh", "platforms", "up", "failed",
                  "unloading", "gone"}
    /\ outcome \in {"none", "auth_failed", "not_ready", "cancelled"}
    /\ session \in {"none", "open", "closed"}
    /\ task \in {"none", "pending", "done"} \cup InEvents
    /\ exit \in {"none", "returned", "auth", "crashed", "cancelled"}
    /\ poll \in {"none", "idle", "inflight"}

FlagsOK ==
    /\ stopping \in BOOLEAN
    /\ cancel \in BOOLEAN
    /\ streaming \in BOOLEAN
    /\ available \in BOOLEAN
    /\ refused \in BOOLEAN

CountsOK ==
    /\ authFails \in 0..AuthFailLimit
    /\ backoff \in Floor..Ceiling
    /\ setups \in 0..MaxSetups
    /\ denials \in 0..AuthFailLimit
    /\ rounds \in 0..2

\* Every variable holds a value of its kind; the backoff stays between its floor
\* and its ceiling.
TypeOK == PhasesOK /\ FlagsOK /\ CountsOK

\* "the session is left open ... avoiding aiohttp's RuntimeError": the iterator
\* never works on a session that has been closed under it, also in the steps
\* between the cancellation and its delivery.
StreamUsesOpenSession ==
    task \in {"connecting", "reading"} => session = "open"

\* "otherwise the aiohttp session leaks": once a setup has failed or an unload is
\* over, and the stream task with it, the session is closed, in whatever state
\* the task was when it was cancelled.
NoSessionLeak ==
    setup \in {"failed", "gone"} /\ task \in {"none", "done"} => session = "closed"

\* "auto-reconnects on transport errors": while nobody stops the client only a
\* second 401 or an exception it does not know ends the stream.
EndsOnlyForCause ==
    task = "done" /\ ~stopping => exit \in {"auth", "crashed"}

\* "Hikvision admin accounts have a brute-force counter": the stream never sends
\* more than AuthFailLimit rejected handshakes without one accepted in between,
\* other failures of the connection notwithstanding, and the last one ends it.
LockoutGuard ==
    denials >= AuthFailLimit => denials = AuthFailLimit /\ task = "done" /\ exit = "auth"

\* However long an outage was, the waits after the next event climb from the
\* floor again: the wait is the floor doubled once per wait since the last event,
\* up to the ceiling.
WaitFollowsOutage ==
    task = "sleeping" =>
        backoff = CASE rounds = 0 -> Floor
                    [] rounds = 1 -> Lower(Floor * 2, Ceiling)
                    [] OTHER      -> Lower(Lower(Floor * 2, Ceiling) * 2, Ceiling)

\* The coordinator of a loaded entry loses the session it polls over only when the
\* stream has ended for good; lost connections, refusals and 401s below the limit
\* leave its data alone.
PollsUntilStreamEnds ==
    setup = "up" /\ session = "closed" => task = "done" /\ exit \in {"auth", "crashed"}

\* Whoever stops the client, its session is closed in the end.
SessionReleased == stopping ~> session = "closed"

\* Claims of the documentation that the code does not keep.

\* "After 2 consecutive 401s the integration stops retrying and surfaces
\* ConfigEntryAuthFailed": from the stream, and from a setup whose credentials the
\* device rejects.
AuthSurfaces ==
    exit = "auth" \/ (setup = "failed" /\ refused) => outcome = "auth_failed"
=============================================================================
