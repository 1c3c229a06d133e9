------------------------------ MODULE HikHandshake ------------------------------
(***************************************************************************)
(* The requests of one HikAccessClient, issued by tasks that share it: the *)
(* stream, the coordinator's poll, the backfill.  Each one passes the      *)
(* throttle, sends an unauthenticated probe and, when the device answers   *)
(* it with a Digest challenge, an authenticated retry of its own.          *)
(*                                                                         *)
(* Time is counted in ages, capped at the throttle's interval because the  *)
(* code only ever compares them with it; no clock has to be bounded.       *)
(***************************************************************************)
EXTENDS Integers, Sequences

CONSTANTS
    Tasks,          \* asyncio tasks that use the client
    NoTask,         \* the lock is free
    Interval,       \* _min_request_interval, in ticks
    MaxRequests     \* bound: requests begun

ASSUME TasksAssumption    == NoTask \notin Tasks
ASSUME IntervalAssumption == Interval \in Nat
ASSUME RequestsAssumption == MaxRequests \in Nat

VARIABLES
    pc,         \* pc[t]: idle, waiting, pausing, probing, retrying
    holder,     \* the task in `async with self._request_lock`
    queue,      \* the tasks that wait for the lock, first come first served
    age,        \* time since _last_request_at
    pause,      \* what is left of the holder's sleep
    nonce,      \* nonce[t]: the challenge its retry answers
    issued,     \* nonces the device has issued: 1..issued
    used,       \* nonces the device has seen in a retry
    begun,      \* requests begun
    probeAge    \* history: time since the last probe was sent

deviceVars == <<issued, used>>
ageVars    == <<age, pause, probeAge>>
vars == <<pc, holder, queue, nonce, begun, deviceVars, ageVars>>

Capped(n)  == IF n > Interval THEN Interval ELSE n
Floored(n) == IF n < 0 THEN 0 ELSE n

Init ==
    /\ pc = [t \in Tasks |-> "idle"]
    /\ holder = NoTask
    /\ queue = <<>>
    /\ nonce = [t \in Tasks |-> 0]
    /\ issued = 0 /\ used = {}
    /\ begun = 0
    /\ age = Interval /\ pause = 0
    /\ probeAge = Interval

Tick ==
    /\ age' = Capped(age + 1)
    /\ pause' = Floored(pause - 1)
    /\ probeAge' = Capped(probeAge + 1)
    /\ UNCHANGED <<pc, holder, queue, nonce, begun, deviceVars>>

-----------------------------------------------------------------------------
(* _throttle(). *)

\* The task comes to the lock.
Begin(t) ==
    /\ pc[t] = "idle" /\ begun < MaxRequests
    /\ begun' = begun + 1
    /\ pc' = [pc EXCEPT ![t] = "waiting"]
    /\ queue' = Append(queue, t)
    /\ UNCHANGED <<holder, nonce, deviceVars, ageVars>>

\* A slip: no lock around the sleep.
FreeAlways == TRUE

Free == holder = NoTask

\* A slip: the first request after another does not wait.
WaitLess == Floored(Interval - age - 1)

\* What the throttle sleeps.
Wait == Interval - age

\* The lock is handed to the first waiter, which reads the age and sleeps.
Acquire(t) ==
    /\ pc[t] = "waiting" /\ queue # <<>> /\ t = Head(queue)
    /\ Free
    /\ holder' = t
    /\ queue' = Tail(queue)
    /\ pc' = [pc EXCEPT ![t] = "pausing"]
    /\ pause' = Wait
    /\ UNCHANGED <<nonce, begun, deviceVars, age, probeAge>>

\* The sleep is over: the time is recorded, the lock released and the probe sent.
Probe(t) ==
    /\ pc[t] = "pausing" /\ pause = 0
    /\ pc' = [pc EXCEPT ![t] = "probing"]
    /\ holder' = NoTask
    /\ age' = 0 /\ probeAge' = 0
    /\ UNCHANGED <<queue, pause, nonce, begun, deviceVars>>

-----------------------------------------------------------------------------
(* _DigestRequestCM.__aenter__ past the throttle, and the device. *)

\* A slip: an earlier challenge is reused.
ChallengeCached == IF issued > 0 THEN issued ELSE issued + 1

\* The nonce of a fresh 401.
Challenge == issued + 1

\* The device challenges the probe and the task sends its retry at once.
Retry(t) ==
    /\ pc[t] = "probing"
    /\ issued' = Challenge
    /\ nonce' = [nonce EXCEPT ![t] = Challenge]
    /\ pc' = [pc EXCEPT ![t] = "retrying"]
    /\ UNCHANGED <<holder, queue, begun, used, ageVars>>

\* The device reads the retry, and the request is over whatever it answers.
Answer(t) ==
    /\ pc[t] = "retrying"
    /\ used' = used \cup {nonce[t]}
    /\ nonce' = [nonce EXCEPT ![t] = 0]
    /\ pc' = [pc EXCEPT ![t] = "idle"]
    /\ UNCHANGED <<holder, queue, begun, issued, ageVars>>

\* The probe is answered without a challenge, or a request fails.
GiveUp(t) ==
    /\ pc[t] \in {"probing", "retrying"}
    /\ nonce' = [nonce EXCEPT ![t] = 0]
    /\ pc' = [pc EXCEPT ![t] = "idle"]
    /\ UNCHANGED <<holder, queue, begun, deviceVars, ageVars>>

-----------------------------------------------------------------------------
(* Cancellation of a task inside _throttle(); inside a request it ends like   *)
(* GiveUp.                                                                    *)

\* A slip: a task cancelled in its sleep keeps the lock.
ReleasedNever(t) == holder

\* `async with` releases the lock whatever ends its body.
Released(t) == IF holder = t THEN NoTask ELSE holder

\* _waiters.remove(fut): q without t's place in it.
Places(q, t)  == {i \in 1..Len(q) : q[i] = t}
Without(q, t) ==
    IF Places(q, t) = {} THEN q
    ELSE LET i == CHOOSE i \in Places(q, t) : TRUE
         IN SubSeq(q, 1, i - 1) \o SubSeq(q, i + 1, Len(q))

Cancel(t) ==
    /\ pc[t] \in {"waiting", "pausing"}
    /\ holder' = Released(t)
    /\ queue' = Without(queue, t)
    /\ pc' = [pc EXCEPT ![t] = "idle"]
    /\ UNCHANGED <<nonce, begun, deviceVars, ageVars>>

-----------------------------------------------------------------------------
Next ==
    \/ Tick
    \/ \E t \in Tasks : \/ Begin(t) \/ Acquire(t) \/ Probe(t) \/ Retry(t)
                        \/ Answer(t) \/ GiveUp(t) \/ Cancel(t)

Spec == Init /\ [][Next]_vars

\* Time passes, the lock is handed on, a sleeper wakes, a request ends within
\* aiohttp's timeout.
Fairness ==
    /\ WF_vars(Tick)
    /\ \A t \in Tasks : /\ WF_vars(Acquire(t))
                        /\ WF_vars(Probe(t))
                        /\ WF_vars(Retry(t) \/ Answer(t) \/ GiveUp(t))

FairSpec == Spec /\ Fairness

-----------------------------------------------------------------------------
(* Properties. *)

\* Every variable holds a value of its kind, and only a sleeper holds the lock.
TypeOK ==
    /\ pc \in [Tasks -> {"idle", "waiting", "pausing", "probing", "retrying"}]
    /\ holder \in Tasks \cup {NoTask}
    /\ \A t \in Tasks : holder = t <=> pc[t] = "pausing"
    /\ queue \in Seq(Tasks)
    /\ nonce \in [Tasks -> Nat]
    /\ issued \in Nat /\ used \in SUBSET Nat
    /\ begun \in Nat
    /\ age \in 0..Interval /\ pause \in 0..Interval
    /\ probeAge \in 0..Interval

ProbeSent == \E t \in Tasks : pc[t] = "pausing" /\ pc'[t] = "probing"

\* "keep them MIN_REQUEST_INTERVAL apart", of the first request of every
\* handshake: however many tasks use the client and whichever of them are
\* cancelled in the throttle, probes are spaced.
ProbesSpaced == [][ProbeSent => probeAge = Interval]_vars

\* "The device issues single-use nonces": no retry answers a challenge the
\* device has already seen answered, or that another task's retry answers.
NoncesSingleUse ==
    \A t \in Tasks : pc[t] = "retrying" =>
        /\ nonce[t] \in (1..issued) \ used
        /\ \A u \in Tasks \ {t} : nonce[u] # nonce[t]

\* A task that waits for the throttle gets through it or is cancelled, also
\* when the task that sleeps in it is.
ThrottlePasses ==
    \A t \in Tasks : pc[t] \in {"waiting", "pausing"} ~> pc[t] \in {"probing", "idle"}
=============================================================================
