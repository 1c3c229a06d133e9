--------------------------- MODULE HikHandshakeProofs ---------------------------
(***************************************************************************)
(* Proofs about HikHandshake, for any number of tasks and any interval: the *)
(* spacing of the probes, the freshness of the answered challenges, and the *)
(* waiters of the lock, of which none is forgotten.                        *)
(***************************************************************************)
EXTENDS HikHandshake, SequenceTheorems, TLAPS

USE TasksAssumption, IntervalAssumption
USE DEF deviceVars, ageVars

\* What the proofs about the lock's holder and the nonces need of the types; who
\* waits in the queue does not matter to them.
HandshakeTypes ==
    /\ pc \in [Tasks -> {"idle", "waiting", "pausing", "probing", "retrying"}]
    /\ holder \in Tasks \cup {NoTask}
    /\ nonce \in [Tasks -> Nat]
    /\ issued \in Nat
    /\ age \in 0..Interval /\ pause \in 0..Interval
    /\ probeAge \in 0..Interval
    /\ used \in SUBSET Nat
    /\ begun \in Nat

\* The lock is what makes one sleeper out of many, and the sleeper sleeps no
\* less than the interval still asks for.
LockInv ==
    /\ \A t \in Tasks : holder = t <=> pc[t] = "pausing"
    /\ age = probeAge
    /\ holder # NoTask => pause >= Interval - age

\* A challenge is known to the one task that asked for it, until it answers.
NonceInv ==
    /\ used \subseteq 1..issued
    /\ \A t \in Tasks : nonce[t] \in 0..issued
    /\ NoncesSingleUse

HandshakeInv == HandshakeTypes /\ LockInv /\ NonceInv

LEMMA InitHandshake == Init => HandshakeInv
<1> SUFFICES ASSUME Init PROVE HandshakeInv
    OBVIOUS
<1>1. HandshakeTypes
    BY DEF Init, HandshakeTypes
<1>2. LockInv
    BY DEF Init, LockInv
<1>3. NonceInv
    BY DEF Init, NonceInv, NoncesSingleUse
<1> QED
    BY <1>1, <1>2, <1>3 DEF HandshakeInv

LEMMA TypesStep == HandshakeTypes /\ [Next]_vars => HandshakeTypes'
<1> SUFFICES ASSUME HandshakeTypes, [Next]_vars PROVE HandshakeTypes'
    OBVIOUS
<1> USE DEF HandshakeTypes
<1>1. CASE Tick
    BY <1>1 DEF Tick, Capped, Floored
<1>2. ASSUME NEW t \in Tasks, Begin(t) PROVE HandshakeTypes'
    BY <1>2 DEF Begin
<1>3. ASSUME NEW t \in Tasks, Acquire(t) PROVE HandshakeTypes'
    BY <1>3 DEF Acquire, Wait
<1>4. ASSUME NEW t \in Tasks, Probe(t) PROVE HandshakeTypes'
    BY <1>4 DEF Probe
<1>5. ASSUME NEW t \in Tasks, Retry(t) PROVE HandshakeTypes'
    BY <1>5 DEF Retry, Challenge
<1>6. ASSUME NEW t \in Tasks, Answer(t) PROVE HandshakeTypes'
    BY <1>6 DEF Answer
<1>7. ASSUME NEW t \in Tasks, GiveUp(t) PROVE HandshakeTypes'
    BY <1>7 DEF GiveUp
<1>8. ASSUME NEW t \in Tasks, Cancel(t) PROVE HandshakeTypes'
    BY <1>8 DEF Cancel, Released
<1>9. CASE UNCHANGED vars
    BY <1>9 DEF vars
<1> QED
    BY <1>1, <1>2, <1>3, <1>4, <1>5, <1>6, <1>7, <1>8, <1>9 DEF Next

LEMMA LockStep == HandshakeTypes /\ LockInv /\ [Next]_vars => LockInv'
<1> SUFFICES ASSUME HandshakeTypes, LockInv, [Next]_vars PROVE LockInv'
    OBVIOUS
<1> USE DEF HandshakeTypes, LockInv
<1>1. CASE Tick
    BY <1>1 DEF Tick, Capped, Floored
<1>2. ASSUME NEW t \in Tasks, Begin(t) PROVE LockInv'
    BY <1>2 DEF Begin
<1>3. ASSUME NEW t \in Tasks, Acquire(t) PROVE LockInv'
    BY <1>3 DEF Acquire, Wait, Free
<1>4. ASSUME NEW t \in Tasks, Probe(t) PROVE LockInv'
    BY <1>4 DEF Probe
<1>5. ASSUME NEW t \in Tasks, Retry(t) PROVE LockInv'
    BY <1>5 DEF Retry
<1>6. ASSUME NEW t \in Tasks, Answer(t) PROVE LockInv'
    BY <1>6 DEF Answer
<1>7. ASSUME NEW t \in Tasks, GiveUp(t) PROVE LockInv'
    BY <1>7 DEF GiveUp
<1>8. ASSUME NEW t \in Tasks, Cancel(t) PROVE LockInv'
    BY <1>8 DEF Cancel, Released
<1>9. CASE UNCHANGED vars
    BY <1>9 DEF vars
<1> QED
    BY <1>1, <1>2, <1>3, <1>4, <1>5, <1>6, <1>7, <1>8, <1>9 DEF Next

LEMMA NonceStep == HandshakeTypes /\ NonceInv /\ [Next]_vars => NonceInv'
<1> SUFFICES ASSUME HandshakeTypes, NonceInv, [Next]_vars PROVE NonceInv'
    OBVIOUS
<1> USE DEF HandshakeTypes, NonceInv, NoncesSingleUse
<1>1. CASE Tick
    BY <1>1 DEF Tick
<1>2. ASSUME NEW t \in Tasks, Begin(t) PROVE NonceInv'
    BY <1>2 DEF Begin
<1>3. ASSUME NEW t \in Tasks, Acquire(t) PROVE NonceInv'
    BY <1>3 DEF Acquire
<1>4. ASSUME NEW t \in Tasks, Probe(t) PROVE NonceInv'
    BY <1>4 DEF Probe
<1>5. ASSUME NEW t \in Tasks, Retry(t) PROVE NonceInv'
    \* The fresh nonce is above every nonce that is used or held.
    BY <1>5 DEF Retry, Challenge
<1>6. ASSUME NEW t \in Tasks, Answer(t) PROVE NonceInv'
    <2>1. /\ used' = used \cup {nonce[t]} /\ issued' = issued
          /\ nonce[t] \in 1..issued
          /\ \A u \in Tasks \ {t} : nonce[u] # nonce[t]
        BY <1>6 DEF Answer
    <2>2. /\ nonce'[t] = 0 /\ pc'[t] = "idle"
          /\ \A u \in Tasks \ {t} : nonce'[u] = nonce[u] /\ pc'[u] = pc[u]
        BY <1>6 DEF Answer
    <2>3. used' \subseteq 1..issued'
        BY <2>1
    <2>4. \A u \in Tasks : nonce'[u] \in 0..issued'
        BY <2>1, <2>2
    <2>5. ASSUME NEW u \in Tasks, pc'[u] = "retrying"
          PROVE  /\ nonce'[u] \in (1..issued') \ used'
                 /\ \A v \in Tasks \ {u} : nonce'[v] # nonce'[u]
        BY <2>1, <2>2, <2>5
    <2> QED
        BY <2>3, <2>4, <2>5
<1>7. ASSUME NEW t \in Tasks, GiveUp(t) PROVE NonceInv'
    BY <1>7 DEF GiveUp
<1>8. ASSUME NEW t \in Tasks, Cancel(t) PROVE NonceInv'
    BY <1>8 DEF Cancel
<1>9. CASE UNCHANGED vars
    BY <1>9 DEF vars
<1> QED
    BY <1>1, <1>2, <1>3, <1>4, <1>5, <1>6, <1>7, <1>8, <1>9 DEF Next

\* The invariant that the theorems below follow from.
THEOREM HandshakeInvariant == Spec => []HandshakeInv
<1>1. Init => HandshakeInv
    BY InitHandshake
<1>2. HandshakeInv /\ [Next]_vars => HandshakeInv'
    BY TypesStep, LockStep, NonceStep DEF HandshakeInv
<1> QED
    BY <1>1, <1>2, PTL DEF Spec

\* No retry answers a challenge that is answered already or that another task
\* answers (_DigestRequestCM), for any number of tasks and requests.
THEOREM FreshChallenges == Spec => []NoncesSingleUse
<1>1. HandshakeInv => NoncesSingleUse
    BY DEF HandshakeInv, NonceInv
<1> QED
    BY <1>1, HandshakeInvariant, PTL

\* _throttle() keeps the probes apart, for any number of tasks, any interval and
\* any cancellations.
THEOREM ThrottleSpaces == Spec => ProbesSpaced
<1>1. HandshakeInv /\ [Next]_vars => [ProbeSent => probeAge = Interval]_vars
    <2> SUFFICES ASSUME HandshakeInv, Next, ProbeSent PROVE probeAge = Interval
        OBVIOUS
    <2> USE DEF HandshakeInv, HandshakeTypes, LockInv
    <2>1. PICK t \in Tasks : pc[t] = "pausing" /\ pc'[t] = "probing"
        BY DEF ProbeSent
    <2>2. pause = 0
        <3>1. PICK u \in Tasks : Probe(u)
            BY <2>1 DEF Next, Tick, Begin, Acquire, Retry, Answer, GiveUp, Cancel
        <3> QED
            BY <3>1 DEF Probe
    <2>3. holder = t /\ pause >= Interval - age
        BY <2>1
    <2> QED
        BY <2>2, <2>3
<1> QED
    BY <1>1, HandshakeInvariant, PTL DEF Spec, ProbesSpaced

-----------------------------------------------------------------------------
(* The waiters of the lock. *)

USE DEF Places

Queued(q, t)  == Places(q, t) # {}
OnceEach(q) == \A i, j \in 1..Len(q) : q[i] = q[j] => i = j

\* The queue holds the tasks that wait, each of them once.
QueueInv ==
    /\ queue \in Seq(Tasks)
    /\ OnceEach(queue)
    /\ \A t \in Tasks : pc[t] = "waiting" <=> Queued(queue, t)

\* A newcomer waits behind the others.
LEMMA AppendQueues ==
    ASSUME NEW q \in Seq(Tasks), NEW t \in Tasks, OnceEach(q), ~Queued(q, t)
    PROVE  /\ Append(q, t) \in Seq(Tasks)
           /\ OnceEach(Append(q, t))
           /\ \A u : Queued(Append(q, t), u) <=> Queued(q, u) \/ u = t
<1> DEFINE r == Append(q, t)
<1>1. /\ r \in Seq(Tasks) /\ Len(r) = Len(q) + 1 /\ Len(q) \in Nat
      /\ \A i \in 1..Len(q) : r[i] = q[i]
      /\ r[Len(q) + 1] = t
    BY AppendProperties
<1> HIDE DEF r
<1>2. OnceEach(r)
    BY <1>1 DEF OnceEach, Queued
<1>3. ASSUME NEW u PROVE Queued(r, u) <=> Queued(q, u) \/ u = t
    BY <1>1 DEF Queued
<1> QED
    BY <1>1, <1>2, <1>3 DEF r

\* The first waiter leaves, the others stay.
LEMMA TailQueues ==
    ASSUME NEW q \in Seq(Tasks), q # <<>>, OnceEach(q)
    PROVE  /\ Tail(q) \in Seq(Tasks)
           /\ OnceEach(Tail(q))
           /\ \A u : Queued(Tail(q), u) <=> Queued(q, u) /\ u # Head(q)
<1> DEFINE r == Tail(q)
<1>1. /\ r \in Seq(Tasks) /\ Len(r) = Len(q) - 1 /\ Len(q) \in Nat \ {0}
      /\ \A i \in 1..Len(r) : r[i] = q[i + 1]
      /\ Head(q) = q[1]
    BY HeadTailProperties, EmptySeq
<1> HIDE DEF r
<1>2. OnceEach(r)
    BY <1>1 DEF OnceEach
<1>3. ASSUME NEW u PROVE Queued(r, u) <=> Queued(q, u) /\ u # Head(q)
    <2>1. ASSUME NEW i \in 1..Len(r), r[i] = u PROVE Queued(q, u) /\ u # Head(q)
        BY <1>1, <2>1 DEF Queued, OnceEach
    <2>2. ASSUME NEW i \in 1..Len(q), q[i] = u, u # Head(q) PROVE Queued(r, u)
        <3>1. i - 1 \in 1..Len(r) /\ r[i - 1] = u
            BY <1>1, <2>2
        <3> QED
            BY <3>1 DEF Queued
    <2> QED
        BY <2>1, <2>2 DEF Queued
<1> QED
    BY <1>1, <1>2, <1>3 DEF r

\* A cancelled waiter leaves, from wherever it stands; the others stay.
LEMMA WithoutQueues ==
    ASSUME NEW q \in Seq(Tasks), NEW t, OnceEach(q)
    PROVE  /\ Without(q, t) \in Seq(Tasks)
           /\ OnceEach(Without(q, t))
           /\ \A u : Queued(Without(q, t), u) <=> Queued(q, u) /\ u # t
<1>1. CASE Places(q, t) = {}
    BY <1>1 DEF Without, Queued
<1>2. CASE Places(q, t) # {}
    <2> DEFINE k == CHOOSE i \in Places(q, t) : TRUE
               a == SubSeq(q, 1, k - 1)
               b == SubSeq(q, k + 1, Len(q))
               r == a \o b
    <2>1. Without(q, t) = r
        BY <1>2 DEF Without
    <2>2. k \in 1..Len(q) /\ q[k] = t /\ Len(q) \in Nat
        BY <1>2
    <2> HIDE DEF k
    <2>3. \A i \in 1..Len(q) : q[i] \in Tasks
        BY ElementOfSeq
    <2>4. /\ a \in Seq(Tasks) /\ Len(a) = k - 1
          /\ \A i \in 1..(k - 1) : a[i] = q[i]
        <3>1. \A i \in 1..(k - 1) : q[i] \in Tasks
            BY <2>2, <2>3
        <3> QED
            BY <2>2, <3>1, SubSeqProperties
    <2>5. /\ b \in Seq(Tasks) /\ Len(b) = Len(q) - k
          /\ \A i \in 1..(Len(q) - k) : b[i] = q[k + i]
        <3>1. \A i \in (k + 1)..Len(q) : q[i] \in Tasks
            BY <2>2, <2>3
        <3> QED
            BY <2>2, <3>1, SubSeqProperties
    <2> HIDE DEF a, b
    <2>6. /\ r \in Seq(Tasks) /\ Len(r) = Len(q) - 1
          /\ \A i \in 1..(Len(q) - 1) : r[i] = IF i < k THEN q[i] ELSE q[i + 1]
        <3>1. /\ r \in Seq(Tasks) /\ Len(r) = Len(a) + Len(b)
              /\ \A i \in 1..(Len(a) + Len(b)) :
                    r[i] = IF i <= Len(a) THEN a[i] ELSE b[i - Len(a)]
            BY <2>4, <2>5, ConcatProperties
        <3> HIDE DEF r
        <3>2. Len(r) = Len(q) - 1
            BY <2>2, <2>4, <2>5, <3>1
        <3>3. ASSUME NEW i \in 1..(Len(q) - 1), i < k PROVE r[i] = q[i]
            <4>1. i \in 1..(Len(a) + Len(b)) /\ i <= Len(a)
                BY <2>2, <2>4, <2>5, <3>3
            <4>2. r[i] = a[i]
                BY <3>1, <4>1
            <4>3. i \in 1..(k - 1)
                BY <2>2, <3>3
            <4> QED
                BY <2>4, <4>2, <4>3
        <3>4. ASSUME NEW i \in 1..(Len(q) - 1), ~(i < k) PROVE r[i] = q[i + 1]
            <4>1. i \in 1..(Len(a) + Len(b)) /\ ~(i <= Len(a))
                BY <2>2, <2>4, <2>5, <3>4
            <4>2. r[i] = b[i - Len(a)]
                BY <3>1, <4>1
            <4>3. i - Len(a) \in 1..(Len(q) - k) /\ k + (i - Len(a)) = i + 1
                BY <2>2, <2>4, <3>4
            <4> QED
                BY <2>5, <4>2, <4>3
        <3> QED
            BY <3>1, <3>2, <3>3, <3>4
    <2> HIDE DEF r
    <2>7. OnceEach(r)
        <3> DEFINE Was(i) == IF i < k THEN i ELSE i + 1
        <3>1. \A i \in 1..Len(r) : Was(i) \in 1..Len(q) /\ r[i] = q[Was(i)]
            BY <2>2, <2>6
        <3>2. \A i, j \in 1..Len(r) : Was(i) = Was(j) => i = j
            BY <2>2, <2>6
        <3> HIDE DEF Was
        <3> QED
            BY <3>1, <3>2 DEF OnceEach
    <2>8. ASSUME NEW u PROVE Queued(r, u) <=> Queued(q, u) /\ u # t
        <3>1. ASSUME NEW i \in 1..Len(r), r[i] = u PROVE Queued(q, u) /\ u # t
            <4> DEFINE j == IF i < k THEN i ELSE i + 1
            <4>1. j \in 1..Len(q) /\ q[j] = u /\ j # k
                BY <2>2, <2>6, <3>1
            <4> QED
                BY <2>2, <4>1 DEF Queued, OnceEach
        <3>2. ASSUME NEW i \in 1..Len(q), q[i] = u, u # t PROVE Queued(r, u)
            <4> DEFINE j == IF i < k THEN i ELSE i - 1
            <4>1. j \in 1..Len(r) /\ r[j] = u
                BY <2>2, <2>6, <3>2
            <4> QED
                BY <4>1 DEF Queued
        <3> QED
            BY <3>1, <3>2 DEF Queued
    <2> QED
        BY <2>1, <2>6, <2>7, <2>8
<1> QED
    BY <1>1, <1>2

LEMMA InitQueue == Init => QueueInv
<1> SUFFICES ASSUME Init PROVE QueueInv
    OBVIOUS
<1>1. queue = <<>> /\ queue \in Seq(Tasks) /\ Len(queue) = 0
    BY EmptySeq DEF Init
<1> QED
    BY <1>1 DEF Init, QueueInv, OnceEach, Queued

LEMMA QueueStep == HandshakeTypes /\ QueueInv /\ [Next]_vars => QueueInv'
<1> SUFFICES ASSUME HandshakeTypes, QueueInv, [Next]_vars PROVE QueueInv'
    OBVIOUS
<1> USE DEF QueueInv
<1>0. pc \in [Tasks -> {"idle", "waiting", "pausing", "probing", "retrying"}]
    BY DEF HandshakeTypes
<1>1. CASE queue' = queue /\ \A t \in Tasks : pc'[t] = "waiting" <=> pc[t] = "waiting"
    BY <1>1
<1>2. CASE Tick
    BY <1>1, <1>2 DEF Tick
<1>3. ASSUME NEW t \in Tasks, Begin(t) PROVE QueueInv'
    <2>1. /\ pc' = [pc EXCEPT ![t] = "waiting"] /\ queue' = Append(queue, t)
          /\ ~Queued(queue, t)
        BY <1>3 DEF Begin
    <2>2. /\ queue' \in Seq(Tasks) /\ OnceEach(queue')
          /\ \A u : Queued(queue', u) <=> Queued(queue, u) \/ u = t
        BY <2>1, AppendQueues
    <2> QED
        BY <1>0, <2>1, <2>2
<1>4. ASSUME NEW t \in Tasks, Acquire(t) PROVE QueueInv'
    <2>1. /\ pc' = [pc EXCEPT ![t] = "pausing"] /\ queue' = Tail(queue)
          /\ queue # <<>> /\ t = Head(queue)
        BY <1>4 DEF Acquire
    <2>2. /\ queue' \in Seq(Tasks) /\ OnceEach(queue')
          /\ \A u : Queued(queue', u) <=> Queued(queue, u) /\ u # t
        BY <2>1, TailQueues
    <2> QED
        BY <1>0, <2>1, <2>2
<1>5. ASSUME NEW t \in Tasks, Probe(t) PROVE QueueInv'
    BY <1>0, <1>1, <1>5 DEF Probe
<1>6. ASSUME NEW t \in Tasks, Retry(t) PROVE QueueInv'
    BY <1>0, <1>1, <1>6 DEF Retry
<1>7. ASSUME NEW t \in Tasks, Answer(t) PROVE QueueInv'
    BY <1>0, <1>1, <1>7 DEF Answer
<1>8. ASSUME NEW t \in Tasks, GiveUp(t) PROVE QueueInv'
    BY <1>0, <1>1, <1>8 DEF GiveUp
<1>9. ASSUME NEW t \in Tasks, Cancel(t) PROVE QueueInv'
    <2>1. pc' = [pc EXCEPT ![t] = "idle"] /\ queue' = Without(queue, t)
        BY <1>9 DEF Cancel
    <2>2. /\ queue' \in Seq(Tasks) /\ OnceEach(queue')
          /\ \A u : Queued(queue', u) <=> Queued(queue, u) /\ u # t
        BY <2>1, WithoutQueues
    <2> QED
        BY <1>0, <2>1, <2>2
<1>10. CASE UNCHANGED vars
    BY <1>1, <1>10 DEF vars
<1> QED
    BY <1>2, <1>3, <1>4, <1>5, <1>6, <1>7, <1>8, <1>9, <1>10 DEF Next

\* The lock forgets no task that waits for it and serves none twice, whatever the
\* order in which tasks come, are handed the lock and are cancelled in its queue.
THEOREM NoWaiterForgotten == Spec => []QueueInv
<1>1. Init => QueueInv
    BY InitQueue
<1>2. HandshakeInv /\ QueueInv /\ [Next]_vars => QueueInv'
    BY QueueStep DEF HandshakeInv
<1> QED
    BY <1>1, <1>2, HandshakeInvariant, PTL DEF Spec

\* Every variable of the throttle and the handshake holds a value of its kind, and
\* the lock is held by the task that sleeps in it and by no other.
THEOREM HandshakeTypeCorrect == Spec => []TypeOK
<1>1. HandshakeInv /\ QueueInv => TypeOK
    BY DEF HandshakeInv, HandshakeTypes, LockInv, QueueInv, TypeOK
<1> QED
    BY <1>1, HandshakeInvariant, NoWaiterForgotten, PTL
=============================================================================
