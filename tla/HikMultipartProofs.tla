--------------------------- MODULE HikMultipartProofs ---------------------------
(***************************************************************************)
(* Proofs about HikMultipart, for any parts, any length of a connection, any *)
(* buffer and any cut of the bytes into chunks: what the parser finds is     *)
(* where the parts of the stream begin, and what it yields is what they mean. *)
(* Induction over the parts is by the least number for which a claim fails.   *)
(***************************************************************************)
EXTENDS HikMultipart, FiniteSetTheorems, SequenceTheorems, WellFoundedInduction, TLAPS

USE BoundsAssumption

-----------------------------------------------------------------------------
(* Numbers. *)

\* A set of numbers that is not empty has a least element.
LEMMA LeastNumber ==
    ASSUME NEW T \in SUBSET Nat, T # {}
    PROVE  \E m \in T : \A n \in T : m <= n
<1> DEFINE R == OpToRel(<, Nat)
<1>1. IsWellFoundedOn(R, Nat)
    BY NatLessThanWellFounded
<1>2. R = {ss \in Nat \X Nat : ss[1] < ss[2]}
    BY DEF OpToRel
<1> HIDE DEF R
<1>3. PICK m \in T : \A n \in T : ~(<<n, m>> \in R)
    BY <1>1, WFMin
<1>4. \A n \in T : ~(n < m)
    BY <1>2, <1>3
<1> QED
    BY <1>4

\* A set of numbers up to n that does not hold 0, nor a number whose predecessor it
\* does not hold, is empty.
LEMMA NoLeast ==
    ASSUME NEW n \in Nat, NEW T, T \subseteq 0..n, 0 \notin T,
           \A m \in 1..n : m - 1 \notin T => m \notin T
    PROVE  T = {}
<1> SUFFICES ASSUME T # {} PROVE FALSE
    OBVIOUS
<1>1. T \in SUBSET Nat
    OBVIOUS
<1>2. PICK m \in T : \A k \in T : m <= k
    BY <1>1, LeastNumber
<1>3. m \in 1..n /\ m - 1 \in Nat /\ m \in Nat
    OBVIOUS
<1>4. ~(m <= m - 1)
    BY <1>3
<1> QED
    BY <1>2, <1>3, <1>4

\* Min returns the least element of a set that has one.
LEMMA MinIs ==
    ASSUME NEW S \in SUBSET Nat, NEW m \in S, \A n \in S : m <= n
    PROVE  Min(S) = m
<1>1. Min(S) \in S /\ \A n \in S : Min(S) <= n
    BY DEF Min
<1>2. Min(S) <= m /\ m <= Min(S)
    BY <1>1
<1>3. Min(S) \in Nat /\ m \in Nat
    BY <1>1
<1> HIDE DEF Min
<1> QED
    BY <1>2, <1>3

-----------------------------------------------------------------------------
(* Sequences. *)

\* Two sequences that agree between two places have the same part there.
LEMMA SubSeqAgree ==
    ASSUME NEW S, NEW s \in Seq(S), NEW t \in Seq(S), NEW m \in Nat \ {0}, NEW n \in Nat,
           n <= Len(s), n <= Len(t), \A i \in m..n : s[i] = t[i]
    PROVE  SubSeq(s, m, n) = SubSeq(t, m, n)
<1>1. \A i \in m..n : s[i] \in S /\ t[i] \in S
    <2>1. \A i \in m..n : i \in 1..Len(s) /\ i \in 1..Len(t)
        BY LenProperties
    <2> QED
        BY <2>1, ElementOfSeq
<1> DEFINE a == SubSeq(s, m, n)
           b == SubSeq(t, m, n)
<1>2. /\ a \in Seq(S) /\ Len(a) = (IF m <= n THEN n - m + 1 ELSE 0)
      /\ \A i \in 1..(n - m + 1) : a[i] = s[m + i - 1]
    BY <1>1, SubSeqProperties
<1>3. /\ b \in Seq(S) /\ Len(b) = (IF m <= n THEN n - m + 1 ELSE 0)
      /\ \A i \in 1..(n - m + 1) : b[i] = t[m + i - 1]
    BY <1>1, SubSeqProperties
<1> HIDE DEF a, b
<1>4. ASSUME NEW i \in 1..Len(a) PROVE a[i] = b[i]
    <2>1. i \in 1..(n - m + 1) /\ m + i - 1 \in m..n
        BY <1>2
    <2> QED
        BY <1>2, <1>3, <2>1
<1>5. a = b
    BY <1>2, <1>3, <1>4, SeqEqual
<1> QED
    BY <1>5 DEF a, b

\* A part of a sequence, place by place.
LEMMA SubSeqIs ==
    ASSUME NEW S, NEW s \in Seq(S), NEW m \in Nat \ {0}, NEW n \in Nat,
           n <= Len(s), m <= n + 1
    PROVE  /\ SubSeq(s, m, n) \in Seq(S)
           /\ Len(SubSeq(s, m, n)) = n + 1 - m
           /\ \A i \in 1..(n + 1 - m) : SubSeq(s, m, n)[i] = s[m + i - 1]
<1>1. \A i \in m..n : s[i] \in S
    <2>1. \A i \in m..n : i \in 1..Len(s)
        BY LenProperties
    <2> QED
        BY <2>1, ElementOfSeq
<1>2. n + 1 - m = n - m + 1
    OBVIOUS
<1>3. /\ SubSeq(s, m, n) \in Seq(S)
      /\ Len(SubSeq(s, m, n)) = (IF m <= n THEN n - m + 1 ELSE 0)
      /\ \A i \in 1..(n - m + 1) : SubSeq(s, m, n)[i] = s[m + i - 1]
    BY <1>1, SubSeqProperties
<1> QED
    BY <1>2, <1>3

\* What two sequences hold one behind the other.
LEMMA ConcatIs ==
    ASSUME NEW s \in Seq(Symbols), NEW t \in Seq(Symbols)
    PROVE  /\ s \o t \in Seq(Symbols)
           /\ Len(s \o t) = Len(s) + Len(t)
           /\ \A i \in 1..Len(s) : (s \o t)[i] = s[i]
           /\ \A i \in 1..Len(t) : (s \o t)[Len(s) + i] = t[i]
<1> DEFINE r == s \o t
<1>1. /\ r \in Seq(Symbols) /\ Len(r) = Len(s) + Len(t)
      /\ \A i \in 1..(Len(s) + Len(t)) : r[i] = IF i <= Len(s) THEN s[i] ELSE t[i - Len(s)]
    BY ConcatProperties
<1> HIDE DEF r
<1>2. Len(s) \in Nat /\ Len(t) \in Nat
    BY LenProperties
<1>3. \A i \in 1..Len(s) : r[i] = s[i]
    BY <1>1, <1>2
<1>4. ASSUME NEW i \in 1..Len(t) PROVE r[Len(s) + i] = t[i]
    <2>1. /\ Len(s) + i \in 1..(Len(s) + Len(t)) /\ ~(Len(s) + i <= Len(s))
          /\ (Len(s) + i) - Len(s) = i
        BY <1>2
    <2> QED
        BY <1>1, <2>1
<1> QED
    BY <1>1, <1>3, <1>4 DEF r

-----------------------------------------------------------------------------
(* FlattenSeq of the first k of a row of sequences. *)

Flat(f, k) == FlattenSeq([j \in 1..k |-> f[j]])

\* g is the running concatenation of f.
Runs(S, f, n, g) ==
    /\ g \in [1..n -> Seq(S)]
    /\ \A i \in 1..n : g[i] = IF i = 1 THEN f[1] ELSE g[i - 1] \o f[i]

\* Every row of sequences has one.
LEMMA RunExists ==
    ASSUME NEW S, NEW n \in Nat, NEW f \in [1..n -> Seq(S)]
    PROVE  \E g : Runs(S, f, n, g)
<1> DEFINE T == {k \in 0..n : ~ \E g : Runs(S, f, k, g)}
<1>1. 0 \notin T
    <2>1. Runs(S, f, 0, [i \in 1..0 |-> <<>>])
        BY DEF Runs
    <2> QED
        BY <2>1
<1>2. ASSUME NEW k \in 1..n, k - 1 \notin T PROVE k \notin T
    <2>1. k - 1 \in 0..n /\ k \in Nat /\ k >= 1
        OBVIOUS
    <2>2. PICK g : Runs(S, f, k - 1, g)
        BY <1>2, <2>1
    <2> DEFINE v == IF k = 1 THEN f[1] ELSE g[k - 1] \o f[k]
               e == [i \in 1..k |-> IF i = k THEN v ELSE g[i]]
    <2>3. v \in Seq(S)
        <3>1. f[k] \in Seq(S)
            OBVIOUS
        <3>2. CASE k # 1
            <4>1. g[k - 1] \in Seq(S)
                BY <2>1, <2>2, <3>2 DEF Runs
            <4>2. g[k - 1] \o f[k] \in Seq(S)
                BY <3>1, <4>1, ConcatProperties
            <4> QED
                BY <3>2, <4>2
        <3> QED
            BY <3>1, <3>2
    <2>4. \A i \in 1..k : i = k \/ i \in 1..(k - 1)
        OBVIOUS
    <2>5. e \in [1..k -> Seq(S)]
        <3>1. \A i \in 1..(k - 1) : g[i] \in Seq(S)
            BY <2>2 DEF Runs
        <3> HIDE DEF v
        <3> QED
            BY <2>3, <2>4, <3>1
    <2>6. ASSUME NEW i \in 1..k PROVE e[i] = IF i = 1 THEN f[1] ELSE e[i - 1] \o f[i]
        <3>1. CASE i = k
            <4>1. i # 1 => e[i - 1] = g[i - 1]
                BY <2>1, <3>1
            <4> QED
                BY <3>1, <4>1
        <3>2. CASE i # k
            <4>1. i \in 1..(k - 1) /\ (i # 1 => i - 1 \in 1..k /\ i - 1 # k)
                BY <2>1, <3>2
            <4>2. e[i] = g[i] /\ (i # 1 => e[i - 1] = g[i - 1])
                BY <3>2, <4>1
            <4>3. g[i] = IF i = 1 THEN f[1] ELSE g[i - 1] \o f[i]
                BY <2>2, <4>1 DEF Runs
            <4> QED
                BY <4>2, <4>3
        <3> QED
            BY <3>1, <3>2
    <2> HIDE DEF e
    <2>7. Runs(S, f, k, e)
        BY <2>5, <2>6 DEF Runs
    <2> QED
        BY <2>7
<1> HIDE DEF Runs
<1>3. T = {}
    <2> HIDE DEF T
    <2>1. T \subseteq 0..n
        BY DEF T
    <2> QED
        BY <1>1, <1>2, <2>1, NoLeast
<1>4. n \in 0..n
    OBVIOUS
<1> QED
    BY <1>3, <1>4

\* FlattenSeq is the last of the running concatenations.
LEMMA FlattenIs ==
    ASSUME NEW q, Len(q) # 0
    PROVE  FlattenSeq(q) =
             (CHOOSE r : r = [i \in 1..Len(q) |-> IF i = 1 THEN q[i] ELSE r[i - 1] \o q[i]])[Len(q)]
BY DEF FlattenSeq

\* What FlattenSeq does with one sequence more.
LEMMA FlatStep ==
    ASSUME NEW S, NEW n \in Nat, NEW f \in [1..n -> Seq(S)]
    PROVE  /\ Flat(f, 0) = <<>>
           /\ \A k \in 0..n : Flat(f, k) \in Seq(S)
           /\ \A k \in 1..n : Flat(f, k) = Flat(f, k - 1) \o f[k]
<1>1. PICK g : Runs(S, f, n, g)
    BY RunExists
<1>2. Flat(f, 0) = <<>>
    <2> DEFINE q == [j \in 1..0 |-> f[j]]
    <2>1. q = <<>>
        OBVIOUS
    <2>2. FlattenSeq(<<>>) = <<>>
        BY EmptySeq DEF FlattenSeq
    <2> HIDE DEF q
    <2>3. FlattenSeq(q) = <<>>
        BY <2>1, <2>2
    <2> QED
        BY <2>3 DEF Flat, q
<1>3. ASSUME NEW k \in 1..n PROVE Flat(f, k) = g[k]
    <2> DEFINE q == [j \in 1..k |-> f[j]]
    <2>1. q \in [1..k -> Seq(S)] /\ \A j \in 1..k : q[j] = f[j]
        OBVIOUS
    <2>2. Len(q) = k
        BY LenProperties
    <2> DEFINE Step(r) == r = [i \in 1..k |-> IF i = 1 THEN q[i] ELSE r[i - 1] \o q[i]]
               r == CHOOSE h : Step(h)
    <2> HIDE DEF q
    <2>3. Flat(f, k) = r[k]
        <3>1. k # 0
            OBVIOUS
        <3>2. FlattenSeq(q) = r[k]
            BY <2>2, <3>1, FlattenIs
        <3> QED
            BY <3>2 DEF Flat, q
    <2>4. Step(r)
        <3> DEFINE h == [i \in 1..k |-> g[i]]
        <3>1. ASSUME NEW i \in 1..k
              PROVE  h[i] = IF i = 1 THEN q[i] ELSE h[i - 1] \o q[i]
            <4>1. i \in 1..n /\ q[i] = f[i] /\ (i # 1 => i - 1 \in 1..k)
                BY <2>1
            <4>2. g[i] = IF i = 1 THEN f[1] ELSE g[i - 1] \o f[i]
                BY <1>1, <4>1 DEF Runs
            <4> QED
                BY <4>1, <4>2
        <3>2. h = [i \in 1..k |-> h[i]]
            OBVIOUS
        <3> HIDE DEF h
        <3>3. Step(h)
            BY <3>1, <3>2
        <3> HIDE DEF Step
        <3> QED
            BY <3>3
    <2> HIDE DEF r
    <2>5. \A i \in 1..k : r[i] = IF i = 1 THEN q[i] ELSE r[i - 1] \o q[i]
        BY <2>4
    <2> DEFINE T == {i \in 0..k : i # 0 /\ r[i] # g[i]}
    <2>6. T = {}
        <3>1. ASSUME NEW i \in 1..k, i - 1 \notin T PROVE i \notin T
            <4>1. i \in 1..n /\ q[i] = f[i] /\ i - 1 \in 0..k /\ i # 0
                BY <2>1
            <4>2. g[i] = IF i = 1 THEN f[1] ELSE g[i - 1] \o f[i]
                BY <1>1, <4>1 DEF Runs
            <4>3. i # 1 => r[i - 1] = g[i - 1]
                BY <3>1, <4>1
            <4>4. r[i] = g[i]
                BY <2>5, <4>1, <4>2, <4>3
            <4> QED
                BY <4>4
        <3>2. 0 \notin T /\ T \subseteq 0..k /\ k \in Nat
            OBVIOUS
        <3> HIDE DEF T
        <3> QED
            BY <3>1, <3>2, NoLeast
    <2>7. r[k] = g[k]
        <3>1. k \in 0..k /\ k # 0
            OBVIOUS
        <3> QED
            BY <2>6, <3>1
    <2> QED
        BY <2>3, <2>7
<1>4. ASSUME NEW k \in 0..n PROVE Flat(f, k) \in Seq(S)
    <2>1. k = 0 \/ k \in 1..n
        OBVIOUS
    <2>2. k \in 1..n => g[k] \in Seq(S)
        BY <1>1 DEF Runs
    <2> QED
        BY <1>2, <1>3, <2>1, <2>2, EmptySeq
<1>5. ASSUME NEW k \in 1..n PROVE Flat(f, k) = Flat(f, k - 1) \o f[k]
    <2>1. g[k] = IF k = 1 THEN f[1] ELSE g[k - 1] \o f[k]
        BY <1>1 DEF Runs
    <2>2. CASE k = 1
        <3>1. Flat(f, k - 1) = <<>> /\ f[k] \in Seq(S)
            BY <1>2, <2>2
        <3>2. <<>> \o f[k] = f[k]
            BY <3>1, ConcatEmptySeq
        <3> QED
            BY <1>3, <2>1, <2>2, <3>1, <3>2
    <2>3. CASE k # 1
        <3>1. k - 1 \in 1..n
            BY <2>3
        <3>2. Flat(f, k - 1) = g[k - 1] /\ Flat(f, k) = g[k]
            BY <1>3, <3>1
        <3> QED
            BY <2>1, <2>3, <3>2
    <2> QED
        BY <2>2, <2>3
<1> QED
    BY <1>2, <1>4, <1>5

-----------------------------------------------------------------------------
(* The bytes of a connection. *)

\* The bytes of the first n parts of q, and where they end.
Bytes(q, n) == FlattenSeq([j \in 1..n |-> Boundary \o q[j].bytes])
End(q, n)   == Len(Bytes(q, n))

LEMMA BoundaryIs ==
    /\ Boundary \in Seq(Symbols) /\ Len(Boundary) = 2
    /\ Boundary[1] = "-" /\ Boundary[2] = "B"
<1>1. Boundary[1] = "-" /\ Boundary[2] = "B" /\ Len(Boundary) = 2
    BY DEF Boundary
<1>2. "-" \in Symbols /\ "B" \in Symbols
    BY SymbolsAssumption
<1>3. Boundary \in Seq(Symbols)
    BY <1>2 DEF Boundary
<1> QED
    BY <1>1, <1>3

LEMMA PartIs ==
    ASSUME NEW q \in Seq(Parts), NEW n \in 1..Len(q)
    PROVE  /\ q[n] \in Parts
           /\ q[n].bytes \in Seq(Symbols) /\ Len(q[n].bytes) \in Nat
           /\ q[n].events \in Seq(Symbols)
           /\ Boundary \o q[n].bytes \in Seq(Symbols)
<1>1. q[n] \in Parts
    BY ElementOfSeq
<1>2. q[n].bytes \in Seq(Symbols) /\ q[n].events \in Seq(Symbols)
    BY <1>1, PartsAssumption
<1> QED
    BY <1>1, <1>2, LenProperties, BoundaryIs, ConcatProperties

\* A part more is a boundary and its bytes more.
LEMMA BytesStep ==
    ASSUME NEW q \in Seq(Parts)
    PROVE  /\ Bytes(q, 0) = <<>> /\ End(q, 0) = 0
           /\ \A n \in 0..Len(q) : Bytes(q, n) \in Seq(Symbols) /\ End(q, n) \in Nat
           /\ \A n \in 1..Len(q) :
                 Bytes(q, n) = Bytes(q, n - 1) \o (Boundary \o q[n].bytes)
<1> DEFINE N == Len(q)
           f == [j \in 1..N |-> Boundary \o q[j].bytes]
<1>1. N \in Nat
    BY LenProperties
<1>2. f \in [1..N -> Seq(Symbols)]
    BY PartIs
<1>3. ASSUME NEW n \in 0..N PROVE Bytes(q, n) = Flat(f, n)
    <2>1. \A j \in 1..n : f[j] = Boundary \o q[j].bytes
        BY <1>1
    <2>2. [j \in 1..n |-> f[j]] = [j \in 1..n |-> Boundary \o q[j].bytes]
        BY <2>1
    <2> HIDE DEF f
    <2> QED
        BY <2>2 DEF Bytes, Flat
<1>4. \A n \in 1..N : f[n] = Boundary \o q[n].bytes
    OBVIOUS
<1> HIDE DEF f
<1>5. /\ Flat(f, 0) = <<>>
      /\ \A n \in 0..N : Flat(f, n) \in Seq(Symbols)
      /\ \A n \in 1..N : Flat(f, n) = Flat(f, n - 1) \o f[n]
    BY <1>1, <1>2, FlatStep
<1>6. 0 \in 0..N /\ \A n \in 1..N : n \in 0..N /\ n - 1 \in 0..N
    BY <1>1
<1>7. Bytes(q, 0) = <<>>
    BY <1>3, <1>5, <1>6
<1>8. End(q, 0) = 0
    BY <1>7, EmptySeq DEF End
<1>9. ASSUME NEW n \in 0..N PROVE Bytes(q, n) \in Seq(Symbols) /\ End(q, n) \in Nat
    BY <1>3, <1>5, LenProperties DEF End
<1>10. ASSUME NEW n \in 1..N
       PROVE  Bytes(q, n) = Bytes(q, n - 1) \o (Boundary \o q[n].bytes)
    BY <1>3, <1>4, <1>5, <1>6
<1> QED
    BY <1>7, <1>8, <1>9, <1>10

\* Where it stands.
LEMMA BytesGrow ==
    ASSUME NEW q \in Seq(Parts), NEW n \in 1..Len(q)
    PROVE  /\ End(q, n - 1) \in Nat
           /\ End(q, n) = End(q, n - 1) + 2 + Len(q[n].bytes)
           /\ \A i \in 1..End(q, n - 1) : Bytes(q, n)[i] = Bytes(q, n - 1)[i]
           /\ Bytes(q, n)[End(q, n - 1) + 1] = "-"
           /\ Bytes(q, n)[End(q, n - 1) + 2] = "B"
           /\ \A i \in 1..Len(q[n].bytes) :
                 Bytes(q, n)[End(q, n - 1) + 2 + i] = q[n].bytes[i]
<1> DEFINE a == Bytes(q, n - 1)
           b == q[n].bytes
           c == Boundary \o b
<1>1. n - 1 \in 0..Len(q)
    OBVIOUS
<1>2. a \in Seq(Symbols) /\ Len(a) \in Nat /\ Bytes(q, n) = a \o c
    BY <1>1, BytesStep DEF End
<1>3. b \in Seq(Symbols) /\ Len(b) \in Nat
    BY PartIs
<1> HIDE DEF a, b
<1>4. /\ c \in Seq(Symbols) /\ Len(c) = 2 + Len(b)
      /\ \A i \in 1..2 : c[i] = Boundary[i]
      /\ \A i \in 1..Len(b) : c[2 + i] = b[i]
    <2>1. Boundary \in Seq(Symbols) /\ Len(Boundary) = 2
        BY BoundaryIs
    <2>2. /\ c \in Seq(Symbols) /\ Len(c) = Len(Boundary) + Len(b)
          /\ \A i \in 1..Len(Boundary) : c[i] = Boundary[i]
          /\ \A i \in 1..Len(b) : c[Len(Boundary) + i] = b[i]
        BY <1>3, <2>1, ConcatIs
    <2> HIDE DEF c
    <2> QED
        BY <2>1, <2>2
<1> HIDE DEF c
<1> DEFINE d == a \o c
<1>5. /\ Len(d) = Len(a) + (2 + Len(b))
      /\ \A i \in 1..Len(a) : d[i] = a[i]
      /\ \A i \in 1..(2 + Len(b)) : d[Len(a) + i] = c[i]
    <2>1. /\ Len(d) = Len(a) + Len(c)
          /\ \A i \in 1..Len(a) : d[i] = a[i]
          /\ \A i \in 1..Len(c) : d[Len(a) + i] = c[i]
        BY <1>2, <1>4, ConcatIs
    <2> HIDE DEF d
    <2> QED
        BY <1>4, <2>1
<1>6. Bytes(q, n) = d /\ End(q, n) = Len(d) /\ End(q, n - 1) = Len(a)
    BY <1>2 DEF End, a
<1> HIDE DEF d
<1>7. d[Len(a) + 1] = "-" /\ d[Len(a) + 2] = "B"
    <2>1. 1 \in 1..(2 + Len(b)) /\ 2 \in 1..(2 + Len(b)) /\ 1 \in 1..2 /\ 2 \in 1..2
        BY <1>3
    <2> QED
        BY <1>4, <1>5, <2>1, BoundaryIs
<1>8. ASSUME NEW i \in 1..Len(b) PROVE d[Len(a) + 2 + i] = b[i]
    <2>1. 2 + i \in 1..(2 + Len(b)) /\ Len(a) + (2 + i) = Len(a) + 2 + i
        BY <1>2, <1>3
    <2> QED
        BY <1>4, <1>5, <2>1
<1>9. Len(d) = Len(a) + 2 + Len(b)
    BY <1>2, <1>3, <1>5
<1>10. \A i \in 1..Len(a) : d[i] = a[i]
    BY <1>5
<1> QED
    BY <1>2, <1>6, <1>7, <1>8, <1>9, <1>10 DEF a, b

\* What later parts add stands behind the earlier ones.
LEMMA BytesStay ==
    ASSUME NEW q \in Seq(Parts), NEW m \in 0..Len(q), NEW n \in m..Len(q)
    PROVE  /\ End(q, m) <= End(q, n)
           /\ \A i \in 1..End(q, m) : Bytes(q, n)[i] = Bytes(q, m)[i]
<1> DEFINE N == Len(q)
           Stays(k) == /\ End(q, m) <= End(q, k)
                       /\ \A i \in 1..End(q, m) : Bytes(q, k)[i] = Bytes(q, m)[i]
           T == {k \in 0..N : m <= k /\ ~Stays(k)}
<1>1. N \in Nat /\ m \in Nat /\ End(q, m) \in Nat
    <2>1. N \in Nat
        BY LenProperties
    <2>2. End(q, m) \in Nat
        BY BytesStep
    <2> QED
        BY <2>1, <2>2
<1>2. Stays(m)
    BY <1>1
<1>3. 0 \notin T
    <2>1. m <= 0 => m = 0
        BY <1>1
    <2> HIDE DEF Stays
    <2> QED
        BY <1>2, <2>1
<1>4. ASSUME NEW k \in 1..N, k - 1 \notin T PROVE k \notin T
    <2>1. SUFFICES ASSUME m <= k, m # k PROVE Stays(k)
        BY <1>2
    <2>2. m <= k - 1 /\ k - 1 \in 0..N
        BY <1>1, <2>1
    <2>3. Stays(k - 1)
        <3> HIDE DEF Stays
        <3> QED
            BY <1>4, <2>2
    <2>4. /\ End(q, k - 1) \in Nat /\ Len(q[k].bytes) \in Nat
          /\ End(q, k) = End(q, k - 1) + 2 + Len(q[k].bytes)
          /\ \A i \in 1..End(q, k - 1) : Bytes(q, k)[i] = Bytes(q, k - 1)[i]
        BY BytesGrow, PartIs
    <2>5. End(q, m) <= End(q, k)
        BY <1>1, <2>3, <2>4
    <2>6. ASSUME NEW i \in 1..End(q, m) PROVE Bytes(q, k)[i] = Bytes(q, m)[i]
        <3>1. i \in 1..End(q, k - 1)
            BY <1>1, <2>3, <2>4
        <3> QED
            BY <2>3, <2>4, <3>1
    <2> QED
        BY <2>5, <2>6
<1> HIDE DEF Stays
<1>5. T \subseteq 0..N
    OBVIOUS
<1>6. T = {}
    <2> HIDE DEF T
    <2> QED
        BY <1>1, <1>3, <1>4, <1>5, NoLeast
<1>7. n \in 0..N /\ m <= n
    BY <1>1
<1>8. Stays(n)
    BY <1>6, <1>7
<1> QED
    BY <1>8 DEF Stays

\* The n-th part in the bytes of all: its boundary, its bytes, and the boundary of
\* the part behind it.
LEMMA PartInStream ==
    ASSUME NEW q \in Seq(Parts), NEW n \in 1..Len(q)
    PROVE  LET w == Bytes(q, Len(q))
               o == End(q, n - 1)
               e == End(q, n)
           IN  /\ w \in Seq(Symbols) /\ Len(w) = End(q, Len(q)) /\ Len(w) \in Nat
               /\ o \in Nat /\ e \in Nat
               /\ e = o + 2 + Len(q[n].bytes) /\ e <= Len(w)
               /\ w[o + 1] = "-" /\ w[o + 2] = "B"
               /\ \A i \in 1..Len(q[n].bytes) : w[o + 2 + i] = q[n].bytes[i]
               /\ n < Len(q) => /\ e + 2 <= Len(w)
                                /\ w[e + 1] = "-" /\ w[e + 2] = "B"
<1> DEFINE N == Len(q)
           w == Bytes(q, N)
           o == End(q, n - 1)
           e == End(q, n)
           b == q[n].bytes
<1>1. N \in Nat /\ N \in 0..N /\ n \in 0..N /\ N \in n..N /\ n \in Nat
    BY LenProperties
<1>2. w \in Seq(Symbols) /\ Len(w) = End(q, N) /\ Len(w) \in Nat
    BY <1>1, BytesStep DEF End
<1>3. /\ o \in Nat /\ e = o + 2 + Len(b) /\ Len(b) \in Nat
      /\ Bytes(q, n)[o + 1] = "-" /\ Bytes(q, n)[o + 2] = "B"
      /\ \A i \in 1..Len(b) : Bytes(q, n)[o + 2 + i] = b[i]
    BY BytesGrow, PartIs
<1>4. e <= Len(w) /\ \A i \in 1..e : w[i] = Bytes(q, n)[i]
    BY <1>1, <1>2, BytesStay
<1>5. n < N => /\ e + 2 <= Len(w)
               /\ w[e + 1] = "-" /\ w[e + 2] = "B"
    <2> SUFFICES ASSUME n < N PROVE /\ e + 2 <= Len(w)
                                    /\ w[e + 1] = "-" /\ w[e + 2] = "B"
        OBVIOUS
    <2> DEFINE d == End(q, n + 1)
    <2>1. n + 1 \in 1..N /\ N \in (n + 1)..N /\ n + 1 \in 0..N /\ (n + 1) - 1 = n
        BY <1>1
    <2>2. /\ d = e + 2 + Len(q[n + 1].bytes) /\ Len(q[n + 1].bytes) \in Nat
          /\ Bytes(q, n + 1)[e + 1] = "-" /\ Bytes(q, n + 1)[e + 2] = "B"
        <3>1. /\ d = End(q, (n + 1) - 1) + 2 + Len(q[n + 1].bytes)
              /\ Bytes(q, n + 1)[End(q, (n + 1) - 1) + 1] = "-"
              /\ Bytes(q, n + 1)[End(q, (n + 1) - 1) + 2] = "B"
            BY <2>1, BytesGrow
        <3>2. Len(q[n + 1].bytes) \in Nat /\ End(q, (n + 1) - 1) = e
            BY <2>1, PartIs
        <3> QED
            BY <3>1, <3>2
    <2>3. d <= Len(w) /\ \A i \in 1..d : w[i] = Bytes(q, n + 1)[i]
        BY <1>2, <2>1, BytesStay
    <2>4. e \in Nat
        BY <1>3
    <2> HIDE DEF d, e, w
    <2>5. e + 1 \in 1..d /\ e + 2 \in 1..d /\ e + 2 <= d /\ d \in Nat
        <3> DEFINE l == Len(q[n + 1].bytes)
        <3>1. d = e + 2 + l /\ l \in Nat
            BY <2>2
        <3> HIDE DEF l
        <3> QED
            BY <2>4, <3>1
    <2>6. w[e + 1] = Bytes(q, n + 1)[e + 1] /\ w[e + 2] = Bytes(q, n + 1)[e + 2]
        BY <2>3, <2>5
    <2>7. e + 2 <= Len(w)
        BY <1>2, <2>3, <2>4, <2>5
    <2> QED
        BY <2>2, <2>6, <2>7
<1> HIDE DEF w, o, e, b
<1>6. w[o + 1] = "-" /\ w[o + 2] = "B"
    <2>1. o + 1 \in 1..e /\ o + 2 \in 1..e
        BY <1>3
    <2> QED
        BY <1>3, <1>4, <2>1
<1>7. ASSUME NEW i \in 1..Len(b) PROVE w[o + 2 + i] = b[i]
    <2>1. o + 2 + i \in 1..e
        BY <1>3
    <2> QED
        BY <1>3, <1>4, <2>1
<1>8. e \in Nat
    BY <1>3
<1> QED
    BY <1>2, <1>3, <1>4, <1>5, <1>6, <1>7, <1>8 DEF w, o, e, b

\* Two parts end at least a boundary apart.
LEMMA EndsApart ==
    ASSUME NEW q \in Seq(Parts), NEW m \in 0..Len(q), NEW n \in 0..Len(q), m < n
    PROVE  End(q, m) + 2 <= End(q, n)
<1>1. m + 1 \in 1..Len(q) /\ n \in (m + 1)..Len(q) /\ (m + 1) - 1 = m /\ m + 1 \in 0..Len(q)
    BY LenProperties
<1>2. /\ End(q, m) \in Nat /\ Len(q[m + 1].bytes) \in Nat
      /\ End(q, m + 1) = End(q, m) + 2 + Len(q[m + 1].bytes)
    BY <1>1, BytesGrow, PartIs
<1>3. End(q, m + 1) <= End(q, n) /\ End(q, n) \in Nat
    BY <1>1, BytesStay, BytesStep
<1> QED
    BY <1>2, <1>3

-----------------------------------------------------------------------------
(* What the parser finds. *)

\* A boundary stands where its two symbols do.
LEMMA PairIs ==
    ASSUME NEW s \in Seq(Symbols), NEW j \in 1..(Len(s) - 1)
    PROVE  SubSeq(s, j, j + 1) = Boundary <=> s[j] = "-" /\ s[j + 1] = "B"
<1> DEFINE a == SubSeq(s, j, j + 1)
<1>1. Len(s) \in Nat
    BY LenProperties
<1>2. j \in Nat \ {0} /\ j + 1 \in Nat /\ j + 1 <= Len(s) /\ j <= (j + 1) + 1
      /\ (j + 1) + 1 - j = 2
    BY <1>1
<1>3. /\ a \in Seq(Symbols) /\ Len(a) = (j + 1) + 1 - j
      /\ \A i \in 1..((j + 1) + 1 - j) : a[i] = s[j + i - 1]
    BY <1>2, SubSeqIs
<1> HIDE DEF a
<1>4. a[1] = s[j + 1 - 1] /\ a[2] = s[j + 2 - 1]
    BY <1>2, <1>3
<1>5. j + 1 - 1 = j /\ j + 2 - 1 = j + 1
    BY <1>2
<1>6. a[1] = s[j] /\ a[2] = s[j + 1] /\ Len(a) = 2
    BY <1>2, <1>3, <1>4, <1>5
<1>7. a = Boundary => s[j] = "-" /\ s[j + 1] = "B"
    BY <1>6, BoundaryIs
<1>8. ASSUME s[j] = "-", s[j + 1] = "B" PROVE a = Boundary
    <2>1. \A i \in 1..Len(a) : a[i] = Boundary[i]
        BY <1>6, <1>8, BoundaryIs
    <2> QED
        BY <1>3, <1>6, <2>1, BoundaryIs, SeqEqual
<1> QED
    BY <1>7, <1>8 DEF a

\* No boundary stands inside a part.
LEMMA NotInside ==
    ASSUME NEW p \in Parts, NEW i \in 1..(Len(p.bytes) - 1)
    PROVE  ~(p.bytes[i] = "-" /\ p.bytes[i + 1] = "B")
<1>1. p.bytes \in Seq(Symbols) /\ SubSeq(p.bytes, i, i + 1) # Boundary
    BY PartsAssumption
<1> QED
    BY <1>1, PairIs

\* A buffer that holds the bytes from the end of the h-th part on.
LEMMA BufferIs ==
    ASSUME NEW q \in Seq(Parts), NEW h \in 0..Len(q), NEW t \in Nat,
           End(q, h) <= t, t <= End(q, Len(q))
    PROVE  LET w == Bytes(q, Len(q))
               o == End(q, h)
               b == SubSeq(w, o + 1, t)
           IN  /\ w \in Seq(Symbols) /\ Len(w) = End(q, Len(q)) /\ Len(w) \in Nat
               /\ o \in Nat
               /\ b \in Seq(Symbols) /\ Len(b) = t - o
               /\ \A j \in 1..(t - o) : b[j] = w[o + j]
<1> DEFINE N == Len(q)
           w == Bytes(q, N)
           o == End(q, h)
           b == SubSeq(w, o + 1, t)
<1>1. N \in Nat /\ N \in 0..N
    BY LenProperties
<1>2. w \in Seq(Symbols) /\ Len(w) = End(q, N) /\ Len(w) \in Nat
    BY <1>1, BytesStep DEF End
<1>3. o \in Nat
    BY BytesStep
<1> HIDE DEF w, o
<1>4. o + 1 \in Nat \ {0} /\ t <= Len(w) /\ o + 1 <= t + 1 /\ t + 1 - (o + 1) = t - o
    BY <1>2, <1>3 DEF o
<1>5. /\ b \in Seq(Symbols) /\ Len(b) = t + 1 - (o + 1)
      /\ \A j \in 1..(t + 1 - (o + 1)) : b[j] = w[(o + 1) + j - 1]
    BY <1>2, <1>4, SubSeqIs, SMTT(30)
<1> HIDE DEF b
<1>6. ASSUME NEW j \in 1..(t - o) PROVE b[j] = w[o + j]
    <2>1. (o + 1) + j - 1 = o + j
        BY <1>3
    <2> QED
        BY <1>4, <1>5, <2>1
<1> QED
    BY <1>2, <1>3, <1>4, <1>5, <1>6 DEF w, o, b

\* Its first boundary, if there is one, is its first two bytes.
LEMMA FirstBoundary ==
    ASSUME NEW q \in Seq(Parts), NEW h \in 0..Len(q), NEW t \in Nat,
           End(q, h) <= t, t <= End(q, Len(q))
    PROVE  LET b == SubSeq(Bytes(q, Len(q)), End(q, h) + 1, t)
           IN  /\ End(q, h) + 2 <= t => h < Len(q) /\ Find(b, 1) = 1
               /\ ~(End(q, h) + 2 <= t) => Find(b, 1) = 0
<1> DEFINE N == Len(q)
           w == Bytes(q, N)
           o == End(q, h)
           b == SubSeq(w, o + 1, t)
<1>1. /\ o \in Nat /\ b \in Seq(Symbols) /\ Len(b) = t - o
      /\ \A j \in 1..(t - o) : b[j] = w[o + j]
    BY BufferIs
<1>2. End(q, N) \in Nat /\ N \in Nat /\ (h < N \/ h = N)
    <2>1. N \in Nat /\ N \in 0..N
        BY LenProperties
    <2>2. End(q, N) \in Nat
        BY <2>1, BytesStep
    <2> QED
        BY <2>1, <2>2
<1>3. ASSUME o + 2 <= t PROVE h < N /\ Find(b, 1) = 1
    <2>1. h < N
        BY <1>1, <1>2, <1>3
    <2>2. h + 1 \in 1..N /\ (h + 1) - 1 = h
        BY <2>1
    <2>3. w[End(q, (h + 1) - 1) + 1] = "-" /\ w[End(q, (h + 1) - 1) + 2] = "B"
        BY <2>2, PartInStream
    <2>4. w[o + 1] = "-" /\ w[o + 2] = "B"
        BY <2>2, <2>3
    <2> HIDE DEF b, o, w
    <2>5. 1 \in 1..(t - o) /\ 2 \in 1..(t - o)
        BY <1>1, <1>3
    <2>6. b[1] = "-" /\ b[2] = "B"
        BY <1>1, <2>4, <2>5
    <2>7. 1 \in 1..(Len(b) - 1)
        BY <1>1, <1>3
    <2>8. 1 \in Places(b, 1)
        <3>1. SubSeq(b, 1, 1 + 1) = Boundary
            BY <1>1, <2>6, <2>7, PairIs
        <3> QED
            BY <2>7, <3>1 DEF Places
    <2>9. Places(b, 1) \in SUBSET Nat /\ \A n \in Places(b, 1) : 1 <= n
        BY DEF Places
    <2>10. Min(Places(b, 1)) = 1
        BY <2>8, <2>9, MinIs
    <2> QED
        BY <2>1, <2>8, <2>10 DEF Find
<1>4. ASSUME ~(o + 2 <= t) PROVE Find(b, 1) = 0
    <2> HIDE DEF b, o
    <2>1. Places(b, 1) = {}
        BY <1>1, <1>4 DEF Places
    <2> QED
        BY <2>1 DEF Find
<1> QED
    BY <1>3, <1>4

\* Its second one, if there is one, ends the part behind it.
LEMMA SecondBoundary ==
    ASSUME NEW q \in Seq(Parts), NEW h \in 0..(Len(q) - 1), NEW t \in Nat,
           End(q, h) + 2 <= t, t <= End(q, Len(q))
    PROVE  LET b == SubSeq(Bytes(q, Len(q)), End(q, h) + 1, t)
               e == End(q, h + 1)
           IN  /\ e + 2 <= t => Find(b, 3) = e - End(q, h) + 1
               /\ ~(e + 2 <= t) => Find(b, 3) = 0
<1> DEFINE N == Len(q)
           w == Bytes(q, N)
           o == End(q, h)
           b == SubSeq(w, o + 1, t)
           e == End(q, h + 1)
           p == q[h + 1]
           l == Len(p.bytes)
<1>1. N \in Nat /\ h \in 0..N /\ h + 1 \in 1..N /\ (h + 1) - 1 = h /\ h \in Nat
    BY LenProperties
<1>2. p \in Parts /\ l \in Nat
    BY <1>1, PartIs
<1>3. /\ End(q, (h + 1) - 1) = o /\ o \in Nat
      /\ w \in Seq(Symbols) /\ Len(w) = End(q, N) /\ Len(w) \in Nat
      /\ e \in Nat /\ e = o + 2 + l /\ e <= Len(w)
      /\ w[o + 1] = "-" /\ w[o + 2] = "B"
      /\ \A i \in 1..l : w[o + 2 + i] = p.bytes[i]
      /\ h + 1 < N => w[e + 1] = "-" /\ w[e + 2] = "B"
    <2>1. End(q, (h + 1) - 1) = o
        BY <1>1
    <2>2. /\ End(q, (h + 1) - 1) \in Nat
          /\ w \in Seq(Symbols) /\ Len(w) = End(q, N) /\ Len(w) \in Nat
          /\ e \in Nat /\ e = End(q, (h + 1) - 1) + 2 + l /\ e <= Len(w)
          /\ w[End(q, (h + 1) - 1) + 1] = "-" /\ w[End(q, (h + 1) - 1) + 2] = "B"
          /\ \A i \in 1..l : w[End(q, (h + 1) - 1) + 2 + i] = p.bytes[i]
          /\ h + 1 < N => w[e + 1] = "-" /\ w[e + 2] = "B"
        BY <1>1, PartInStream
    <2> QED
        BY <2>1, <2>2
<1>4. /\ b \in Seq(Symbols) /\ Len(b) = t - o
      /\ \A j \in 1..(t - o) : b[j] = w[o + j]
    <2>1. o <= t
        BY <1>3
    <2> QED
        BY <1>1, <2>1, BufferIs
<1>5. t > e => h + 1 < N
    <2>1. h + 1 = N => Len(w) = e
        BY <1>3
    <2>2. t <= Len(w)
        BY <1>3
    <2> HIDE DEF w, e, N
    <2> QED
        BY <1>1, <1>3, <2>1, <2>2
<1> HIDE DEF w, o, b, e, l, N, p
<1>6. o + 2 <= t /\ t <= Len(w)
    BY <1>3 DEF o, w, N
<1>10. /\ o \in Nat /\ e \in Nat /\ l \in Nat /\ e = o + 2 + l /\ Len(b) = t - o
       /\ o + 2 <= t
    BY <1>2, <1>3, <1>4, <1>6
\* Inside the part there is none, and none begins with its last byte.
<1>7. ASSUME NEW j \in 3..(Len(b) - 1), SubSeq(b, j, j + 1) = Boundary
      PROVE  j >= e - o + 1
    <2>1. j \in 1..(Len(b) - 1) /\ j \in 1..(t - o) /\ j + 1 \in 1..(t - o) /\ j \in Nat
        BY <1>3, <1>4
    <2>2. b[j] = "-" /\ b[j + 1] = "B"
        BY <1>4, <1>7, <2>1, PairIs
    <2>3. w[o + j] = "-" /\ w[o + (j + 1)] = "B"
        BY <1>4, <2>1, <2>2
    <2>4. SUFFICES ASSUME j <= e - o PROVE FALSE
        BY <1>10, <2>1
    <2>5. CASE j = e - o
        <3>1. o + (j + 1) = e + 1
            BY <1>10, <2>1, <2>5
        <3>2. t > e
            BY <1>10, <2>1, <2>5
        <3>3. w[e + 1] = "-"
            BY <1>3, <1>5, <3>2
        <3> QED
            BY <2>3, <3>1, <3>3
    <2>6. CASE j < e - o
        <3>1. /\ j - 2 \in 1..(l - 1) /\ j - 2 \in 1..l /\ (j - 2) + 1 \in 1..l
              /\ o + 2 + (j - 2) = o + j /\ o + 2 + ((j - 2) + 1) = o + (j + 1)
            BY <1>10, <2>1, <2>6
        <3>2. w[o + 2 + (j - 2)] = p.bytes[j - 2]
            BY <1>3, <3>1
        <3>3. w[o + 2 + ((j - 2) + 1)] = p.bytes[(j - 2) + 1]
            BY <1>3, <3>1
        <3>4. p.bytes[j - 2] = "-" /\ p.bytes[(j - 2) + 1] = "B"
            BY <2>3, <3>1, <3>2, <3>3
        <3> QED
            BY <1>2, <3>1, <3>4, NotInside DEF l
    <2> QED
        BY <1>10, <2>1, <2>4, <2>5, <2>6
<1>8. ASSUME e + 2 <= t PROVE Find(b, 3) = e - o + 1
    <2> DEFINE k == e - o + 1
    <2>1. k \in 3..(Len(b) - 1) /\ k \in 1..(t - o) /\ k + 1 \in 1..(t - o) /\ k \in Nat
          /\ o + k = e + 1 /\ o + (k + 1) = e + 2 /\ k \in 1..(Len(b) - 1)
        BY <1>10, <1>8
    <2>2. w[e + 1] = "-" /\ w[e + 2] = "B"
        BY <1>3, <1>5, <1>8
    <2> HIDE DEF k
    <2>3. b[k] = w[o + k] /\ b[k + 1] = w[o + (k + 1)]
        BY <1>4, <2>1
    <2>4. SubSeq(b, k, k + 1) = Boundary
        <3>1. b \in Seq(Symbols) /\ k \in 1..(Len(b) - 1) /\ b[k] = "-" /\ b[k + 1] = "B"
            BY <1>4, <2>1, <2>2, <2>3
        <3> QED
            BY <3>1, PairIs
    <2>5. k \in Places(b, 3)
        BY <2>1, <2>4 DEF Places
    <2>6. Places(b, 3) \in SUBSET Nat /\ \A n \in Places(b, 3) : k <= n
        <3>1. \A n \in Places(b, 3) : n \in 3..(Len(b) - 1) /\ SubSeq(b, n, n + 1) = Boundary
            BY DEF Places
        <3>2. \A n \in Places(b, 3) : n >= k
            BY <1>7, <3>1 DEF k
        <3> QED
            BY <2>1, <3>1, <3>2
    <2>7. Min(Places(b, 3)) = k
        BY <2>5, <2>6, MinIs
    <2> QED
        BY <2>5, <2>7 DEF Find, k
<1>9. ASSUME ~(e + 2 <= t) PROVE Find(b, 3) = 0
    <2>1. ASSUME NEW j \in Places(b, 3) PROVE FALSE
        <3>1. j \in 3..(Len(b) - 1) /\ SubSeq(b, j, j + 1) = Boundary
            BY DEF Places
        <3>2. j >= e - o + 1
            BY <1>7, <3>1
        <3> QED
            BY <1>10, <1>9, <3>1, <3>2
    <2> QED
        BY <2>1 DEF Find
<1> QED
    BY <1>8, <1>9 DEF w, o, b, e, N

\* What is cut out is the part's bytes, and what stays begins with the next boundary.
LEMMA CutPart ==
    ASSUME NEW q \in Seq(Parts), NEW h \in 0..(Len(q) - 1), NEW t \in Nat,
           End(q, h + 1) + 2 <= t, t <= End(q, Len(q))
    PROVE  LET w == Bytes(q, Len(q))
               b == SubSeq(w, End(q, h) + 1, t)
               e == End(q, h + 1)
           IN  /\ SubSeq(b, 3, e - End(q, h)) = q[h + 1].bytes
               /\ Rest(b, e - End(q, h) + 1) = SubSeq(w, e + 1, t)
               /\ Len(SubSeq(w, e + 1, t)) <= Len(b)
<1> DEFINE N == Len(q)
           w == Bytes(q, N)
           o == End(q, h)
           b == SubSeq(w, o + 1, t)
           e == End(q, h + 1)
           p == q[h + 1]
           l == Len(p.bytes)
<1>1. N \in Nat /\ h \in 0..N /\ h + 1 \in 1..N /\ h + 1 \in 0..N /\ (h + 1) - 1 = h
    BY LenProperties
<1>2. p \in Parts /\ p.bytes \in Seq(Symbols) /\ l \in Nat
    BY <1>1, PartIs
<1>3. /\ o \in Nat /\ w \in Seq(Symbols) /\ Len(w) = End(q, N) /\ Len(w) \in Nat
      /\ e \in Nat /\ e = o + 2 + l
      /\ \A i \in 1..l : w[o + 2 + i] = p.bytes[i]
    <2>1. End(q, (h + 1) - 1) = o
        BY <1>1
    <2>2. /\ End(q, (h + 1) - 1) \in Nat
          /\ w \in Seq(Symbols) /\ Len(w) = End(q, N) /\ Len(w) \in Nat
          /\ e \in Nat /\ e = End(q, (h + 1) - 1) + 2 + l
          /\ \A i \in 1..l : w[End(q, (h + 1) - 1) + 2 + i] = p.bytes[i]
        BY <1>1, PartInStream
    <2> QED
        BY <2>1, <2>2
<1>4. o <= t /\ e <= t
    <2>1. e + 2 <= t /\ o \in Nat /\ e \in Nat /\ e = o + 2 + l /\ l \in Nat
        BY <1>2, <1>3
    <2> HIDE DEF o, e, l
    <2> QED
        BY <2>1
<1>5. /\ b \in Seq(Symbols) /\ Len(b) = t - o
      /\ \A j \in 1..(t - o) : b[j] = w[o + j]
    BY <1>1, <1>4, BufferIs
<1>6. t <= Len(w) /\ e + 2 <= t
    BY <1>3
<1> HIDE DEF w, o, b, e, l, N, p
<1>7. SubSeq(b, 3, e - o) = p.bytes
    <2> DEFINE a == SubSeq(b, 3, e - o)
    <2>1. 3 \in Nat \ {0} /\ e - o \in Nat /\ e - o <= Len(b) /\ 3 <= (e - o) + 1
          /\ (e - o) + 1 - 3 = l
        BY <1>2, <1>3, <1>5, <1>6
    <2>2. /\ a \in Seq(Symbols) /\ Len(a) = (e - o) + 1 - 3
          /\ \A i \in 1..((e - o) + 1 - 3) : a[i] = b[3 + i - 1]
        BY <1>5, <2>1, SubSeqIs
    <2> HIDE DEF a
    <2>3. ASSUME NEW i \in 1..l PROVE a[i] = p.bytes[i]
        <3>1. a[i] = b[3 + i - 1]
            BY <2>1, <2>2
        <3>2. 3 + i - 1 \in 1..(t - o) /\ o + (3 + i - 1) = o + 2 + i
            BY <1>2, <1>3, <1>6
        <3>3. b[3 + i - 1] = w[o + (3 + i - 1)]
            BY <1>5, <3>2
        <3>4. w[o + 2 + i] = p.bytes[i]
            BY <1>3
        <3> QED
            BY <3>1, <3>2, <3>3, <3>4
    <2>4. Len(a) = Len(p.bytes) /\ \A i \in 1..Len(a) : a[i] = p.bytes[i]
        BY <2>1, <2>2, <2>3 DEF l
    <2>5. a = p.bytes
        BY <1>2, <2>2, <2>4, SeqEqual
    <2> QED
        BY <2>5 DEF a
<1>8. SubSeq(b, e - o + 1, Len(b)) = SubSeq(w, e + 1, t)
    <2> DEFINE k == e - o + 1
               c == SubSeq(b, k, Len(b))
               d == SubSeq(w, e + 1, t)
    <2>1. k \in Nat \ {0} /\ Len(b) \in Nat /\ Len(b) <= Len(b) /\ k <= Len(b) + 1
          /\ Len(b) + 1 - k = t - e
        BY <1>2, <1>3, <1>5, <1>6
    <2>2. e + 1 \in Nat \ {0} /\ e + 1 <= t + 1 /\ t + 1 - (e + 1) = t - e
        BY <1>3, <1>6
    <2> HIDE DEF k
    <2>3. /\ c \in Seq(Symbols) /\ Len(c) = Len(b) + 1 - k
          /\ \A i \in 1..(Len(b) + 1 - k) : c[i] = b[k + i - 1]
        BY <1>5, <2>1, SubSeqIs
    <2>4. /\ d \in Seq(Symbols) /\ Len(d) = t + 1 - (e + 1)
          /\ \A i \in 1..(t + 1 - (e + 1)) : d[i] = w[(e + 1) + i - 1]
        <3>1. w \in Seq(Symbols) /\ t <= Len(w) /\ e + 1 <= t + 1
            BY <1>3, <1>6, <2>2
        <3> QED
            BY <2>2, <3>1, SubSeqIs, SMTT(30)
    <2> HIDE DEF c, d
    <2>5. ASSUME NEW i \in 1..(t - e) PROVE c[i] = d[i]
        <3>1. c[i] = b[k + i - 1]
            BY <2>1, <2>3
        <3>2. d[i] = w[(e + 1) + i - 1]
            BY <2>2, <2>4
        <3>3. k + i - 1 \in 1..(t - o) /\ o + (k + i - 1) = (e + 1) + i - 1
            BY <1>2, <1>3, <1>6 DEF k
        <3>4. b[k + i - 1] = w[o + (k + i - 1)]
            BY <1>5, <3>3
        <3> QED
            BY <3>1, <3>2, <3>3, <3>4
    <2>6. Len(c) = Len(d) /\ \A i \in 1..Len(c) : c[i] = d[i]
        BY <2>1, <2>2, <2>3, <2>4, <2>5
    <2>7. c = d
        BY <2>3, <2>4, <2>6, SeqEqual
    <2> QED
        BY <2>7 DEF c, d, k
<1>9. Len(SubSeq(w, e + 1, t)) <= Len(b)
    <2>1. e + 1 \in Nat \ {0} /\ e + 1 <= t + 1 /\ t + 1 - (e + 1) = t - e
        BY <1>3, <1>6
    <2>2. Len(SubSeq(w, e + 1, t)) = t + 1 - (e + 1)
        <3>1. w \in Seq(Symbols)
            BY <1>3
        <3> QED
            BY <1>6, <2>1, <3>1, SubSeqIs
    <2> QED
        BY <1>2, <1>3, <1>5, <2>1, <2>2
<1> QED
    BY <1>7, <1>8, <1>9 DEF w, o, b, e, p, N, Rest

-----------------------------------------------------------------------------
(* What a part means. *)

\* A sequence of one symbol of S.
LEMMA OneSymbol ==
    ASSUME NEW s \in Seq(Symbols), NEW S
    PROVE  s \in {<<x>> : x \in S} <=> Len(s) = 1 /\ s[1] \in S
<1>1. ASSUME NEW x \in S, s = <<x>> PROVE Len(s) = 1 /\ s[1] \in S
    BY <1>1
<1>2. ASSUME Len(s) = 1, s[1] \in S PROVE s \in {<<x>> : x \in S}
    <2>1. s = <<s[1]>>
        BY <1>2, LenProperties
    <2> QED
        BY <1>2, <2>1
<1> QED
    BY <1>1, <1>2

\* normalize_event passes what the sender means, and raises on what is fatal only.
LEMMA PartMeans ==
    ASSUME NEW p \in Parts
    PROVE  /\ Decode(p.bytes) = p.events
           /\ Raises(p.bytes) => p.fatal /\ p.events = <<>>
<1> DEFINE s == p.bytes
<1>1. s \in Seq(Symbols) /\ Len(s) \in Nat
    BY PartsAssumption, LenProperties
<1>2. CASE (\A i \in 1..Len(s) : s[i] # "#") /\ p.events = <<>> /\ ~p.fatal
    <2>1. HeaderEnds(s) = {}
        BY <1>2 DEF HeaderEnds
    <2> QED
        BY <1>2, <2>1 DEF Decode, Raises
<1>3. ASSUME NEW i \in 1..Len(s), s[i] = "#", \A j \in 1..(i - 1) : s[j] # "#",
             LET body == SubSeq(s, i + 1, Len(s))
                 Is(S) == body \in {<<x>> : x \in S}
             IN  \/ Is(Normalized) /\ p.events = body /\ ~p.fatal
                 \/ Is(Fatal) /\ p.events = <<>> /\ p.fatal
                 \/ ~Is(Normalized \cup Fatal) /\ p.events = <<>> /\ ~p.fatal
      PROVE  /\ Decode(s) = p.events
             /\ Raises(s) => p.fatal /\ p.events = <<>>
    <2> DEFINE body == SubSeq(s, i + 1, Len(s))
    <2> HIDE DEF s
    <2>1. Min(HeaderEnds(s)) = i /\ HeaderEnds(s) # {}
        <3>1. i \in HeaderEnds(s)
            BY <1>3 DEF HeaderEnds
        <3>2. HeaderEnds(s) \in SUBSET Nat
            BY DEF HeaderEnds
        <3>3. ASSUME NEW j \in HeaderEnds(s) PROVE i <= j
            <4>1. j \in 1..Len(s) /\ s[j] = "#"
                BY DEF HeaderEnds
            <4>2. j \notin 1..(i - 1)
                BY <1>3, <4>1
            <4> QED
                BY <1>1, <4>1, <4>2
        <3>4. Min(HeaderEnds(s)) = i
            BY <3>1, <3>2, <3>3, MinIs
        <3> QED
            BY <3>1, <3>4
    <2>2. Body(s) = body
        BY <2>1 DEF Body
    <2>3. body \in Seq(Symbols)
        <3>1. i + 1 \in Nat \ {0} /\ Len(s) \in Nat /\ Len(s) <= Len(s) /\ i + 1 <= Len(s) + 1
            BY <1>1
        <3> QED
            BY <1>1, <3>1, SubSeqIs
    <2> DEFINE One(S) == Len(body) = 1 /\ body[1] \in S
    <2>4. /\ body \in {<<x>> : x \in Normalized} <=> One(Normalized)
          /\ body \in {<<x>> : x \in Fatal} <=> One(Fatal)
          /\ body \in {<<x>> : x \in Normalized \cup Fatal} <=> One(Normalized \cup Fatal)
        BY <2>3, OneSymbol
    <2>5. \/ One(Normalized) /\ p.events = body /\ ~p.fatal
          \/ One(Fatal) /\ p.events = <<>> /\ p.fatal
          \/ ~One(Normalized \cup Fatal) /\ p.events = <<>> /\ ~p.fatal
        BY <1>3, <2>4
    <2>6. Decode(s) = IF One(Normalized) THEN body ELSE <<>>
        BY <2>1, <2>2 DEF Decode
    <2>7. Raises(s) <=> One(Fatal)
        BY <2>1, <2>2 DEF Raises
    <2> HIDE DEF body
    <2> QED
        BY <2>5, <2>6, <2>7, SymbolsAssumption
<1> QED
    BY <1>2, <1>3, MeaningAssumption

\* The events of the first n parts of q.
Events(q, n) == FlattenSeq([j \in 1..n |-> q[j].events])

LEMMA EventsStep ==
    ASSUME NEW q \in Seq(Parts)
    PROVE  /\ Events(q, 0) = <<>>
           /\ \A n \in 0..Len(q) : Events(q, n) \in Seq(Symbols)
           /\ \A n \in 1..Len(q) : Events(q, n) = Events(q, n - 1) \o q[n].events
<1> DEFINE N == Len(q)
           f == [j \in 1..N |-> q[j].events]
<1>1. N \in Nat
    BY LenProperties
<1>2. f \in [1..N -> Seq(Symbols)]
    BY PartIs
<1>3. ASSUME NEW n \in 0..N PROVE Events(q, n) = Flat(f, n)
    <2>1. \A j \in 1..n : f[j] = q[j].events
        BY <1>1
    <2>2. [j \in 1..n |-> f[j]] = [j \in 1..n |-> q[j].events]
        BY <2>1
    <2> HIDE DEF f
    <2> QED
        BY <2>2 DEF Events, Flat
<1>4. \A n \in 1..N : f[n] = q[n].events
    OBVIOUS
<1> HIDE DEF f
<1>5. /\ Flat(f, 0) = <<>>
      /\ \A n \in 0..N : Flat(f, n) \in Seq(Symbols)
      /\ \A n \in 1..N : Flat(f, n) = Flat(f, n - 1) \o f[n]
    BY <1>1, <1>2, FlatStep
<1>6. 0 \in 0..N /\ \A n \in 1..N : n \in 0..N /\ n - 1 \in 0..N
    BY <1>1
<1>7. Events(q, 0) = <<>>
    BY <1>3, <1>5, <1>6
<1>8. ASSUME NEW n \in 0..N PROVE Events(q, n) \in Seq(Symbols)
    BY <1>3, <1>5
<1>9. ASSUME NEW n \in 1..N PROVE Events(q, n) = Events(q, n - 1) \o q[n].events
    BY <1>3, <1>4, <1>5, <1>6
<1> QED
    BY <1>7, <1>8, <1>9

\* A part more changes nothing of the parts before it.
LEMMA OneMore ==
    ASSUME NEW q \in Seq(Parts), NEW p \in Parts
    PROVE  LET r == Append(q, p)
               N == Len(q)
           IN  /\ r \in Seq(Parts) /\ Len(r) = N + 1
               /\ \A j \in 1..N : r[j] = q[j]
               /\ \A n \in 0..N : End(r, n) = End(q, n) /\ Events(r, n) = Events(q, n)
               /\ End(q, N) <= End(r, N + 1)
               /\ \A m \in Nat \ {0}, n \in Nat :
                    n <= End(q, N) => SubSeq(Bytes(r, N + 1), m, n) = SubSeq(Bytes(q, N), m, n)
<1> DEFINE r == Append(q, p)
           N == Len(q)
<1>1. /\ r \in Seq(Parts) /\ Len(r) = N + 1 /\ N \in Nat
      /\ \A j \in 1..N : r[j] = q[j]
    BY AppendProperties, LenProperties
<1> HIDE DEF r
<1>2. ASSUME NEW n \in 0..N PROVE Bytes(r, n) = Bytes(q, n) /\ Events(r, n) = Events(q, n)
    <2>1. \A j \in 1..n : r[j] = q[j]
        BY <1>1
    <2>2. [j \in 1..n |-> Boundary \o r[j].bytes] = [j \in 1..n |-> Boundary \o q[j].bytes]
        BY <2>1
    <2>3. [j \in 1..n |-> r[j].events] = [j \in 1..n |-> q[j].events]
        BY <2>1
    <2> QED
        BY <2>2, <2>3 DEF Bytes, Events
<1>3. \A n \in 0..N : End(r, n) = End(q, n)
    BY <1>2 DEF End
<1>4. N \in 0..N /\ N \in 0..Len(r) /\ N + 1 \in N..Len(r) /\ N + 1 \in 0..Len(r)
    BY <1>1
<1>5. /\ End(r, N) <= End(r, N + 1)
      /\ \A i \in 1..End(r, N) : Bytes(r, N + 1)[i] = Bytes(r, N)[i]
    BY <1>1, <1>4, BytesStay
<1>6. /\ Bytes(r, N + 1) \in Seq(Symbols) /\ Bytes(q, N) \in Seq(Symbols)
      /\ Len(Bytes(r, N + 1)) = End(r, N + 1) /\ Len(Bytes(q, N)) = End(q, N)
      /\ End(r, N + 1) \in Nat /\ End(q, N) \in Nat
    BY <1>1, <1>4, BytesStep DEF End
<1>7. /\ End(q, N) <= End(r, N + 1)
      /\ \A i \in 1..End(q, N) : Bytes(r, N + 1)[i] = Bytes(q, N)[i]
    BY <1>2, <1>3, <1>4, <1>5
<1>8. ASSUME NEW m \in Nat \ {0}, NEW n \in Nat, n <= End(q, N)
      PROVE  SubSeq(Bytes(r, N + 1), m, n) = SubSeq(Bytes(q, N), m, n)
    <2>1. n <= Len(Bytes(r, N + 1)) /\ n <= Len(Bytes(q, N))
        BY <1>6, <1>7, <1>8
    <2>2. \A i \in m..n : i \in 1..End(q, N)
        BY <1>6, <1>8
    <2>3. \A i \in m..n : Bytes(r, N + 1)[i] = Bytes(q, N)[i]
        BY <1>7, <2>2
    <2> QED
        BY <1>6, <2>1, <2>3, SubSeqAgree
<1> QED
    BY <1>1, <1>2, <1>3, <1>7, <1>8 DEF r

\* A new connection has sent and received nothing.
LEMMA Nothing ==
    /\ <<>> \in Seq(Parts) /\ Len(<<>>) = 0
    /\ Bytes(<<>>, 0) = <<>> /\ End(<<>>, 0) = 0 /\ Events(<<>>, 0) = <<>>
    /\ SubSeq(<<>>, 0 + 1, 0) = <<>>
<1>1. <<>> \in Seq(Parts) /\ Len(<<>>) = 0
    BY EmptySeq
<1>2. Bytes(<<>>, 0) = <<>> /\ End(<<>>, 0) = 0 /\ Events(<<>>, 0) = <<>>
    BY <1>1, BytesStep, EventsStep
<1>3. SubSeq(<<>>, 0 + 1, 0) = <<>>
    BY SubSeqEmpty
<1> QED
    BY <1>1, <1>2, <1>3

-----------------------------------------------------------------------------
(* The invariant. *)

\* The properties' operators, in the terms of the lemmas.
LEMMA InTerms ==
    /\ Stream = Bytes(sent, Len(sent))
    /\ \A j : Offset(j) = End(sent, j)
    /\ \A n : Meant(n) = Events(sent, n)
BY DEF Stream, Bytes, Offset, End, Meant, Events

ParserTypes ==
    /\ sent \in Seq(Parts) /\ Len(sent) <= MaxParts
    /\ taken \in Nat /\ taken <= End(sent, Len(sent))
    /\ pc \in {"wait", "feed", "dead"}
    /\ handled \in 0..Len(sent)
    /\ drops \in 0..MaxDrops

\* The buffer holds what was received from the end of the last part cut out on, the
\* boundary behind it included; a parser that waits has cut out all it can; what was
\* yielded is what the parts cut out mean.
ParserInv ==
    /\ ParserTypes
    /\ End(sent, handled) <= taken
    /\ handled > 0 => End(sent, handled) + 2 <= taken
    /\ buf = SubSeq(Bytes(sent, Len(sent)), End(sent, handled) + 1, taken)
    /\ pc = "wait" /\ handled + 1 < Len(sent) => ~(End(sent, handled + 1) + 2 <= taken)
    /\ pc # "dead" => Len(buf) <= MaxBuffer
    /\ out = Events(sent, handled)
    /\ EndsOnlyForCause

LEMMA InitParser == Init => ParserInv
<1> SUFFICES ASSUME Init PROVE ParserInv
    OBVIOUS
<1>1. /\ sent = <<>> /\ taken = 0 /\ buf = <<>> /\ pc = "wait" /\ handled = 0
      /\ out = <<>> /\ drops = 0
    BY DEF Init
<1> QED
    BY <1>1, Nothing DEF ParserInv, ParserTypes, EndsOnlyForCause

LEMMA DropStep == ParserInv /\ Drop => ParserInv'
<1> SUFFICES ASSUME ParserInv, Drop PROVE ParserInv'
    OBVIOUS
<1>1. /\ sent' = <<>> /\ taken' = 0 /\ buf' = <<>> /\ pc' = "wait" /\ handled' = 0
      /\ out' = <<>> /\ drops' = drops + 1 /\ drops < MaxDrops /\ drops \in 0..MaxDrops
    BY DEF Drop, ParserInv, ParserTypes
<1>2. drops' \in 0..MaxDrops
    BY <1>1
<1> QED
    BY <1>1, <1>2, Nothing DEF ParserInv, ParserTypes, EndsOnlyForCause

LEMMA SendStep ==
    ASSUME ParserInv, NEW p \in Parts, Send(p)
    PROVE  ParserInv'
<1> DEFINE N == Len(sent)
           h == handled
<1>1. /\ sent' = Append(sent, p) /\ N < MaxParts
      /\ taken' = taken /\ buf' = buf /\ pc' = pc /\ handled' = h /\ out' = out
      /\ drops' = drops
    BY DEF Send
<1>2. /\ sent \in Seq(Parts) /\ N \in Nat /\ h \in 0..N /\ N \in 0..N
      /\ taken \in Nat /\ taken <= End(sent, N)
      /\ End(sent, h) <= taken
    BY LenProperties DEF ParserInv, ParserTypes
<1>3. /\ sent' \in Seq(Parts) /\ Len(sent') = N + 1
      /\ \A j \in 1..N : sent'[j] = sent[j]
      /\ \A n \in 0..N : End(sent', n) = End(sent, n) /\ Events(sent', n) = Events(sent, n)
      /\ End(sent, N) <= End(sent', N + 1)
      /\ \A m \in Nat \ {0}, n \in Nat : n <= End(sent, N) =>
            SubSeq(Bytes(sent', N + 1), m, n) = SubSeq(Bytes(sent, N), m, n)
    BY <1>1, <1>2, OneMore
<1>4. End(sent, N) \in Nat /\ End(sent, h) \in Nat /\ End(sent', N + 1) \in Nat
    <2>1. End(sent, N) \in Nat /\ End(sent, h) \in Nat
        BY <1>2, BytesStep
    <2>2. N + 1 \in 0..Len(sent')
        BY <1>2, <1>3
    <2> QED
        BY <1>3, <2>1, <2>2, BytesStep
<1>5. ParserTypes'
    <2>1. Len(sent') <= MaxParts /\ handled' \in 0..Len(sent')
        BY <1>1, <1>2, <1>3
    <2>2. taken' <= End(sent', Len(sent'))
        BY <1>1, <1>2, <1>3, <1>4
    <2> QED
        BY <1>1, <1>2, <1>3, <2>1, <2>2 DEF ParserInv, ParserTypes
<1>6. End(sent', handled') = End(sent, h)
    BY <1>1, <1>2, <1>3
<1>7. buf' = SubSeq(Bytes(sent', Len(sent')), End(sent', handled') + 1, taken')
    <2>1. buf = SubSeq(Bytes(sent, N), End(sent, h) + 1, taken)
        BY DEF ParserInv
    <2>2. End(sent, h) + 1 \in Nat \ {0}
        BY <1>4
    <2>3. SubSeq(Bytes(sent', N + 1), End(sent, h) + 1, taken)
            = SubSeq(Bytes(sent, N), End(sent, h) + 1, taken)
        BY <1>2, <1>3, <2>2
    <2> QED
        BY <1>1, <1>3, <1>6, <2>1, <2>3
\* The part that was the last before has not been received beyond its end.
<1>8. ASSUME pc' = "wait", handled' + 1 < Len(sent')
      PROVE  ~(End(sent', handled' + 1) + 2 <= taken')
    <2>1. h + 1 \in 0..N /\ (h + 1 < N \/ h + 1 = N)
        BY <1>1, <1>2, <1>3, <1>8
    <2>2. End(sent', handled' + 1) = End(sent, h + 1) /\ End(sent, h + 1) \in Nat
        BY <1>1, <1>2, <1>3, <2>1, BytesStep
    <2>3. CASE h + 1 < N
        BY <1>1, <1>8, <2>2, <2>3 DEF ParserInv
    <2>4. CASE h + 1 = N
        BY <1>1, <1>2, <1>4, <2>2, <2>4
    <2> QED
        BY <2>1, <2>3, <2>4
<1>9. out' = Events(sent', handled')
    BY <1>1, <1>2, <1>3 DEF ParserInv
<1>10. EndsOnlyForCause'
    <2>1. handled' > 0 => sent'[handled'] = sent[h]
        BY <1>1, <1>2, <1>3
    <2> QED
        BY <1>1, <2>1 DEF ParserInv, EndsOnlyForCause
<1> QED
    BY <1>1, <1>5, <1>6, <1>7, <1>8, <1>9, <1>10 DEF ParserInv

LEMMA ReceiveStep == ParserInv /\ Receive => ParserInv'
<1> SUFFICES ASSUME ParserInv, Receive PROVE ParserInv'
    OBVIOUS
<1> DEFINE N == Len(sent)
           w == Bytes(sent, N)
           o == End(sent, handled)
<1>1. Stream = w
    BY InTerms
<1>2. /\ sent \in Seq(Parts) /\ N \in Nat /\ handled \in 0..N /\ N \in 0..N
      /\ taken \in Nat /\ o <= taken
    BY LenProperties DEF ParserInv, ParserTypes
<1>3. w \in Seq(Symbols) /\ Len(w) = End(sent, N) /\ Len(w) \in Nat /\ o \in Nat
    BY <1>2, BytesStep DEF End
<1>4. PICK n \in (taken + 1)..Len(w) :
        /\ taken' = n
        /\ buf' = buf \o SubSeq(w, taken + 1, n)
        /\ pc' = IF Overflows(SubSeq(w, taken + 1, n)) THEN "dead" ELSE "feed"
    BY <1>1 DEF Receive
<1>5. sent' = sent /\ handled' = handled /\ out' = out /\ drops' = drops
    BY DEF Receive
<1>6. n \in Nat /\ taken < n /\ n <= Len(w)
    BY <1>2, <1>3, <1>4
<1>7. ParserTypes'
    <2>1. taken' \in Nat /\ taken' <= End(sent', Len(sent')) /\ pc' \in {"feed", "dead"}
        BY <1>3, <1>4, <1>5, <1>6
    <2> QED
        BY <1>5, <2>1 DEF ParserInv, ParserTypes
<1>8. buf' = SubSeq(w, o + 1, n)
    <2>1. buf = SubSeq(w, o + 1, taken)
        BY DEF ParserInv
    <2> HIDE DEF w, o
    <2>2. o + 1 \in 1..(Len(w) + 1) /\ taken \in ((o + 1) - 1)..Len(w) /\ n \in taken..Len(w)
        BY <1>2, <1>3, <1>6
    <2>3. SubSeq(w, o + 1, taken) \o SubSeq(w, taken + 1, n) = SubSeq(w, o + 1, n)
        BY <1>3, <2>2, ConcatAdjacentSubSeq
    <2> QED
        BY <1>4, <2>1, <2>3
<1>9. /\ End(sent', handled') <= taken'
      /\ handled' > 0 => End(sent', handled') + 2 <= taken'
    BY <1>2, <1>3, <1>4, <1>5, <1>6 DEF ParserInv
<1>10. buf' = SubSeq(Bytes(sent', Len(sent')), End(sent', handled') + 1, taken')
    BY <1>4, <1>5, <1>8
\* An overflow is a cause.
<1>11. pc' # "wait" /\ (pc' = "dead" <=> Len(buf') > MaxBuffer)
    BY <1>4 DEF Overflows
<1>12. Len(buf') \in Nat
    <2> HIDE DEF w, o
    <2>1. o + 1 \in Nat \ {0} /\ o + 1 <= n + 1
        BY <1>2, <1>3, <1>6
    <2>2. SubSeq(w, o + 1, n) \in Seq(Symbols)
        BY <1>3, <1>6, <2>1, SubSeqIs
    <2> QED
        BY <1>8, <2>2, LenProperties
<1>13. (pc' # "dead" => Len(buf') <= MaxBuffer) /\ EndsOnlyForCause'
    BY <1>11, <1>12 DEF EndsOnlyForCause
<1>14. out' = Events(sent', handled')
    BY <1>5 DEF ParserInv
<1> QED
    BY <1>7, <1>9, <1>10, <1>11, <1>13, <1>14 DEF ParserInv

\* A turn of the loop takes out the next part if the boundary behind it is there,
\* and waits otherwise.
LEMMA ExtractStep == ParserInv /\ Extract => ParserInv'
<1> SUFFICES ASSUME ParserInv, Extract PROVE ParserInv'
    OBVIOUS
<1> DEFINE N == Len(sent)
           h == handled
           t == taken
           w == Bytes(sent, N)
           o == End(sent, h)
           e == End(sent, h + 1)
           first  == Find(buf, 1)
           second == Find(buf, first + Len(Boundary))
           part   == SubSeq(buf, first + Len(Boundary), second - 1)
<1>1. /\ pc = "feed"
      /\ IF first = 0 \/ second = 0
         THEN pc' = "wait" /\ UNCHANGED <<buf, handled, out>>
         ELSE /\ buf' = Rest(buf, second)
              /\ handled' = handled + 1
              /\ pc' = IF Raises(part) THEN "dead" ELSE Loop
              /\ out' = IF Raises(part) THEN out ELSE out \o Decode(part)
      /\ sent' = sent /\ taken' = taken /\ drops' = drops
    BY DEF Extract
<1>2. /\ sent \in Seq(Parts) /\ N \in Nat /\ h \in 0..N /\ N \in 0..N
      /\ t \in Nat /\ o <= t /\ t <= End(sent, N)
      /\ buf = SubSeq(w, o + 1, t)
    BY LenProperties DEF ParserInv, ParserTypes
<1>3. o \in Nat /\ End(sent, N) \in Nat
    BY <1>2, BytesStep
<1>4. /\ o + 2 <= t => h < N /\ first = 1
      /\ ~(o + 2 <= t) => first = 0
    BY <1>2, FirstBoundary
<1>5. ASSUME o + 2 <= t
      PROVE  /\ h \in 0..(N - 1) /\ h + 1 \in 0..N /\ h + 1 \in 1..N /\ e \in Nat
             /\ e + 2 <= t => second = e - o + 1
             /\ ~(e + 2 <= t) => second = 0
    <2>1. h \in 0..(N - 1) /\ h + 1 \in 0..N /\ h + 1 \in 1..N
        BY <1>2, <1>4, <1>5
    <2>2. e \in Nat
        BY <1>2, <2>1, BytesStep
    <2>3. first + Len(Boundary) = 3
        BY <1>4, <1>5, BoundaryIs
    <2>4. /\ e + 2 <= t => Find(buf, 3) = e - o + 1
          /\ ~(e + 2 <= t) => Find(buf, 3) = 0
        BY <1>2, <1>5, <2>1, SecondBoundary
    <2>5. second = Find(buf, 3)
        BY <2>3
    <2> HIDE DEF first, second
    <2> QED
        BY <2>1, <2>2, <2>4, <2>5
<1>6. CASE ~(o + 2 <= t) \/ ~(e + 2 <= t)
    <2>1. first = 0 \/ second = 0
        BY <1>4, <1>5, <1>6
    <2>2. /\ sent' = sent /\ taken' = taken /\ drops' = drops /\ pc' = "wait"
          /\ buf' = buf /\ handled' = handled /\ out' = out
        BY <1>1, <2>1
    <2>3. ASSUME h + 1 < N PROVE ~(e + 2 <= t)
        <3>1. h + 1 \in 0..N /\ h < h + 1
            BY <1>2, <2>3
        <3>2. o + 2 <= e /\ e \in Nat
            BY <1>2, <3>1, EndsApart, BytesStep
        <3> HIDE DEF o, e
        <3> QED
            BY <1>2, <1>3, <1>6, <3>2
    <2>4. pc' = "wait" /\ handled' + 1 < Len(sent') => ~(End(sent', handled' + 1) + 2 <= taken')
        BY <2>2, <2>3
    <2> QED
        BY <1>1, <2>2, <2>4 DEF ParserInv, ParserTypes, EndsOnlyForCause
<1>7. CASE o + 2 <= t /\ e + 2 <= t
    <2> DEFINE p == sent[h + 1]
    <2>1. /\ h \in 0..(N - 1) /\ h + 1 \in 0..N /\ h + 1 \in 1..N /\ e \in Nat
          /\ first = 1 /\ second = e - o + 1
        BY <1>4, <1>5, <1>7
    <2>2. o + 2 <= e
        BY <1>2, <2>1, EndsApart
    <2>3. first # 0 /\ second # 0 /\ first + Len(Boundary) = 3 /\ second - 1 = e - o
        BY <1>3, <2>1, <2>2, BoundaryIs
    <2>4. p \in Parts
        BY <1>2, <2>1, PartIs
    <2>5. /\ SubSeq(buf, 3, e - o) = p.bytes
          /\ Rest(buf, e - o + 1) = SubSeq(w, e + 1, t)
          /\ Len(SubSeq(w, e + 1, t)) <= Len(buf)
        BY <1>2, <1>7, <2>1, CutPart
    <2>6. part = p.bytes
        BY <2>3, <2>5
    <2> HIDE DEF first, second, part
    <2>7. /\ sent' = sent /\ taken' = taken /\ drops' = drops
          /\ buf' = SubSeq(w, e + 1, t)
          /\ handled' = h + 1
          /\ pc' = IF Raises(p.bytes) THEN "dead" ELSE "feed"
          /\ out' = IF Raises(p.bytes) THEN out ELSE out \o Decode(p.bytes)
        BY <1>1, <2>1, <2>3, <2>5, <2>6 DEF Loop
    <2>8. ParserTypes'
        BY <2>1, <2>7 DEF ParserInv, ParserTypes
    <2>9. End(sent', handled') = e
        BY <2>7
    <2>10. out' = Events(sent', handled')
        <3>1. out = Events(sent, h) /\ Events(sent, h) \in Seq(Symbols)
            BY <1>2, EventsStep DEF ParserInv
        <3>2. Events(sent, h + 1) = Events(sent, h) \o p.events
            <4>1. Events(sent, h + 1) = Events(sent, (h + 1) - 1) \o p.events
                BY <1>2, <2>1, EventsStep
            <4>2. (h + 1) - 1 = h
                BY <2>1
            <4> QED
                BY <4>1, <4>2
        <3>3. Decode(p.bytes) = p.events /\ (Raises(p.bytes) => p.events = <<>>)
            BY <2>4, PartMeans
        <3>4. Events(sent, h) \o <<>> = Events(sent, h)
            BY <3>1, ConcatEmptySeq
        <3> HIDE DEF p, h
        <3> QED
            BY <2>7, <3>1, <3>2, <3>3, <3>4
    <2>11. EndsOnlyForCause'
        <3>1. Raises(p.bytes) => p.fatal
            BY <2>4, PartMeans
        <3>2. handled' > 0 /\ sent'[handled'] = p
            BY <2>1, <2>7
        <3>3. pc' = "dead" => Raises(p.bytes)
            BY <2>7
        <3> QED
            BY <3>1, <3>2, <3>3 DEF EndsOnlyForCause
    <2>12. Len(buf') <= MaxBuffer
        <3>1. Len(buf) <= MaxBuffer
            BY <1>1 DEF ParserInv
        <3>2. Len(buf) \in Nat
            BY <1>2, <1>3, BufferIs, LenProperties
        <3>3. Len(buf') \in Nat
            <4>1. SubSeq(w, e + 1, t) \in Seq(Symbols)
                <5>1. e <= t
                    BY <1>2, <1>7, <2>1
                <5> QED
                    BY <1>2, <2>1, <5>1, BufferIs
            <4> QED
                BY <2>7, <4>1, LenProperties
        <3>4. Len(buf') <= Len(buf)
            BY <2>5, <2>7
        <3> QED
            BY <3>1, <3>2, <3>3, <3>4
    <2>13. /\ e <= t /\ e + 2 <= t /\ pc' # "wait"
        BY <1>2, <1>7, <2>1, <2>7
    <2>14. buf' = SubSeq(Bytes(sent', Len(sent')), End(sent', handled') + 1, taken')
        BY <2>7
    <2> QED
        BY <2>7, <2>8, <2>9, <2>10, <2>11, <2>12, <2>13, <2>14 DEF ParserInv
<1> QED
    BY <1>6, <1>7

\* Whatever was sent and however it was cut, the buffer is what follows the parts cut
\* out, and they are all that can be.
THEOREM ParserInvariant == Spec => []ParserInv
<1>1. Init => ParserInv
    BY InitParser
<1>2. ParserInv /\ [Next]_vars => ParserInv'
    <2> SUFFICES ASSUME ParserInv, [Next]_vars PROVE ParserInv'
        OBVIOUS
    <2>1. ASSUME NEW p \in Parts, Send(p) PROVE ParserInv'
        BY <2>1, SendStep
    <2>2. CASE Receive
        BY <2>2, ReceiveStep
    <2>3. CASE Extract
        BY <2>3, ExtractStep
    <2>4. CASE Drop
        BY <2>4, DropStep
    <2>5. CASE UNCHANGED vars
        BY <2>5 DEF vars, ParserInv, ParserTypes, EndsOnlyForCause
    <2> QED
        BY <2>1, <2>2, <2>3, <2>4, <2>5 DEF Next
<1> QED
    BY <1>1, <1>2, PTL DEF Spec

-----------------------------------------------------------------------------
(* The properties. *)

\* The parser's state holds values of its kinds, and the buffer of a stream that
\* goes on never exceeds its bound (MultipartBufferOverflow ends it).
THEOREM ParserTypeCorrect == Spec => []TypeOK
<1>1. ParserInv => TypeOK
    <2> SUFFICES ASSUME ParserInv PROVE TypeOK
        OBVIOUS
    <2>1. Stream = Bytes(sent, Len(sent))
        BY InTerms
    <2>2. sent \in Seq(Parts) /\ Len(sent) \in 0..Len(sent)
        BY LenProperties DEF ParserInv, ParserTypes
    <2>3. Len(Stream) = End(sent, Len(sent)) /\ Len(Stream) \in Nat
        BY <2>1, <2>2, BytesStep DEF End
    <2>4. taken \in 0..Len(Stream)
        BY <2>3 DEF ParserInv, ParserTypes
    <2> QED
        BY <2>4 DEF ParserInv, ParserTypes, TypeOK
<1> QED
    BY <1>1, ParserInvariant, PTL

\* The parts whose successor's boundary has arrived are the first ones.
LEMMA CompleteIs ==
    ASSUME ParserInv
    PROVE  /\ Complete \subseteq 1..(Len(sent) - 1)
           /\ \A j \in Complete : 1..j \subseteq Complete
           /\ 1..handled \subseteq Complete
           /\ pc = "wait" => handled + 1 \notin Complete
<1> DEFINE N == Len(sent)
<1>1. /\ sent \in Seq(Parts) /\ N \in Nat /\ handled \in 0..N /\ N \in 0..N
      /\ taken \in Nat /\ taken <= End(sent, N)
    BY LenProperties DEF ParserInv, ParserTypes
<1>2. Complete = {j \in 1..(N - 1) : End(sent, j) + 2 <= taken}
    BY InTerms, BoundaryIs DEF Complete
<1>3. ASSUME NEW j \in 1..N, End(sent, j) + 2 <= taken PROVE j \in Complete
    <2>0. j \in 0..N
        BY <1>1
    <2>1. End(sent, j) \in Nat /\ End(sent, N) \in Nat
        BY <1>1, <2>0, BytesStep
    <2>2. j # N
        BY <1>1, <1>3, <2>1
    <2> QED
        BY <1>1, <1>2, <1>3, <2>2
<1>4. ASSUME NEW j \in 1..N, End(sent, j) + 2 <= taken, NEW i \in 1..j PROVE i \in Complete
    <2>1. i \in 0..N /\ j \in i..N /\ i \in 1..N /\ j \in 0..N
        BY <1>1
    <2>2. End(sent, i) <= End(sent, j) /\ End(sent, i) \in Nat /\ End(sent, j) \in Nat
        BY <1>1, <2>1, BytesStay, BytesStep
    <2>3. End(sent, i) + 2 <= taken
        BY <1>1, <1>4, <2>2
    <2> QED
        BY <1>3, <2>1, <2>3
<1>5. \A j \in Complete : 1..j \subseteq Complete
    BY <1>1, <1>2, <1>4
<1>6. 1..handled \subseteq Complete
    <2>1. handled > 0 => handled \in 1..N /\ End(sent, handled) + 2 <= taken
        BY <1>1 DEF ParserInv
    <2> QED
        BY <1>1, <1>4, <2>1
<1>7. pc = "wait" => handled + 1 \notin Complete
    BY <1>1, <1>2 DEF ParserInv
<1> QED
    BY <1>2, <1>5, <1>6, <1>7

\* feed() yields the events of the complete parts, once and in order, and keeps none
\* of them back when it waits, wherever the bytes were cut.
THEOREM YieldsWhatWasSent == Spec => []YieldsAsSent
<1>1. ParserInv => YieldsAsSent
    <2> SUFFICES ASSUME ParserInv PROVE YieldsAsSent
        OBVIOUS
    <2>1. /\ Complete \subseteq 1..(Len(sent) - 1)
          /\ \A j \in Complete : 1..j \subseteq Complete
          /\ 1..handled \subseteq Complete
          /\ pc = "wait" => handled + 1 \notin Complete
        BY CompleteIs
    <2>2. handled \in Nat /\ Len(sent) \in Nat
        BY LenProperties DEF ParserInv, ParserTypes
    <2>3. IsFiniteSet(1..(Len(sent) - 1))
        BY <2>2, FS_Interval
    <2>4. IsFiniteSet(Complete) /\ Cardinality(Complete) \in Nat
        BY <2>1, <2>3, FS_Subset, FS_CardinalityType
    <2>5. Cardinality(1..handled) = handled
        BY <2>2, FS_Interval
    <2>6. handled <= Cardinality(Complete)
        <3>1. Cardinality(1..handled) <= Cardinality(Complete)
            BY <2>1, <2>4, FS_Subset
        <3> QED
            BY <2>5, <3>1
    <2>7. ASSUME pc = "wait" PROVE Complete = 1..handled
        <3>1. ASSUME NEW j \in Complete PROVE j \in 1..handled
            <4>1. j \in Nat /\ j >= 1 /\ ~(handled + 1 \in 1..j)
                BY <2>1, <2>7
            <4> QED
                BY <2>2, <4>1
        <3> QED
            BY <2>1, <3>1
    <2>8. out = Meant(handled)
        BY InTerms DEF ParserInv
    <2> QED
        BY <2>5, <2>6, <2>7, <2>8 DEF YieldsAsSent
<1> QED
    BY <1>1, ParserInvariant, PTL

\* For any parts and any cut into chunks, a stream ends by a buffer overflow, or at a
\* part that the code has no exception handler for: JSON that is not an object, an
\* event whose AccessControllerEvent is not, an infinite number, or JSON nested too
\* deeply.  Every other malformed part is survived.
THEOREM StreamEndsForCause == Spec => []EndsOnlyForCause
<1>1. ParserInv => EndsOnlyForCause
    BY DEF ParserInv
<1> QED
    BY <1>1, ParserInvariant, PTL
=============================================================================
