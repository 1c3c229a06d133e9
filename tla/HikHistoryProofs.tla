--------------------------- MODULE HikHistoryProofs ---------------------------
(***************************************************************************)
(* Proofs about HikHistory, for every set of readers and statistic ids and  *)
(* every bound: what the running sum of a batch is, that no import adds more *)
(* than the backfills counted, and that the chart of a reader is right when  *)
(* nothing is under way.  Induction over the hours is by the least hour at   *)
(* which a claim fails.                                                     *)
(***************************************************************************)
EXTENDS HikHistory, FiniteSetTheorems, WellFoundedInduction, TLAPS

Swipes == [Hours -> Nat]

-----------------------------------------------------------------------------
(* The running sum. *)

\* A set of numbers that is not empty has a least element.
LEMMA LeastNumber ==
    ASSUME NEW T \in SUBSET Nat, T # {}
    PROVE  \E m \in T : \A n \in T : m <= n
<1> DEFINE R == OpToRel(<, Nat)
<1>1. IsWellFoundedOn(R, Nat)
    BY NatLessThanWellFounded
<1>2. R = {ss \in Nat \X Nat : ss[1] < ss[2]}
    BY DEF OpToRel
<1> HIDE DEF R
<1>3. PICK m \in T : \A n \in T : ~(<<n, m>> \in R)
    BY <1>1, WFMin
<1>4. \A n \in T : ~(n < m)
    BY <1>2, <1>3
<1> QED
    BY <1>4

\* A set of hours that does not hold 0, nor an hour whose predecessor it does not
\* hold, holds no hour.
LEMMA NoLeastHour ==
    ASSUME NEW T, T \subseteq 0..MaxHour, 0 \notin T,
           \A n \in Hours : n - 1 \notin T => n \notin T
    PROVE  T = {}
<1> SUFFICES ASSUME T # {} PROVE FALSE
    OBVIOUS
<1>1. T \in SUBSET Nat
    BY BoundsAssumption
<1>2. PICK m \in T : \A n \in T : m <= n
    BY <1>1, LeastNumber
<1>3. m \in Hours /\ m - 1 \in Nat /\ m \in Nat
    BY BoundsAssumption DEF Hours
<1>4. ~(m <= m - 1)
    BY <1>3
<1> QED
    BY <1>2, <1>3, <1>4

\* g is the running sum of f.
Runs(f, g) == g = [n \in 0..MaxHour |-> IF n = 0 THEN 0 ELSE g[n - 1] + f[n]]

\* Every batch has a running sum.
LEMMA RunExists ==
    ASSUME NEW f \in Swipes
    PROVE  \E g : Runs(f, g)
<1> DEFINE RunsTo(n, g) == /\ g \in [0..n -> Nat] /\ g[0] = 0
                           /\ \A m \in 1..n : g[m] = g[m - 1] + f[m]
           T == {n \in 0..MaxHour : ~ \E g : RunsTo(n, g)}
<1>1. 0 \notin T
    <2>1. RunsTo(0, [m \in 0..0 |-> 0])
        OBVIOUS
    <2> QED
        BY <2>1
<1>2. ASSUME NEW n \in Hours, n - 1 \notin T PROVE n \notin T
    <2>1. n - 1 \in 0..MaxHour /\ n \in Nat /\ n >= 1
        BY BoundsAssumption DEF Hours
    <2>2. PICK g : RunsTo(n - 1, g)
        BY <1>2, <2>1
    <2> DEFINE e == [m \in 0..n |-> IF m = n THEN g[n - 1] + f[n] ELSE g[m]]
    <2>3. f[n] \in Nat /\ g[n - 1] \in Nat
        BY <2>1, <2>2 DEF Swipes
    <2>4. \A m \in 0..n : m = n \/ m \in 0..(n - 1)
        BY <2>1
    <2>5. e \in [0..n -> Nat]
        BY <2>2, <2>3, <2>4
    <2>6. e[0] = 0
        BY <2>1, <2>2
    <2>7. ASSUME NEW m \in 1..n PROVE e[m] = e[m - 1] + f[m]
        <3>1. CASE m = n
            BY <2>1, <3>1
        <3>2. CASE m # n
            <4>1. m \in 1..(n - 1) /\ m - 1 \in 0..n /\ m - 1 # n
                BY <2>1, <3>2
            <4>2. g[m] = g[m - 1] + f[m]
                BY <2>2, <4>1
            <4>3. e[m] = g[m] /\ e[m - 1] = g[m - 1]
                BY <2>1, <3>2, <4>1
            <4> QED
                BY <4>2, <4>3
        <3> QED
            BY <3>1, <3>2
    <2> HIDE DEF e
    <2>8. RunsTo(n, e)
        BY <2>5, <2>6, <2>7
    <2> QED
        BY <2>8
<1> HIDE DEF RunsTo
<1>3. T = {}
    BY <1>1, <1>2, NoLeastHour
<1>4. MaxHour \in 0..MaxHour
    BY BoundsAssumption
<1>5. PICK g : RunsTo(MaxHour, g)
    BY <1>3, <1>4
<1>6. g = [n \in 0..MaxHour |-> IF n = 0 THEN 0 ELSE g[n - 1] + f[n]]
    <2>1. \A n \in 0..MaxHour : n # 0 => n \in 1..MaxHour
        BY BoundsAssumption
    <2> QED
        BY <1>5, <2>1 DEF RunsTo
<1> QED
    BY <1>6 DEF Runs

\* The sum up to an hour adds the hour's swipes to the sum up to the hour before.
LEMMA UpToStep ==
    ASSUME NEW f \in Swipes
    PROVE  /\ UpTo(f, 0) = 0
           /\ \A n \in 0..MaxHour : UpTo(f, n) \in Nat
           /\ \A h \in Hours : UpTo(f, h) = UpTo(f, h - 1) + f[h]
           /\ Total(f) = UpTo(f, MaxHour) /\ Total(f) \in Nat
<1> DEFINE s == CHOOSE g : Runs(f, g)
<1>1. Runs(f, s)
    BY RunExists
<1>2. \A n : UpTo(f, n) = s[n]
    BY DEF UpTo, Runs
<1> HIDE DEF s
<1>3. /\ s[0] = 0
      /\ \A n \in Hours : s[n] = s[n - 1] + f[n]
    BY <1>1, BoundsAssumption DEF Runs, Hours
<1> DEFINE T == {n \in 0..MaxHour : s[n] \notin Nat}
<1>4. T = {}
    <2>1. 0 \notin T
        BY <1>3
    <2>2. ASSUME NEW n \in Hours, n - 1 \notin T PROVE n \notin T
        <3>1. n - 1 \in 0..MaxHour
            BY BoundsAssumption DEF Hours
        <3>2. s[n - 1] \in Nat /\ f[n] \in Nat
            BY <2>2, <3>1 DEF Swipes
        <3> QED
            BY <1>3, <3>2
    <2> QED
        BY <2>1, <2>2, NoLeastHour
<1>5. MaxHour \in 0..MaxHour
    BY BoundsAssumption
<1> QED
    BY <1>2, <1>3, <1>4, <1>5 DEF Total

\* A batch of numbers has a number in every hour.
LEMMA SwipesType ==
    ASSUME NEW f \in Swipes, NEW h \in Hours
    PROVE  f[h] \in Nat /\ h \in Nat /\ h - 1 \in 0..MaxHour /\ h \in 0..MaxHour
BY BoundsAssumption DEF Swipes, Hours

\* The sum of two batches' hours is the sum of their sums.
LEMMA UpToAdds ==
    ASSUME NEW f \in Swipes, NEW e \in Swipes
    PROVE  LET t == [h \in Hours |-> f[h] + e[h]]
           IN  t \in Swipes /\ \A n \in 0..MaxHour : UpTo(t, n) = UpTo(f, n) + UpTo(e, n)
<1> DEFINE t == [h \in Hours |-> f[h] + e[h]]
           T == {n \in 0..MaxHour : UpTo(t, n) # UpTo(f, n) + UpTo(e, n)}
<1>1. t \in Swipes
    BY DEF Swipes
<1>2. 0 \notin T
    BY <1>1, UpToStep
<1>3. ASSUME NEW n \in Hours, n - 1 \notin T PROVE n \notin T
    <2>1. n - 1 \in 0..MaxHour
        BY SwipesType
    <2>2. UpTo(t, n - 1) = UpTo(f, n - 1) + UpTo(e, n - 1)
        BY <1>3, <2>1
    <2>3. /\ UpTo(t, n) = UpTo(t, n - 1) + t[n]
          /\ UpTo(f, n) = UpTo(f, n - 1) + f[n]
          /\ UpTo(e, n) = UpTo(e, n - 1) + e[n]
        BY <1>1, UpToStep
    <2>4. t[n] = f[n] + e[n]
        OBVIOUS
    <2>5. /\ UpTo(f, n - 1) \in Nat /\ UpTo(e, n - 1) \in Nat
          /\ f[n] \in Nat /\ e[n] \in Nat
        BY <2>1, UpToStep, SwipesType
    <2> HIDE DEF t
    <2> QED
        BY <2>2, <2>3, <2>4, <2>5
<1>4. T = {}
    BY <1>2, <1>3, NoLeastHour
<1> QED
    BY <1>1, <1>4

\* The sum never falls from one hour to a later one.
LEMMA UpToGrows ==
    ASSUME NEW f \in Swipes, NEW h \in 0..MaxHour, NEW n \in 0..MaxHour, h <= n
    PROVE  UpTo(f, h) <= UpTo(f, n)
<1> DEFINE T == {m \in 0..MaxHour : h <= m /\ ~(UpTo(f, h) <= UpTo(f, m))}
<1>1. UpTo(f, h) \in Nat
    BY UpToStep
<1>2. 0 \notin T
    <2>1. h <= 0 => h = 0
        BY BoundsAssumption
    <2> QED
        BY <1>1, <2>1
<1>3. ASSUME NEW m \in Hours, m - 1 \notin T PROVE m \notin T
    <2>1. m - 1 \in 0..MaxHour /\ m \in Nat /\ h \in Nat
        BY SwipesType, BoundsAssumption
    <2>2. UpTo(f, m) = UpTo(f, m - 1) + f[m] /\ UpTo(f, m - 1) \in Nat /\ f[m] \in Nat
        BY <2>1, UpToStep, SwipesType
    <2>3. h <= m - 1 => UpTo(f, h) <= UpTo(f, m - 1)
        BY <1>3, <2>1
    <2>4. h <= m => h <= m - 1 \/ h = m
        BY <2>1
    <2> QED
        BY <1>1, <2>2, <2>3, <2>4
<1>4. T = {}
    BY <1>2, <1>3, NoLeastHour
<1> QED
    BY <1>4

\* Hours without a swipe do not change the sum.
LEMMA UpToStays ==
    ASSUME NEW f \in Swipes, NEW h \in 0..MaxHour, NEW n \in 0..MaxHour, h <= n,
           \A g \in Hours : h < g /\ g <= n => f[g] = 0
    PROVE  UpTo(f, n) = UpTo(f, h)
<1> DEFINE T == {m \in 0..MaxHour : h <= m /\ m <= n /\ UpTo(f, m) # UpTo(f, h)}
<1>1. UpTo(f, h) \in Nat
    BY UpToStep
<1>2. 0 \notin T
    <2>1. h <= 0 => h = 0
        BY BoundsAssumption
    <2> QED
        BY <1>1, <2>1
<1>3. ASSUME NEW m \in Hours, m - 1 \notin T PROVE m \notin T
    <2>1. m - 1 \in 0..MaxHour /\ m \in Nat /\ h \in Nat /\ n \in Nat
        BY SwipesType, BoundsAssumption
    <2>2. UpTo(f, m) = UpTo(f, m - 1) + f[m] /\ UpTo(f, m - 1) \in Nat /\ f[m] \in Nat
        BY <2>1, UpToStep, SwipesType
    <2>3. h <= m - 1 /\ m - 1 <= n => UpTo(f, m - 1) = UpTo(f, h)
        BY <1>3, <2>1
    <2>4. h <= m => h <= m - 1 \/ h = m
        BY <2>1
    <2>5. h <= m - 1 /\ m <= n => f[m] = 0 /\ m - 1 <= n
        BY <2>1
    <2> QED
        BY <1>1, <2>2, <2>3, <2>4, <2>5
<1>4. T = {}
    BY <1>2, <1>3, NoLeastHour
<1> QED
    BY <1>4

\* No sum exceeds the total, and an hour's swipes are part of the sum up to it.
LEMMA UpToBounds ==
    ASSUME NEW f \in Swipes, NEW h \in Hours
    PROVE  UpTo(f, h) \in Nat /\ UpTo(f, h) <= Total(f) /\ f[h] <= UpTo(f, h)
<1>1. MaxHour \in 0..MaxHour /\ h \in 0..MaxHour /\ h <= MaxHour /\ h - 1 \in 0..MaxHour
    BY BoundsAssumption DEF Hours
<1>2. UpTo(f, h) <= UpTo(f, MaxHour)
    BY <1>1, UpToGrows
<1>3. UpTo(f, h) = UpTo(f, h - 1) + f[h] /\ UpTo(f, h - 1) \in Nat /\ f[h] \in Nat
    BY <1>1, UpToStep, SwipesType
<1> QED
    BY <1>2, <1>3, UpToStep

\* A batch without a swipe sums to nothing.
LEMMA ZeroTotal ==
    /\ Zero \in Swipes
    /\ Total(Zero) = 0
<1>1. Zero \in Swipes
    BY DEF Zero, Swipes
<1>2. 0 \in 0..MaxHour /\ MaxHour \in 0..MaxHour /\ 0 <= MaxHour
    BY BoundsAssumption
<1>3. \A g \in Hours : Zero[g] = 0
    BY DEF Zero
<1>4. UpTo(Zero, MaxHour) = UpTo(Zero, 0)
    BY <1>1, <1>2, <1>3, UpToStays
<1> QED
    BY <1>1, <1>4, UpToStep

-----------------------------------------------------------------------------
(* The chart of the swipes: what the rows of a reader are to be. *)

Chart(f) == [h \in Hours |-> IF f[h] = 0 THEN 0 ELSE UpTo(f, h)]

\* What committing an import makes of the rows.
Merged(r, s) == [h \in Hours |-> IF h \in DOMAIN s THEN s[h] ELSE r[h]]

\* The swipes of two batches, hour by hour.
Plus(f, e) == [h \in Hours |-> f[h] + e[h]]

\* A set of hours that is not empty has a last one, and Max returns it.
LEMMA LastHour ==
    ASSUME NEW S \in SUBSET Hours, S # {}
    PROVE  Max(S) \in S /\ \A h \in S : h <= Max(S)
<1> DEFINE T == {n \in Nat : MaxHour - n \in S}
<1>1. \A h \in S : h \in Nat /\ h >= 1 /\ h <= MaxHour
    BY BoundsAssumption DEF Hours
<1>2. PICK g \in S : TRUE
    OBVIOUS
<1>3. MaxHour - g \in T
    BY <1>1, BoundsAssumption
<1>4. PICK m \in T : \A n \in T : m <= n
    BY <1>3, LeastNumber
<1>5. MaxHour - m \in S
    BY <1>4
<1>6. ASSUME NEW h \in S PROVE MaxHour - m >= h
    <2>1. MaxHour - h \in Nat /\ MaxHour - (MaxHour - h) = h
        BY <1>1, BoundsAssumption
    <2>2. m <= MaxHour - h
        BY <1>4, <2>1
    <2> QED
        BY <1>1, <1>4, <2>2, BoundsAssumption
<1>7. \E x \in S : \A y \in S : x >= y
    BY <1>5, <1>6
<1>8. Max(S) \in S /\ \A y \in S : Max(S) >= y
    BY <1>7 DEF Max
<1> QED
    BY <1>1, <1>8

\* The last row of a chart holds its total.
LEMMA LastOfChart ==
    ASSUME NEW f \in Swipes, NEW i \in Ids, rows[i] = Chart(f)
    PROVE  Base(i) = Total(f)
<1>1. \A h \in Hours : f[h] \in Nat /\ UpTo(f, h) \in Nat /\ f[h] <= UpTo(f, h)
    BY UpToBounds, SwipesType
<1>2. Rows(i) = {h \in Hours : f[h] > 0}
    BY <1>1 DEF Rows, Chart
<1>3. MaxHour \in 0..MaxHour /\ 0 \in 0..MaxHour /\ MaxHour \in Nat
    BY BoundsAssumption
<1>4. CASE Rows(i) = {}
    <2>1. \A g \in Hours : f[g] = 0
        BY <1>1, <1>2, <1>4
    <2>2. UpTo(f, MaxHour) = UpTo(f, 0)
        BY <1>3, <2>1, UpToStays
    <2> QED
        BY <1>4, <2>2, UpToStep DEF Base
<1>5. CASE Rows(i) # {}
    <2>1. Rows(i) \in SUBSET Hours
        BY <1>2
    <2> DEFINE m == Max(Rows(i))
    <2>2. m \in Rows(i) /\ \A h \in Rows(i) : h <= m
        BY <1>5, <2>1, LastHour
    <2>3. m \in Hours /\ f[m] # 0
        BY <1>1, <1>2, <2>2
    <2>4. \A g \in Hours : m < g /\ g <= MaxHour => f[g] = 0
        <3>1. \A g \in Hours : g \in Nat
            BY SwipesType
        <3> QED
            BY <1>1, <1>2, <2>2, <2>3, <3>1
    <2> HIDE DEF m
    <2>5. m \in 0..MaxHour /\ m <= MaxHour
        BY <2>3, BoundsAssumption DEF Hours
    <2>6. UpTo(f, MaxHour) = UpTo(f, m)
        BY <1>3, <2>4, <2>5, UpToStays
    <2>7. rows[i][m] = UpTo(f, m)
        BY <2>3 DEF Chart
    <2> QED
        BY <1>5, <2>6, <2>7, UpToStep DEF Base, m
<1> QED
    BY <1>4, <1>5

\* An import that continues from the total, of hours none of which lies before one
\* of the chart's, makes the chart of all swipes of the chart of the earlier ones:
\* the row of the boundary hour is replaced by one that counts both.
LEMMA ChartContinues ==
    ASSUME NEW f \in Swipes, NEW e \in Swipes,
           \A h, g \in Hours : f[h] > 0 /\ e[g] > 0 => h <= g
    PROVE  Merged(Chart(f), Sums(Total(f), e)) = Chart(Plus(f, e))
<1> DEFINE t == Plus(f, e)
<1>1. t \in Swipes /\ \A n \in 0..MaxHour : UpTo(t, n) = UpTo(f, n) + UpTo(e, n)
    BY UpToAdds DEF Plus
<1>2. DOMAIN Sums(Total(f), e) = {g \in Hours : e[g] > 0}
    BY DEF Sums
<1>3. MaxHour \in 0..MaxHour /\ 0 \in 0..MaxHour /\ MaxHour \in Nat
    BY BoundsAssumption
<1>4. ASSUME NEW h \in Hours
      PROVE  Merged(Chart(f), Sums(Total(f), e))[h] = Chart(t)[h]
    <2>1. /\ h \in 0..MaxHour /\ h \in Nat /\ h <= MaxHour /\ 0 <= h
          /\ f[h] \in Nat /\ e[h] \in Nat /\ t[h] = f[h] + e[h]
        BY SwipesType, BoundsAssumption DEF Plus
    <2>2. \A g \in Hours : g \in Nat /\ f[g] \in Nat /\ e[g] \in Nat
        BY SwipesType
    <2>3. UpTo(t, h) = UpTo(f, h) + UpTo(e, h) /\ UpTo(f, h) \in Nat /\ UpTo(e, h) \in Nat
        BY <1>1, <2>1, UpToStep
    <2>4. CASE e[h] > 0
        <3>1. \A g \in Hours : h < g /\ g <= MaxHour => f[g] = 0
            BY <2>1, <2>2, <2>4
        <3>2. Total(f) = UpTo(f, h)
            BY <1>3, <2>1, <3>1, UpToStays, UpToStep
        <3>3. Merged(Chart(f), Sums(Total(f), e))[h] = Total(f) + UpTo(e, h)
            BY <1>2, <2>4 DEF Merged, Sums
        <3>4. Chart(t)[h] = UpTo(t, h)
            BY <2>1, <2>4 DEF Chart
        <3> QED
            BY <2>3, <3>2, <3>3, <3>4
    <2>5. CASE e[h] = 0
        <3>1. Merged(Chart(f), Sums(Total(f), e))[h] = Chart(f)[h]
            BY <1>2, <2>5 DEF Merged
        <3>2. CASE f[h] = 0
            BY <2>1, <2>5, <3>1, <3>2 DEF Chart
        <3>3. CASE f[h] > 0
            <4>1. \A g \in Hours : 0 < g /\ g <= h => e[g] = 0
                BY <2>1, <2>2, <2>5, <3>3
            <4>2. UpTo(e, h) = 0
                BY <1>3, <2>1, <4>1, UpToStays, UpToStep
            <4>3. Chart(f)[h] = UpTo(f, h) /\ Chart(t)[h] = UpTo(t, h)
                BY <2>1, <2>5, <3>3 DEF Chart
            <4> QED
                BY <2>3, <3>1, <4>2, <4>3
        <3> QED
            BY <2>1, <3>2, <3>3
    <2> QED
        BY <2>1, <2>4, <2>5
<1> QED
    BY <1>4 DEF Merged, Chart

-----------------------------------------------------------------------------
(* The invariants. *)

Import == [id : Ids, sums : UNION {[D -> Nat] : D \in SUBSET Hours}]
Pending == [slot : Slots, base : Nat]

TypeOK ==
    /\ id \in [Slots -> Ids]
    /\ task \in [Tasks -> {"new", "imports", "done"}]
    /\ batch \in [Tasks -> [Slots -> Swipes]]
    /\ reading \in [Tasks -> {<<>>} \cup {<<r>> : r \in Pending}]
    /\ queue \in Seq(Import)
    /\ rows \in [Ids -> Swipes]
    /\ newest \in Hours
    /\ crashes \in Nat
    /\ queued \in [Ids -> Swipes]
    /\ flawed \subseteq Ids

\* Backfill b reads for the statistic i, or is to queue what it read.
Reads(b, i) == reading[b] # <<>> /\ id[reading[b][1].slot] = i

\* Nothing that is stored, queued or read exceeds what the backfills counted.
CountedOnce ==
    /\ NeverOvercounts
    /\ \A n \in 1..Len(queue) : \A h \in DOMAIN queue[n].sums :
          queue[n].sums[h] <= Total(queued[queue[n].id])
    /\ \A b \in Tasks, i \in Ids : Reads(b, i) => reading[b][1].base <= Total(queued[i])

\* The batches follow one another: what an earlier backfill has left lies in no
\* later hour than what a later one has, and nothing lies after the newest event.
BatchesInOrder ==
    /\ \A b \in Tasks : \A o \in 1..(b - 1) : task[o] = "new" => task[b] = "new"
    /\ \A b \in Tasks, k \in Slots : task[b] = "new" => batch[b][k] = Zero
    /\ \A b \in Tasks : task[b] = "new" => reading[b] = <<>>
    /\ \A b \in Tasks, k \in Slots, h \in Hours : batch[b][k][h] > 0 => h <= newest
    /\ \A b \in Tasks : \A o \in 1..(b - 1) : \A k, l \in Slots : \A h, g \in Hours :
          batch[o][k][h] > 0 /\ batch[b][l][g] > 0 => h <= g
    /\ \A i \in Ids, h \in Hours : i \notin flawed /\ queued[i][h] > 0 => h <= newest

\* The statistic of one reader alone, whose every import continued the last row.
Sound(i) == Own(i) /\ i \notin flawed

\* What was imported of a reader lies in no later hour than what is left of it.
ImportsInOrder ==
    \A i \in Ids : Sound(i) =>
        \A b \in Tasks, k \in Slots : id[k] = i =>
            \A h, g \in Hours : queued[i][h] > 0 /\ batch[b][k][g] > 0 => h <= g

\* An import under way is the only one of its statistic.  Once read, its base is
\* the chart's total, and no earlier backfill has swipes left; once queued, its
\* commit completes the chart.
OneImport(i) ==
    /\ \A b \in Tasks : Reads(b, i) =>
          /\ rows[i] = Chart(queued[i]) /\ reading[b][1].base = Total(queued[i])
          /\ ~Overtakes(b, i)
          /\ \A n \in 1..Len(queue) : queue[n].id # i
          /\ \A o \in Tasks : Reads(o, i) => o = b
    /\ \A n \in 1..Len(queue) : queue[n].id = i =>
          /\ Merged(rows[i], queue[n].sums) = Chart(queued[i])
          /\ \A m \in 1..Len(queue) : queue[m].id = i => m = n
    /\ ~InFlight(i) => rows[i] = Chart(queued[i])

OneUnderWay == \A i \in Ids : Sound(i) => OneImport(i)

ChartInv == BatchesInOrder /\ ImportsInOrder /\ OneUnderWay

-----------------------------------------------------------------------------
(* Type correctness. *)

\* The swipes of a new batch lie between the newest event before it and the newest
\* event after it.
LEMMA BeginResult ==
    ASSUME TypeOK, NEW b \in Tasks, Begin(b)
    PROVE  /\ batch' \in [Tasks -> [Slots -> Swipes]]
           /\ \A o \in Tasks : o # b => batch'[o] = batch[o]
           /\ newest' \in Hours /\ newest <= newest'
           /\ \A k \in Slots, h \in Hours : batch'[b][k][h] > 0 => newest <= h /\ h <= newest'
<1>1. PICK f \in [Slots -> [newest..MaxHour -> 0..MaxSwipes]] :
            batch' = [batch EXCEPT ![b] = [k \in Slots |->
                        [h \in Hours |-> IF h < newest THEN 0 ELSE f[k][h]]]]
    BY DEF Begin
<1> DEFINE e == [k \in Slots |-> [h \in Hours |-> IF h < newest THEN 0 ELSE f[k][h]]]
<1>2. newest \in Nat /\ MaxHour \in Nat /\ \A h \in Hours : h \in Nat /\ h <= MaxHour
    BY BoundsAssumption DEF TypeOK, Hours
<1>3. ASSUME NEW k \in Slots, NEW h \in Hours PROVE e[k][h] \in Nat /\ (e[k][h] > 0 => newest <= h)
    <2>1. CASE h < newest
        BY <2>1
    <2>2. CASE ~(h < newest)
        <3>1. h \in newest..MaxHour /\ newest <= h
            BY <1>2, <2>2
        <3>2. f[k][h] \in 0..MaxSwipes
            BY <3>1
        <3> QED
            BY <2>2, <3>1, <3>2, BoundsAssumption
    <2> QED
        BY <2>1, <2>2
<1>4. e \in [Slots -> Swipes]
    BY <1>3 DEF Swipes
<1>5. batch' = [batch EXCEPT ![b] = e]
    BY <1>1
<1> HIDE DEF e
<1>6. batch'[b] = e /\ batch' \in [Tasks -> [Slots -> Swipes]]
    BY <1>4, <1>5 DEF TypeOK
<1> DEFINE S == {h \in Hours : \E k \in Slots : batch'[b][k][h] > 0}
<1>7. S # {}
    <2>1. PICK k \in Slots : batch'[b][k] # Zero
        BY DEF Begin, Todo
    <2>2. batch'[b][k] \in Swipes
        BY <1>4, <1>6
    <2>3. PICK h \in Hours : batch'[b][k][h] # 0
        BY <2>1, <2>2 DEF Zero, Swipes
    <2>4. batch'[b][k][h] > 0
        BY <2>2, <2>3 DEF Swipes
    <2> QED
        BY <2>4
<1>8. Max(S) \in S /\ \A h \in S : h <= Max(S)
    BY <1>7, LastHour
<1>9. \E h \in Hours : /\ \E k \in Slots : batch'[b][k][h] > 0
                       /\ \A k \in Slots, g \in Hours : g > h => batch'[b][k][g] = 0
    <2>1. \A k \in Slots, g \in Hours : g > Max(S) => batch'[b][k][g] = 0
        <3> SUFFICES ASSUME NEW k \in Slots, NEW g \in Hours, g > Max(S),
                            batch'[b][k][g] # 0
                     PROVE  FALSE
            OBVIOUS
        <3>1. batch'[b][k][g] \in Nat
            BY <1>4, <1>6 DEF Swipes
        <3>2. g \in S
            BY <3>1
        <3>3. Max(S) \in Nat /\ g \in Nat
            BY <1>2, <1>8
        <3>4. g <= Max(S)
            BY <1>8, <3>2
        <3> HIDE DEF S
        <3> QED
            BY <3>3, <3>4
    <2> QED
        BY <1>8, <2>1
<1>10. /\ newest' \in Hours
       /\ \E k \in Slots : batch'[b][k][newest'] > 0
       /\ \A k \in Slots, g \in Hours : g > newest' => batch'[b][k][g] = 0
    BY <1>9 DEF Begin
<1>11. newest <= newest'
    BY <1>3, <1>6, <1>10
<1>12. \A k \in Slots, h \in Hours : batch'[b][k][h] > 0 => newest <= h /\ h <= newest'
    BY <1>2, <1>3, <1>6, <1>10
<1> QED
    BY <1>5, <1>6, <1>10, <1>11, <1>12 DEF TypeOK

\* The base of an answered read is a number.
LEMMA BaseType ==
    ASSUME TypeOK, NEW i \in Ids
    PROVE  /\ Base(i) \in Nat
           /\ Rows(i) # {} => \E h \in Hours : Base(i) = rows[i][h]
<1>1. rows[i] \in Swipes
    BY DEF TypeOK
<1>2. CASE Rows(i) = {}
    BY <1>2 DEF Base
<1>3. CASE Rows(i) # {}
    <2>1. Rows(i) \in SUBSET Hours
        BY DEF Rows
    <2>2. Max(Rows(i)) \in Hours
        BY <1>3, <2>1, LastHour
    <2> QED
        BY <1>1, <1>3, <2>2 DEF Base, Swipes
<1> QED
    BY <1>2, <1>3

\* The rows an import carries are hours with sums.
LEMMA SumsType ==
    ASSUME NEW n \in Nat, NEW f \in Swipes
    PROVE  /\ Sums(n, f) \in UNION {[D -> Nat] : D \in SUBSET Hours}
           /\ DOMAIN Sums(n, f) = {g \in Hours : f[g] > 0}
           /\ \A h \in DOMAIN Sums(n, f) : Sums(n, f)[h] = n + UpTo(f, h)
<1> DEFINE D == {g \in Hours : f[g] > 0}
<1>1. \A h \in D : n + UpTo(f, h) \in Nat
    BY UpToBounds
<1>2. Sums(n, f) \in [D -> Nat]
    BY <1>1 DEF Sums
<1> QED
    BY <1>2 DEF Sums

\* An import is an id and its sums.
LEMMA ImportType ==
    ASSUME NEW m \in Import
    PROVE  /\ m.id \in Ids /\ DOMAIN m.sums \subseteq Hours
           /\ \A h \in DOMAIN m.sums : m.sums[h] \in Nat
<1>1. PICK D \in SUBSET Hours : m.sums \in [D -> Nat]
    BY DEF Import
<1> QED
    BY <1>1 DEF Import

\* The rows an import makes are rows.
LEMMA MergedType ==
    ASSUME NEW r \in Swipes, NEW m \in Import
    PROVE  Merged(r, m.sums) \in Swipes
<1>1. \A h \in Hours : Merged(r, m.sums)[h] \in Nat
    BY ImportType DEF Merged, Swipes
<1> QED
    BY <1>1 DEF Merged, Swipes

\* What Queue(b) does, told apart for the statistic it writes and the others.
LEMMA QueueResult ==
    ASSUME TypeOK, NEW b \in Tasks, Queue(b)
    PROVE  LET k == reading[b][1].slot
               i == id[k]
               m == [id |-> i, sums |-> Sums(reading[b][1].base, batch[b][k])]
           IN  /\ k \in Slots /\ i \in Ids /\ reading[b][1].base \in Nat
               /\ batch[b][k] \in Swipes /\ queued[i] \in Swipes
               /\ m \in Import /\ queue' = Append(queue, m)
               /\ queued' \in [Ids -> Swipes]
               /\ queued'[i] = Plus(queued[i], batch[b][k])
               /\ \A j \in Ids : j # i => queued'[j] = queued[j]
               /\ batch' \in [Tasks -> [Slots -> Swipes]]
               /\ batch'[b][k] = Zero
               /\ \A o \in Tasks, l \in Slots : <<o, l>> # <<b, k>> => batch'[o][l] = batch[o][l]
               /\ reading' = [reading EXCEPT ![b] = <<>>]
               /\ task' \in [Tasks -> {"new", "imports", "done"}]
               /\ task'[b] = "done" \/ task'[b] = task[b]
               /\ \A o \in Tasks : o # b => task'[o] = task[o]
<1> DEFINE k == reading[b][1].slot
           i == id[k]
           m == [id |-> i, sums |-> Sums(reading[b][1].base, batch[b][k])]
<1>1. reading[b][1] \in Pending
    BY SMTT(30) DEF Queue, TypeOK
<1>2. k \in Slots /\ reading[b][1].base \in Nat
    BY <1>1 DEF Pending
<1>3. i \in Ids /\ batch[b][k] \in Swipes /\ queued[i] \in Swipes
    BY <1>2 DEF TypeOK
<1>4. m \in Import
    BY <1>2, <1>3, SumsType DEF Import
<1>5. queued' = [queued EXCEPT ![i] = Plus(queued[i], batch[b][k])]
    BY <1>3 DEF Queue, Plus, TypeOK
<1>6. Plus(queued[i], batch[b][k]) \in Swipes
    BY <1>3, UpToAdds DEF Plus
<1>7. queued' \in [Ids -> Swipes] /\ queued'[i] = Plus(queued[i], batch[b][k])
      /\ \A j \in Ids : j # i => queued'[j] = queued[j]
    BY <1>3, <1>5, <1>6 DEF TypeOK
<1>8. batch' = [batch EXCEPT ![b][k] = Zero]
    BY DEF Queue
<1>9. /\ batch' \in [Tasks -> [Slots -> Swipes]] /\ batch'[b][k] = Zero
      /\ \A o \in Tasks, l \in Slots : <<o, l>> # <<b, k>> => batch'[o][l] = batch[o][l]
    BY <1>2, <1>8, ZeroTotal DEF TypeOK
<1>10. queue' = Append(queue, m) /\ reading' = [reading EXCEPT ![b] = <<>>]
    BY DEF Queue
<1>11. PICK t \in {"done", task[b]} : task' = [task EXCEPT ![b] = t]
    BY DEF Queue, TypeOK
<1>12. /\ task' \in [Tasks -> {"new", "imports", "done"}]
       /\ task'[b] = "done" \/ task'[b] = task[b]
       /\ \A o \in Tasks : o # b => task'[o] = task[o]
    BY <1>11 DEF TypeOK
<1> QED
    BY <1>2, <1>3, <1>4, <1>7, <1>9, <1>10, <1>12

\* What Refuse(b) does: nothing of the backfill is left, and nothing is imported.
LEMMA RefuseResult ==
    ASSUME TypeOK, NEW b \in Tasks, Refuse(b)
    PROVE  /\ batch' \in [Tasks -> [Slots -> Swipes]]
           /\ \A k \in Slots : batch'[b][k] = Zero
           /\ \A o \in Tasks : o # b => batch'[o] = batch[o]
           /\ \A o \in Tasks, k \in Slots, h \in Hours :
                 batch'[o][k][h] > 0 => batch[o][k][h] > 0
           /\ task' \in [Tasks -> {"new", "imports", "done"}]
           /\ task'[b] = "done" /\ \A o \in Tasks : o # b => task'[o] = task[o]
           /\ reading[b] # <<>> /\ reading' = [reading EXCEPT ![b] = <<>>]
           /\ UNCHANGED <<id, queue, rows, newest, crashes, queued, flawed>>
<1>1. /\ reading[b] # <<>> /\ reading' = [reading EXCEPT ![b] = <<>>]
      /\ task' = [task EXCEPT ![b] = "done"]
      /\ batch' = [batch EXCEPT ![b] = [k \in Slots |-> Zero]]
      /\ UNCHANGED <<id, queue, rows, newest, crashes, queued, flawed>>
    BY DEF Refuse
<1>2. [k \in Slots |-> Zero] \in [Slots -> Swipes]
    BY ZeroTotal
<1>3. /\ batch' \in [Tasks -> [Slots -> Swipes]]
      /\ \A k \in Slots : batch'[b][k] = Zero
      /\ \A o \in Tasks : o # b => batch'[o] = batch[o]
    BY <1>1, <1>2 DEF TypeOK
<1>4. \A h \in Hours : ~(Zero[h] > 0)
    BY DEF Zero
<1>5. \A o \in Tasks, k \in Slots, h \in Hours :
          batch'[o][k][h] > 0 => batch[o][k][h] > 0
    BY <1>3, <1>4
<1>6. /\ task' \in [Tasks -> {"new", "imports", "done"}]
      /\ task'[b] = "done" /\ \A o \in Tasks : o # b => task'[o] = task[o]
    BY <1>1 DEF TypeOK
<1> QED
    BY <1>1, <1>3, <1>5, <1>6

\* What Commit does: the head's rows are merged in, the others move up.
LEMMA CommitResult ==
    ASSUME TypeOK, Commit
    PROVE  LET m == Head(queue)
           IN  /\ m = queue[1] /\ m \in Import /\ Len(queue) \in Nat /\ 1 \in 1..Len(queue)
               /\ rows' \in [Ids -> Swipes]
               /\ rows'[m.id] = Merged(rows[m.id], m.sums)
               /\ \A j \in Ids : j # m.id => rows'[j] = rows[j]
               /\ queue' \in Seq(Import) /\ Len(queue') = Len(queue) - 1
               /\ \A n \in 1..Len(queue') : n + 1 \in 1..Len(queue) /\ queue'[n] = queue[n + 1]
<1>1. queue \in Seq(Import) /\ queue # <<>>
    BY DEF TypeOK, Commit
<1>2. /\ Head(queue) = queue[1] /\ Head(queue) \in Import
      /\ Len(queue) \in Nat /\ 1 \in 1..Len(queue)
      /\ Tail(queue) \in Seq(Import) /\ Len(Tail(queue)) = Len(queue) - 1
      /\ \A n \in 1..Len(Tail(queue)) :
            n + 1 \in 1..Len(queue) /\ Tail(queue)[n] = queue[n + 1]
    BY <1>1
<1>3. rows[Head(queue).id] \in Swipes /\ Head(queue).id \in Ids
    BY <1>2, ImportType DEF TypeOK
<1>4. Merged(rows[Head(queue).id], Head(queue).sums) \in Swipes
    BY <1>2, <1>3, MergedType
<1>5. rows' = [rows EXCEPT ![Head(queue).id] =
                  Merged(rows[Head(queue).id], Head(queue).sums)]
    BY <1>3 DEF Commit, Merged, TypeOK
<1>6. queue' = Tail(queue)
    BY DEF Commit
<1> QED
    BY <1>2, <1>3, <1>4, <1>5, <1>6 DEF TypeOK

\* What Read(b) does: one slot that is left is read, its base a number.
LEMMA ReadResult ==
    ASSUME TypeOK, NEW b \in Tasks, Read(b)
    PROVE  \E k \in Todo(b), answered \in BOOLEAN :
              LET n == IF answered THEN Base(id[k]) ELSE 0
              IN  /\ k \in Slots /\ id[k] \in Ids /\ n \in Nat
                  /\ reading' = [reading EXCEPT ![b] = <<[slot |-> k, base |-> n]>>]
                  /\ reading' \in [Tasks -> {<<>>} \cup {<<r>> : r \in Pending}]
                  /\ flawed \subseteq flawed' /\ flawed' \subseteq Ids
                  /\ id[k] \notin flawed' =>
                        answered /\ ~InFlight(id[k]) /\ ~Overtakes(b, id[k])
<1>1. PICK k \in Todo(b), answered \in BOOLEAN :
          /\ reading' = [reading EXCEPT ![b] =
                <<[slot |-> k, base |-> IF answered THEN Base(id[k]) ELSE 0]>>]
          /\ flawed' = IF answered /\ ~InFlight(id[k]) /\ ~Overtakes(b, id[k])
                       THEN flawed ELSE flawed \cup {id[k]}
    BY DEF Read
<1> DEFINE n == IF answered THEN Base(id[k]) ELSE 0
<1>2. k \in Slots /\ id[k] \in Ids
    BY DEF Todo, TypeOK
<1>3. n \in Nat
    BY <1>2, BaseType
<1>4. [slot |-> k, base |-> n] \in Pending
    BY <1>2, <1>3 DEF Pending
<1>5. reading' = [reading EXCEPT ![b] = <<[slot |-> k, base |-> n]>>]
    BY <1>1
<1> HIDE DEF n
<1>6. reading' \in [Tasks -> {<<>>} \cup {<<r>> : r \in Pending}]
    BY <1>4, <1>5 DEF TypeOK
<1>7. /\ flawed \subseteq flawed' /\ flawed' \subseteq Ids
      /\ id[k] \notin flawed' => answered /\ ~InFlight(id[k]) /\ ~Overtakes(b, id[k])
    BY <1>1, <1>2 DEF TypeOK
<1> USE DEF n
<1> QED
    BY <1>2, <1>3, <1>5, <1>6, <1>7

LEMMA TypeStep ==
    ASSUME TypeOK, [Next]_vars
    PROVE  TypeOK'
<1>1. ASSUME NEW b \in Tasks, Begin(b) PROVE TypeOK'
    <2>1. task' \in [Tasks -> {"new", "imports", "done"}]
        BY <1>1 DEF Begin, TypeOK
    <2>2. batch' \in [Tasks -> [Slots -> Swipes]] /\ newest' \in Hours
        BY <1>1, BeginResult
    <2> QED
        BY <1>1, <2>1, <2>2 DEF Begin, TypeOK
<1>2. ASSUME NEW b \in Tasks, Read(b) PROVE TypeOK'
    <2>1. /\ reading' \in [Tasks -> {<<>>} \cup {<<r>> : r \in Pending}]
          /\ flawed' \subseteq Ids
        BY <1>2, ReadResult
    <2> QED
        BY <1>2, <2>1 DEF Read, TypeOK
<1>3. ASSUME NEW b \in Tasks, Queue(b) PROVE TypeOK'
    <2> DEFINE k == reading[b][1].slot
               m == [id |-> id[k], sums |-> Sums(reading[b][1].base, batch[b][k])]
    <2>1. /\ m \in Import /\ queue' = Append(queue, m)
          /\ queued' \in [Ids -> Swipes]
          /\ batch' \in [Tasks -> [Slots -> Swipes]]
          /\ reading' = [reading EXCEPT ![b] = <<>>]
          /\ task' \in [Tasks -> {"new", "imports", "done"}]
        BY <1>3, QueueResult
    <2> HIDE DEF m
    <2>2. queue' \in Seq(Import)
        BY <2>1 DEF TypeOK
    <2>3. reading' \in [Tasks -> {<<>>} \cup {<<r>> : r \in Pending}]
        BY <2>1 DEF TypeOK
    <2> QED
        BY <1>3, <2>1, <2>2, <2>3 DEF Queue, TypeOK
<1>4. CASE Commit
    <2>1. rows' \in [Ids -> Swipes] /\ queue' \in Seq(Import)
        BY <1>4, CommitResult
    <2> QED
        BY <1>4, <2>1 DEF Commit, TypeOK
<1>5. CASE Crash
    <2>1. task' \in [Tasks -> {"new", "imports", "done"}]
        BY <1>5 DEF Crash, TypeOK
    <2>2. batch' \in [Tasks -> [Slots -> Swipes]]
        BY <1>5, ZeroTotal DEF Crash
    <2>3. /\ queue' = <<>> /\ crashes' \in Nat
          /\ reading' \in [Tasks -> {<<>>} \cup {<<r>> : r \in Pending}]
        BY <1>5 DEF Crash, TypeOK
    <2>4. newest' \in Hours
        BY <1>5, BoundsAssumption DEF Crash, TypeOK, Hours
    <2>5. flawed' \subseteq Ids
        <3>1. \A n \in 1..Len(queue) : queue[n].id \in Ids
            BY ImportType DEF TypeOK
        <3> QED
            BY <1>5, <3>1 DEF Crash, TypeOK
    <2> QED
        BY <1>5, <2>1, <2>2, <2>3, <2>4, <2>5 DEF Crash, TypeOK
<1>6. ASSUME NEW b \in Tasks, Refuse(b) PROVE TypeOK'
    <2>1. /\ task' \in [Tasks -> {"new", "imports", "done"}]
          /\ batch' \in [Tasks -> [Slots -> Swipes]]
          /\ reading' = [reading EXCEPT ![b] = <<>>]
          /\ UNCHANGED <<id, queue, rows, newest, crashes, queued, flawed>>
        BY <1>6, RefuseResult
    <2>2. reading' \in [Tasks -> {<<>>} \cup {<<r>> : r \in Pending}]
        BY <2>1 DEF TypeOK
    <2> QED
        BY <2>1, <2>2 DEF TypeOK
<1>7. CASE UNCHANGED vars
    BY <1>7 DEF vars, TypeOK
<1> QED
    BY <1>1, <1>2, <1>3, <1>4, <1>5, <1>6, <1>7 DEF Next

\* The tables of the backfills and of the recorder keep their shape: a row is a
\* number in every hour, an import carries the hours of one batch.
THEOREM HistoryTypeCorrect == Spec => []TypeOK
<1>1. Init => TypeOK
    <2>1. 1 \in Hours
        BY BoundsAssumption DEF Hours
    <2> QED
        BY <2>1, ZeroTotal, NamingsAssumption DEF Init, TypeOK
<1>2. TypeOK /\ [Next]_vars => TypeOK'
    BY TypeStep
<1> QED
    BY <1>1, <1>2, PTL DEF Spec

-----------------------------------------------------------------------------
(* No swipe is counted twice. *)

\* The slot at hand, once something is read.
LEMMA ReadsType ==
    ASSUME TypeOK, NEW b \in Tasks, reading[b] # <<>>
    PROVE  /\ reading[b][1] \in Pending
           /\ reading[b][1].slot \in Slots /\ reading[b][1].base \in Nat
           /\ id[reading[b][1].slot] \in Ids
<1>1. reading[b][1] \in Pending
    BY DEF TypeOK
<1> QED
    BY <1>1 DEF Pending, TypeOK

\* While a read is the only step, every other read is as it was.
LEMMA ReadsAfterRead ==
    ASSUME TypeOK, NEW b \in Tasks, NEW r \in Pending, UNCHANGED id,
           reading' = [reading EXCEPT ![b] = <<r>>]
    PROVE  /\ reading'[b] = <<r>> /\ reading'[b][1] = r
           /\ \A i \in Ids : Reads(b, i)' <=> id[r.slot] = i
           /\ \A o \in Tasks, i \in Ids : o # b =>
                 reading'[o] = reading[o] /\ (Reads(o, i)' <=> Reads(o, i))
BY DEF TypeOK, Reads

\* Once the read of a backfill is used or lost, it reads nothing.
LEMMA ReadsCleared ==
    ASSUME TypeOK, NEW b \in Tasks, UNCHANGED id,
           reading' = [reading EXCEPT ![b] = <<>>]
    PROVE  /\ \A i \in Ids : ~Reads(b, i)'
           /\ \A o \in Tasks, i \in Ids : o # b =>
                 reading'[o] = reading[o] /\ (Reads(o, i)' <=> Reads(o, i))
BY DEF TypeOK, Reads

LEMMA CountedStep ==
    ASSUME TypeOK, CountedOnce, [Next]_vars
    PROVE  CountedOnce'
<1>1. ASSUME NEW b \in Tasks, Read(b) PROVE CountedOnce'
    <2>1. PICK k \in Todo(b), answered \in BOOLEAN :
              LET n == IF answered THEN Base(id[k]) ELSE 0
              IN  /\ k \in Slots /\ id[k] \in Ids /\ n \in Nat
                  /\ reading' = [reading EXCEPT ![b] = <<[slot |-> k, base |-> n]>>]
        BY <1>1, ReadResult
    <2> DEFINE n == IF answered THEN Base(id[k]) ELSE 0
               r == [slot |-> k, base |-> n]
    <2>2. UNCHANGED <<id, queue, rows, queued>>
        BY <1>1 DEF Read
    <2>3. n <= Total(queued[id[k]])
        <3>1. queued[id[k]] \in Swipes
            BY <2>1 DEF TypeOK
        <3>2. Total(queued[id[k]]) \in Nat
            BY <3>1, UpToStep
        <3>3. Base(id[k]) <= Total(queued[id[k]])
            <4>1. CASE Rows(id[k]) = {}
                BY <3>2, <4>1 DEF Base
            <4>2. CASE Rows(id[k]) # {}
                BY <2>1, <4>2, BaseType DEF CountedOnce, NeverOvercounts
            <4> QED
                BY <4>1, <4>2
        <3> QED
            BY <3>2, <3>3
    <2>4. r \in Pending /\ reading' = [reading EXCEPT ![b] = <<r>>]
        BY <2>1 DEF Pending
    <2>5. r.slot = k /\ r.base = n
        OBVIOUS
    <2> HIDE DEF r
    <2>6. ASSUME NEW o \in Tasks, NEW i \in Ids, Reads(o, i)'
          PROVE  reading'[o][1].base <= Total(queued[i])
        <3>1. CASE o = b
            <4>1. i = id[k] /\ reading'[o][1].base = n
                BY <2>2, <2>4, <2>5, <2>6, <3>1, ReadsAfterRead, ZenonT(40)
            <4> QED
                BY <2>3, <4>1
        <3>2. CASE o # b
            <4>1. Reads(o, i) /\ reading'[o] = reading[o]
                BY <2>2, <2>4, <2>6, <3>2, ReadsAfterRead
            <4> QED
                BY <4>1 DEF CountedOnce
        <3> QED
            BY <3>1, <3>2
    <2> QED
        BY <2>2, <2>6 DEF CountedOnce, NeverOvercounts
<1>2. ASSUME NEW b \in Tasks, Queue(b) PROVE CountedOnce'
    <2> DEFINE k == reading[b][1].slot
               i == id[k]
               n == reading[b][1].base
               f == batch[b][k]
               m == [id |-> i, sums |-> Sums(n, f)]
    <2>1. /\ k \in Slots /\ i \in Ids /\ n \in Nat /\ f \in Swipes /\ queued[i] \in Swipes
          /\ m \in Import /\ queue' = Append(queue, m)
          /\ queued'[i] = Plus(queued[i], f)
          /\ \A j \in Ids : j # i => queued'[j] = queued[j]
          /\ reading' = [reading EXCEPT ![b] = <<>>]
        BY <1>2, QueueResult
    <2>2. UNCHANGED <<id, rows>> /\ reading[b] # <<>>
        BY <1>2 DEF Queue
    <2>3. Reads(b, i)
        BY <2>2 DEF Reads
    <2>4. n <= Total(queued[i])
        BY <2>1, <2>3 DEF CountedOnce
    <2>5. Total(queued'[i]) = Total(queued[i]) + Total(f)
          /\ Total(queued[i]) \in Nat /\ Total(f) \in Nat
        <3>1. MaxHour \in 0..MaxHour
            BY BoundsAssumption
        <3>2. UpTo(Plus(queued[i], f), MaxHour) = UpTo(queued[i], MaxHour) + UpTo(f, MaxHour)
            BY <2>1, <3>1, UpToAdds DEF Plus
        <3> HIDE DEF f
        <3> QED
            BY <2>1, <3>2, UpToStep DEF Total
    <2>6. m.id = i /\ m.sums = Sums(n, f)
        OBVIOUS
    <2> HIDE DEF m, f, n, i, k
    <2>7. \A j \in Ids : Total(queued[j]) \in Nat /\ Total(queued'[j]) \in Nat
                         /\ Total(queued[j]) <= Total(queued'[j])
        <3>1. \A j \in Ids : Total(queued[j]) \in Nat
            BY UpToStep DEF TypeOK
        <3> QED
            BY <2>1, <2>5, <3>1
    <2>8. \A h \in DOMAIN m.sums : m.sums[h] <= Total(queued'[m.id])
        <3> SUFFICES ASSUME NEW h \in DOMAIN m.sums PROVE m.sums[h] <= Total(queued'[i])
            BY <2>6
        <3>1. h \in Hours /\ m.sums[h] = n + UpTo(f, h)
            <4>1. /\ DOMAIN Sums(n, f) = {g \in Hours : f[g] > 0}
                  /\ \A g \in DOMAIN Sums(n, f) : Sums(n, f)[g] = n + UpTo(f, g)
                BY <2>1, SumsType
            <4>2. h \in DOMAIN Sums(n, f) /\ m.sums[h] = Sums(n, f)[h]
                BY <2>6
            <4> QED
                BY <4>1, <4>2
        <3>2. UpTo(f, h) <= Total(f) /\ UpTo(f, h) \in Nat
            BY <2>1, <3>1, UpToBounds
        <3> QED
            BY <2>1, <2>4, <2>5, <3>1, <3>2
    <2>9. \A l \in 1..Len(queue') : \A h \in DOMAIN queue'[l].sums :
              queue'[l].sums[h] <= Total(queued'[queue'[l].id])
        <3> SUFFICES ASSUME NEW l \in 1..Len(queue'), NEW h \in DOMAIN queue'[l].sums
                     PROVE  queue'[l].sums[h] <= Total(queued'[queue'[l].id])
            OBVIOUS
        <3>1. \/ l \in 1..Len(queue) /\ queue'[l] = queue[l]
              \/ queue'[l] = m
            BY <2>1 DEF TypeOK
        <3>2. CASE queue'[l] = m
            BY <2>8, <3>2
        <3>3. CASE l \in 1..Len(queue) /\ queue'[l] = queue[l]
            <4>1. queue[l] \in Import
                BY <3>3 DEF TypeOK
            <4>2. queue[l].id \in Ids /\ queue[l].sums[h] \in Nat
                BY <3>3, <4>1, ImportType
            <4>3. queue[l].sums[h] <= Total(queued[queue[l].id])
                BY <3>3 DEF CountedOnce
            <4> QED
                BY <2>7, <3>3, <4>2, <4>3
        <3> QED
            BY <3>1, <3>2, <3>3
    <2>10. ASSUME NEW j \in Ids, NEW h \in Hours PROVE rows'[j][h] <= Total(queued'[j])
        <3>1. rows[j][h] \in Nat
            BY DEF TypeOK, Swipes
        <3> QED
            BY <2>2, <2>7, <3>1 DEF CountedOnce, NeverOvercounts
    <2>11. ASSUME NEW o \in Tasks, NEW j \in Ids, Reads(o, j)'
           PROVE  reading'[o][1].base <= Total(queued'[j])
        <3>1. o # b /\ Reads(o, j) /\ reading'[o] = reading[o]
            BY <2>1, <2>2, <2>11, ReadsCleared
        <3>2. reading[o][1].base \in Nat
            BY <3>1, ReadsType DEF Reads
        <3>3. reading[o][1].base <= Total(queued[j])
            BY <3>1 DEF CountedOnce
        <3> QED
            BY <2>7, <3>1, <3>2, <3>3
    <2> QED
        BY <2>9, <2>10, <2>11 DEF CountedOnce, NeverOvercounts
<1>3. CASE Commit
    <2> DEFINE m == Head(queue)
    <2>1. /\ m = queue[1] /\ m \in Import /\ 1 \in 1..Len(queue)
          /\ rows'[m.id] = Merged(rows[m.id], m.sums)
          /\ \A j \in Ids : j # m.id => rows'[j] = rows[j]
          /\ \A n \in 1..Len(queue') : n + 1 \in 1..Len(queue) /\ queue'[n] = queue[n + 1]
        BY <1>3, CommitResult
    <2>2. UNCHANGED <<id, reading, queued>>
        BY <1>3 DEF Commit
    <2>3. ASSUME NEW j \in Ids, NEW h \in Hours PROVE rows'[j][h] <= Total(queued[j])
        <3>1. CASE j = m.id /\ h \in DOMAIN m.sums
            <4>1. rows'[j][h] = m.sums[h]
                BY <2>1, <3>1 DEF Merged
            <4> QED
                BY <2>1, <3>1, <4>1 DEF CountedOnce
        <3>2. CASE ~(j = m.id /\ h \in DOMAIN m.sums)
            <4>1. rows'[j][h] = rows[j][h]
                BY <2>1, <3>2 DEF Merged
            <4> QED
                BY <4>1 DEF CountedOnce, NeverOvercounts
        <3> QED
            BY <3>1, <3>2
    <2>4. \A n \in 1..Len(queue') : \A h \in DOMAIN queue'[n].sums :
              queue'[n].sums[h] <= Total(queued[queue'[n].id])
        BY <2>1 DEF CountedOnce
    <2>5. \A o \in Tasks, j \in Ids : Reads(o, j)' => reading[o][1].base <= Total(queued[j])
        BY <2>2 DEF CountedOnce, Reads
    <2> QED
        BY <2>2, <2>3, <2>4, <2>5 DEF CountedOnce, NeverOvercounts
<1>4. CASE Crash
    <2>1. /\ UNCHANGED <<id, rows, queued>> /\ Len(queue') = 0
          /\ \A b \in Tasks : reading'[b] = <<>>
        BY <1>4 DEF Crash
    <2>2. \A b \in Tasks, j \in Ids : ~Reads(b, j)'
        BY <2>1 DEF Reads
    <2> QED
        BY <2>1, <2>2 DEF CountedOnce, NeverOvercounts
<1>5. CASE UNCHANGED <<id, reading, queue, rows, queued>>
    BY <1>5 DEF CountedOnce, NeverOvercounts, Reads
<1>6. ASSUME NEW b \in Tasks, Refuse(b) PROVE CountedOnce'
    <2>1. /\ reading' = [reading EXCEPT ![b] = <<>>]
          /\ UNCHANGED <<id, queue, rows, queued>>
        BY <1>6, RefuseResult
    <2>2. \A o \in Tasks, i \in Ids :
              Reads(o, i)' => Reads(o, i) /\ reading'[o] = reading[o]
        BY <2>1, ReadsCleared
    <2> QED
        BY <2>1, <2>2 DEF CountedOnce, NeverOvercounts
<1> QED
    BY <1>1, <1>2, <1>3, <1>4, <1>5, <1>6 DEF Next, Begin, vars

\* "The cumulative sum continues from the last stored row": whatever backfills
\* overlap, reads fail, crashes lose imports or readers share a name, for any
\* number of hours and backfills, no row says more than was counted for it.
THEOREM NoRowOvercounts == Spec => []NeverOvercounts
<1>1. Init => CountedOnce
    <2>1. \A i \in Ids, h \in Hours : Zero[h] <= Total(Zero)
        BY ZeroTotal DEF Zero
    <2>2. ASSUME Init PROVE CountedOnce
        BY <2>1, <2>2 DEF Init, CountedOnce, NeverOvercounts, Reads
    <2> QED
        BY <2>2
<1>2. TypeOK /\ CountedOnce /\ [Next]_vars => CountedOnce'
    BY CountedStep
<1>3. CountedOnce => NeverOvercounts
    BY DEF CountedOnce
<1> QED
    BY <1>1, <1>2, <1>3, HistoryTypeCorrect, PTL DEF Spec

-----------------------------------------------------------------------------
(* The chart of a reader. *)

\* A statistic of its own has one slot.
LEMMA OwnSlot ==
    ASSUME NEW i \in Ids, Own(i), NEW k \in Slots, NEW l \in Slots, id[k] = i, id[l] = i
    PROVE  k = l
<1> DEFINE S == {s \in Slots : id[s] = i}
<1>1. IsFiniteSet(S)
    BY SlotsAssumption, FS_Subset
<1>2. \E x : S = {x}
    BY <1>1, FS_Singleton DEF Own
<1> QED
    BY <1>2

\* Earlier backfills are backfills, and no hour of an empty batch has a swipe.
LEMMA OrderFacts ==
    /\ \A b \in Tasks : \A o \in 1..(b - 1) : o \in Tasks /\ o # b
    /\ \A h \in Hours : ~(Zero[h] > 0) /\ h \in Nat
    /\ \A h \in Hours : h <= h
<1>1. \A h \in Hours : h \in Nat
    BY BoundsAssumption DEF Hours
<1> QED
    BY <1>1, BoundsAssumption DEF Tasks, Zero

LEMMA BatchesStep ==
    ASSUME TypeOK, BatchesInOrder, [Next]_vars
    PROVE  BatchesInOrder'
<1>1. newest \in Nat /\ \A h \in Hours : h \in Nat
    BY BoundsAssumption DEF TypeOK, Hours
<1>2. ASSUME NEW b \in Tasks, Begin(b) PROVE BatchesInOrder'
    <2>1. /\ \A o \in Tasks : o # b => batch'[o] = batch[o]
          /\ newest' \in Hours /\ newest <= newest'
          /\ \A k \in Slots, h \in Hours :
                batch'[b][k][h] > 0 => newest <= h /\ h <= newest'
        BY <1>2, BeginResult
    <2>2. /\ task[b] = "new" /\ \A o \in 1..(b - 1) : task[o] # "new"
          /\ task'[b] = "imports" /\ \A o \in Tasks : o # b => task'[o] = task[o]
          /\ UNCHANGED <<id, reading, queued, flawed>>
        BY <1>2 DEF Begin, TypeOK
    <2>3. newest' \in Nat /\ \A h \in Hours : h <= newest => h <= newest'
        BY <1>1, <2>1
    <2>4. \A x \in Tasks : \A o \in 1..(x - 1) : task'[o] = "new" => task'[x] = "new"
        BY <2>2, OrderFacts DEF BatchesInOrder
    <2>5. \A x \in Tasks, k \in Slots :
              task'[x] = "new" => batch'[x][k] = Zero
        BY <2>1, <2>2 DEF BatchesInOrder
    <2>6. \A x \in Tasks : task'[x] = "new" => reading'[x] = <<>>
        BY <2>2 DEF BatchesInOrder
    <2>7. ASSUME NEW x \in Tasks, NEW k \in Slots, NEW h \in Hours, batch'[x][k][h] > 0
          PROVE  h <= newest'
        <3>1. CASE x = b
            BY <2>1, <2>7, <3>1
        <3>2. CASE x # b
            <4>1. h <= newest
                BY <2>1, <2>7, <3>2 DEF BatchesInOrder
            <4> QED
                BY <2>3, <4>1
        <3> QED
            BY <3>1, <3>2
    <2>8. ASSUME NEW x \in Tasks, NEW o \in 1..(x - 1), NEW k \in Slots, NEW l \in Slots,
                 NEW h \in Hours, NEW g \in Hours, batch'[o][k][h] > 0, batch'[x][l][g] > 0
          PROVE  h <= g
        <3>1. o \in Tasks /\ o # x
            BY OrderFacts
        <3>2. CASE x = b
            <4>1. h <= newest /\ newest <= g
                BY <2>1, <2>8, <3>1, <3>2 DEF BatchesInOrder
            <4> QED
                BY <1>1, <4>1
        <3>3. CASE o = b
            <4>1. batch'[x][l] = Zero
                BY <2>1, <2>2, <3>1, <3>3 DEF BatchesInOrder
            <4> QED
                BY <2>8, <4>1, OrderFacts
        <3>4. CASE x # b /\ o # b
            <4>1. batch'[o] = batch[o] /\ batch'[x] = batch[x]
                BY <2>1, <3>1, <3>4
            <4> QED
                BY <2>8, <4>1 DEF BatchesInOrder
        <3> QED
            BY <3>2, <3>3, <3>4
    <2>9. ASSUME NEW i \in Ids, NEW h \in Hours, i \notin flawed', queued'[i][h] > 0
          PROVE  h <= newest'
        <3>1. h <= newest
            BY <2>2, <2>9 DEF BatchesInOrder
        <3> QED
            BY <2>3, <3>1
    <2> QED
        BY <2>4, <2>5, <2>6, <2>7, <2>8, <2>9 DEF BatchesInOrder
<1>3. ASSUME NEW b \in Tasks, Read(b) PROVE BatchesInOrder'
    <2>1. /\ flawed \subseteq flawed'
          /\ \A o \in Tasks : o # b => reading'[o] = reading[o]
        <3>1. PICK k \in Todo(b), answered \in BOOLEAN :
                  LET n == IF answered THEN Base(id[k]) ELSE 0
                  IN  /\ reading' = [reading EXCEPT ![b] = <<[slot |-> k, base |-> n]>>]
                      /\ flawed \subseteq flawed'
            BY <1>3, ReadResult
        <3> QED
            BY <3>1 DEF TypeOK
    <2>2. task[b] = "imports" /\ UNCHANGED <<id, task, batch, newest, queued>>
        BY <1>3 DEF Read
    <2>3. \A x \in Tasks : task'[x] = "new" => reading'[x] = <<>>
        BY <2>1, <2>2 DEF BatchesInOrder
    <2> QED
        BY <2>1, <2>2, <2>3 DEF BatchesInOrder
<1>4. ASSUME NEW b \in Tasks, Queue(b) PROVE BatchesInOrder'
    <2> DEFINE k == reading[b][1].slot
               i == id[k]
    <2>1. /\ k \in Slots /\ i \in Ids /\ batch[b][k] \in Swipes /\ queued[i] \in Swipes
          /\ queued'[i] = Plus(queued[i], batch[b][k])
          /\ \A j \in Ids : j # i => queued'[j] = queued[j]
          /\ batch'[b][k] = Zero
          /\ \A o \in Tasks, l \in Slots : <<o, l>> # <<b, k>> => batch'[o][l] = batch[o][l]
          /\ reading' = [reading EXCEPT ![b] = <<>>]
          /\ task'[b] = "done" \/ task'[b] = task[b]
          /\ \A o \in Tasks : o # b => task'[o] = task[o]
        BY <1>4, QueueResult
    <2>2. reading[b] # <<>> /\ UNCHANGED <<id, newest, flawed>>
        BY <1>4 DEF Queue
    <2>3. task[b] # "new" /\ task'[b] # "new"
        BY <2>1, <2>2 DEF BatchesInOrder
    <2>4. \A x \in Tasks : \A o \in 1..(x - 1) : task'[o] = "new" => task'[x] = "new"
        BY <2>1, <2>3, OrderFacts DEF BatchesInOrder
    <2>5. \A x \in Tasks, l \in Slots : task'[x] = "new" => batch'[x][l] = Zero
        BY <2>1, <2>3 DEF BatchesInOrder
    <2>6. \A x \in Tasks : task'[x] = "new" => reading'[x] = <<>>
        BY <2>1, <2>3 DEF BatchesInOrder, TypeOK
    <2>7. \A x \in Tasks, l \in Slots, h \in Hours :
              batch'[x][l][h] > 0 => batch[x][l][h] > 0
        BY <2>1, OrderFacts
    <2>8. ASSUME NEW j \in Ids, NEW h \in Hours, j \notin flawed, queued'[j][h] > 0
          PROVE  h <= newest
        <3>1. CASE j # i
            BY <2>1, <2>8, <3>1 DEF BatchesInOrder
        <3>2. CASE j = i
            <4>1. queued[i][h] \in Nat /\ batch[b][k][h] \in Nat
                BY <2>1, SwipesType
            <4>2. queued'[i][h] = queued[i][h] + batch[b][k][h]
                BY <2>1 DEF Plus
            <4>3. queued[i][h] > 0 \/ batch[b][k][h] > 0
                BY <2>8, <3>2, <4>1, <4>2
            <4> QED
                BY <2>1, <2>8, <3>2, <4>3 DEF BatchesInOrder
        <3> QED
            BY <3>1, <3>2
    <2>9. \A x \in Tasks : \A o \in 1..(x - 1) : \A s, l \in Slots : \A h, g \in Hours :
              batch'[o][s][h] > 0 /\ batch'[x][l][g] > 0 => h <= g
        BY <2>7, OrderFacts DEF BatchesInOrder
    <2>10. \A x \in Tasks, l \in Slots, h \in Hours : batch'[x][l][h] > 0 => h <= newest
        BY <2>7 DEF BatchesInOrder
    <2> QED
        BY <2>2, <2>4, <2>5, <2>6, <2>8, <2>9, <2>10 DEF BatchesInOrder
<1>5. CASE Crash
    <2>1. /\ \A b \in Tasks, k \in Slots : batch'[b][k] = Zero
          /\ \A b \in Tasks : reading'[b] = <<>>
          /\ \A b \in Tasks : task'[b] = "new" <=> task[b] = "new"
          /\ queued' = queued
        BY <1>5 DEF Crash
    <2>2. \/ flawed' = Ids
          \/ newest' = newest /\ flawed \subseteq flawed'
        BY <1>1, <1>5 DEF Crash
    <2>3. \A x \in Tasks : \A o \in 1..(x - 1) : task'[o] = "new" => task'[x] = "new"
        BY <2>1, OrderFacts DEF BatchesInOrder
    <2>4. \A b \in Tasks, k \in Slots, h \in Hours : ~(batch'[b][k][h] > 0)
        BY <2>1, OrderFacts
    <2>5. \A j \in Ids, h \in Hours : j \notin flawed' /\ queued'[j][h] > 0 => h <= newest'
        BY <2>1, <2>2 DEF BatchesInOrder
    <2> QED
        BY <2>1, <2>3, <2>4, <2>5, OrderFacts DEF BatchesInOrder
<1>6. ASSUME NEW b \in Tasks, Refuse(b) PROVE BatchesInOrder'
    <2>1. /\ \A k \in Slots : batch'[b][k] = Zero
          /\ \A o \in Tasks : o # b => batch'[o] = batch[o]
          /\ \A o \in Tasks, k \in Slots, h \in Hours :
                batch'[o][k][h] > 0 => batch[o][k][h] > 0
          /\ task'[b] = "done" /\ \A o \in Tasks : o # b => task'[o] = task[o]
          /\ reading[b] # <<>> /\ reading' = [reading EXCEPT ![b] = <<>>]
          /\ UNCHANGED <<id, newest, queued, flawed>>
        BY <1>6, RefuseResult
    <2>2. task[b] # "new" /\ task'[b] # "new"
        BY <2>1 DEF BatchesInOrder
    <2>3. \A x \in Tasks : \A o \in 1..(x - 1) : task'[o] = "new" => task'[x] = "new"
        BY <2>1, <2>2, OrderFacts DEF BatchesInOrder
    <2>4. \A x \in Tasks, k \in Slots : task'[x] = "new" => batch'[x][k] = Zero
        BY <2>1, <2>2 DEF BatchesInOrder
    <2>5. \A x \in Tasks : task'[x] = "new" => reading'[x] = <<>>
        BY <2>1, <2>2 DEF BatchesInOrder, TypeOK
    <2>6. \A x \in Tasks : \A o \in 1..(x - 1) : \A s, l \in Slots : \A h, g \in Hours :
              batch'[o][s][h] > 0 /\ batch'[x][l][g] > 0 => h <= g
        BY <2>1, OrderFacts DEF BatchesInOrder
    <2>7. \A x \in Tasks, l \in Slots, h \in Hours : batch'[x][l][h] > 0 => h <= newest
        BY <2>1 DEF BatchesInOrder
    <2> QED
        BY <2>1, <2>3, <2>4, <2>5, <2>6, <2>7 DEF BatchesInOrder
<1>7. CASE UNCHANGED <<id, task, batch, reading, newest, queued, flawed>>
    BY <1>7 DEF BatchesInOrder
<1> QED
    BY <1>2, <1>3, <1>4, <1>5, <1>6, <1>7 DEF Next, Commit, vars

\* No step makes a statistic sound that was not.
LEMMA SoundKept ==
    ASSUME TypeOK, [Next]_vars
    PROVE  /\ UNCHANGED id
           /\ \A i \in Ids : Sound(i)' => Sound(i)
<1>1. UNCHANGED id
    BY DEF Next, vars, Begin, Read, Queue, Refuse, Commit, Crash
<1>2. \A i \in Ids : Own(i)' => Own(i)
    BY <1>1 DEF Own
<1>3. \A i \in Ids : i \notin flawed' => i \notin flawed
    <2>1. ASSUME NEW b \in Tasks, Read(b) PROVE flawed \subseteq flawed'
        BY <2>1 DEF Read
    <2>2. CASE Crash
        BY <2>2 DEF Crash
    <2>3. CASE UNCHANGED flawed
        BY <2>3
    <2> QED
        BY <2>1, <2>2, <2>3 DEF Next, vars, Begin, Queue, Refuse, Commit
<1> QED
    BY <1>1, <1>2, <1>3 DEF Sound

LEMMA ImportsStep ==
    ASSUME TypeOK, ChartInv, [Next]_vars
    PROVE  ImportsInOrder'
<1> SUFFICES ASSUME NEW i \in Ids, Sound(i), i \notin flawed',
                    NEW x \in Tasks, NEW l \in Slots, id[l] = i,
                    NEW h \in Hours, NEW g \in Hours,
                    queued'[i][h] > 0, batch'[x][l][g] > 0
             PROVE  h <= g
    BY SoundKept DEF ImportsInOrder, Sound
<1>1. newest \in Nat /\ h \in Nat /\ g \in Nat
    BY BoundsAssumption DEF TypeOK, Hours
<1>2. CASE queued' = queued /\ batch' = batch
    BY <1>2 DEF ChartInv, ImportsInOrder
<1>3. ASSUME NEW b \in Tasks, Begin(b) PROVE h <= g
    <2>1. queued' = queued
        BY <1>3 DEF Begin
    <2>2. CASE x = b
        <3>1. newest <= g
            BY <1>3, <2>2, BeginResult
        <3>2. h <= newest
            BY <2>1 DEF ChartInv, BatchesInOrder, Sound
        <3> QED
            BY <1>1, <3>1, <3>2
    <2>3. CASE x # b
        <3>1. batch'[x] = batch[x]
            BY <1>3, <2>3, BeginResult
        <3> QED
            BY <2>1, <3>1 DEF ChartInv, ImportsInOrder
    <2> QED
        BY <2>2, <2>3
<1>4. ASSUME NEW b \in Tasks, Queue(b) PROVE h <= g
    <2> DEFINE k == reading[b][1].slot
    <2>1. /\ k \in Slots /\ id[k] \in Ids
          /\ batch[b][k] \in Swipes /\ queued[id[k]] \in Swipes
          /\ queued'[id[k]] = Plus(queued[id[k]], batch[b][k])
          /\ \A j \in Ids : j # id[k] => queued'[j] = queued[j]
          /\ batch'[b][k] = Zero
          /\ \A o \in Tasks, s \in Slots : <<o, s>> # <<b, k>> => batch'[o][s] = batch[o][s]
        BY <1>4, QueueResult
    <2>2. ~(x = b /\ l = k) /\ batch[x][l][g] > 0
        BY <2>1, OrderFacts
    <2>3. reading[b] # <<>>
        BY <1>4 DEF Queue
    <2> HIDE DEF k
    <2>4. CASE id[k] # i
        BY <2>1, <2>2, <2>4 DEF ChartInv, ImportsInOrder
    <2>5. CASE id[k] = i
        <3>1. l = k /\ x # b
            BY <2>1, <2>2, <2>5, OwnSlot DEF Sound
        <3>2. queued'[i][h] = queued[i][h] + batch[b][k][h]
              /\ queued[i][h] \in Nat /\ batch[b][k][h] \in Nat
            BY <2>1, <2>5, SwipesType DEF Plus
        <3>3. CASE queued[i][h] > 0
            BY <2>2, <3>3 DEF ChartInv, ImportsInOrder
        <3>4. CASE batch[b][k][h] > 0
            <4>1. x \in 1..(b - 1) \/ b \in 1..(x - 1)
                BY <3>1, BoundsAssumption DEF Tasks
            <4>2. CASE b \in 1..(x - 1)
                BY <2>1, <2>2, <3>4, <4>2 DEF ChartInv, BatchesInOrder
            <4>3. CASE x \in 1..(b - 1)
                <5>1. Reads(b, i)
                    BY <2>3, <2>5 DEF Reads, k
                <5>2. ~Overtakes(b, i)
                    BY <5>1 DEF ChartInv, OneUnderWay, OneImport
                <5>3. l \in Todo(x)
                    BY <2>2, OrderFacts DEF Todo
                <5> QED
                    BY <4>3, <5>2, <5>3 DEF Overtakes
            <4> QED
                BY <4>1, <4>2, <4>3
        <3>5. queued[i][h] > 0 \/ batch[b][k][h] > 0
            BY <3>2
        <3> QED
            BY <3>3, <3>4, <3>5
    <2> QED
        BY <2>4, <2>5
<1>5. CASE Crash
    <2>1. batch'[x][l] = Zero
        BY <1>5 DEF Crash
    <2> QED
        BY <2>1, OrderFacts
<1>6. ASSUME NEW b \in Tasks, Refuse(b) PROVE h <= g
    <2>1. batch[x][l][g] > 0 /\ queued' = queued
        BY <1>6, RefuseResult
    <2> QED
        BY <2>1 DEF ChartInv, ImportsInOrder
<1> QED
    BY <1>2, <1>3, <1>4, <1>5, <1>6 DEF Next, Read, Commit, vars

\* An import of the statistic is under way when it is queued or read.
LEMMA InFlightMeans ==
    ASSUME NEW i
    PROVE  InFlight(i) <=> \/ \E n \in 1..Len(queue) : queue[n].id = i
                           \/ \E b \in Tasks : Reads(b, i)
BY DEF InFlight, Reads

\* A step that leaves what concerns the statistic as it was, and gives no earlier
\* backfill more of it to import, keeps OneImport.
LEMMA SameImport ==
    ASSUME NEW i \in Ids, OneImport(i), UNCHANGED <<queue, rows>>,
           queued'[i] = queued[i],
           \A b \in Tasks : (Reads(b, i)' <=> Reads(b, i))
              /\ (Reads(b, i) => reading'[b] = reading[b] /\ ~Overtakes(b, i)')
    PROVE  OneImport(i)'
<1>1. \A b \in Tasks : Reads(b, i)' => Reads(b, i) /\ reading'[b] = reading[b] /\ ~Overtakes(b, i)'
    OBVIOUS
<1>2. InFlight(i)' <=> InFlight(i)
    BY InFlightMeans DEF InFlight, Reads
<1> QED
    BY <1>1, <1>2 DEF OneImport

\* While no backfill gets more to import of the statistic, none is overtaken that
\* was not.
LEMMA OvertakesKept ==
    ASSUME NEW b \in Tasks, NEW i \in Ids, UNCHANGED id, ~Overtakes(b, i),
           \A o \in 1..(b - 1) : \A k \in Slots :
              batch'[o][k] # Zero => batch[o][k] # Zero
    PROVE  ~Overtakes(b, i)'
BY DEF Overtakes, Todo

LEMMA UnderWayBegin ==
    ASSUME TypeOK, ChartInv, NEW b \in Tasks, Begin(b),
           NEW i \in Ids, Sound(i)
    PROVE  OneImport(i)'
<1>1. OneImport(i)
    BY DEF ChartInv, OneUnderWay
<1>2. UNCHANGED <<id, reading, queue, rows, queued>> /\ task[b] = "new"
    BY DEF Begin
<1>3. \A x \in Tasks : Reads(x, i)' <=> Reads(x, i)
    BY <1>2 DEF Reads
<1>4. ASSUME NEW x \in Tasks, Reads(x, i) PROVE ~Overtakes(x, i)'
    <2>1. task[x] # "new"
        BY <1>4 DEF ChartInv, BatchesInOrder, Reads
    <2>2. \A o \in 1..(x - 1) : o # b /\ o \in Tasks
        BY <1>2, <2>1, OrderFacts DEF ChartInv, BatchesInOrder
    <2>3. \A o \in 1..(x - 1) : batch'[o] = batch[o]
        BY <2>2, BeginResult
    <2>4. ~Overtakes(x, i)
        BY <1>1, <1>4 DEF OneImport
    <2> QED
        BY <1>2, <2>3, <2>4, OvertakesKept
<1> QED
    BY <1>1, <1>2, <1>3, <1>4, SameImport

LEMMA UnderWayRead ==
    ASSUME TypeOK, ChartInv, NEW b \in Tasks, Read(b),
           NEW i \in Ids, Sound(i), i \notin flawed'
    PROVE  OneImport(i)'
<1>1. OneImport(i)
    BY DEF ChartInv, OneUnderWay
<1>2. UNCHANGED <<id, batch, queue, rows, queued>> /\ reading[b] = <<>>
    BY DEF Read
<1>3. PICK k \in Todo(b), answered \in BOOLEAN :
          LET n == IF answered THEN Base(id[k]) ELSE 0
          IN  /\ k \in Slots /\ id[k] \in Ids /\ n \in Nat
              /\ reading' = [reading EXCEPT ![b] = <<[slot |-> k, base |-> n]>>]
              /\ id[k] \notin flawed' =>
                    answered /\ ~InFlight(id[k]) /\ ~Overtakes(b, id[k])
    BY ReadResult
<1> DEFINE n == IF answered THEN Base(id[k]) ELSE 0
           r == [slot |-> k, base |-> n]
<1>4. r \in Pending /\ reading' = [reading EXCEPT ![b] = <<r>>]
    BY <1>3 DEF Pending
<1>5. r.slot = k /\ r.base = n
    OBVIOUS
<1> HIDE DEF r
<1>6. /\ reading'[b][1] = r
      /\ Reads(b, i)' <=> id[k] = i
      /\ \A o \in Tasks : o # b =>
            reading'[o] = reading[o] /\ (Reads(o, i)' <=> Reads(o, i))
    <2>1. /\ reading'[b] = <<r>> /\ reading'[b][1] = r
          /\ \A j \in Ids : Reads(b, j)' <=> id[r.slot] = j
          /\ \A o \in Tasks, j \in Ids : o # b =>
                reading'[o] = reading[o] /\ (Reads(o, j)' <=> Reads(o, j))
        BY <1>2, <1>4, ReadsAfterRead
    <2> QED
        BY <1>5, <2>1
<1>7. \A x \in Tasks : Overtakes(x, i)' <=> Overtakes(x, i)
    BY <1>2 DEF Overtakes, Todo
<1>8. CASE id[k] # i
    <2>1. ~Reads(b, i) /\ ~Reads(b, i)'
        BY <1>2, <1>6, <1>8 DEF Reads
    <2>2. \A x \in Tasks : /\ Reads(x, i)' <=> Reads(x, i)
                           /\ Reads(x, i) => reading'[x] = reading[x] /\ ~Overtakes(x, i)'
        BY <1>1, <1>6, <1>7, <2>1 DEF OneImport
    <2> QED
        BY <1>1, <1>2, <2>2, SameImport
<1>9. CASE id[k] = i
    <2>1. answered /\ ~InFlight(i) /\ ~Overtakes(b, i)
        BY <1>3, <1>9
    <2>2. rows[i] = Chart(queued[i])
        BY <1>1, <2>1 DEF OneImport
    <2>3. queued[i] \in Swipes
        BY DEF TypeOK
    <2>4. n = Total(queued[i])
        BY <1>9, <2>1, <2>2, <2>3, LastOfChart
    <2>5. /\ \A m \in 1..Len(queue) : queue[m].id # i
          /\ \A o \in Tasks : ~Reads(o, i)
        BY <2>1, InFlightMeans
    <2>6. \A o \in Tasks : Reads(o, i)' => o = b
        BY <1>6, <2>5
    <2> HIDE DEF n
    <2>7. ~Overtakes(b, i)'
        BY <1>7, <2>1
    <2>8. /\ rows'[i] = Chart(queued'[i]) /\ reading'[b][1].base = Total(queued'[i])
          /\ \A m \in 1..Len(queue') : queue'[m].id # i
        BY <1>2, <1>5, <1>6, <2>2, <2>4, <2>5
    <2>9. \A x \in Tasks : Reads(x, i)' =>
              /\ x = b /\ reading'[x][1].base = Total(queued'[i]) /\ ~Overtakes(x, i)'
        BY <2>6, <2>7, <2>8
    <2> QED
        BY <2>6, <2>8, <2>9 DEF OneImport
<1> QED
    BY <1>8, <1>9

LEMMA UnderWayQueue ==
    ASSUME TypeOK, ChartInv, NEW b \in Tasks, Queue(b),
           NEW i \in Ids, Sound(i)
    PROVE  OneImport(i)'
<1>1. OneImport(i)
    BY DEF ChartInv, OneUnderWay
<1> DEFINE k == reading[b][1].slot
           n == reading[b][1].base
           f == batch[b][k]
           m == [id |-> id[k], sums |-> Sums(n, f)]
<1>2. /\ k \in Slots /\ id[k] \in Ids /\ n \in Nat /\ f \in Swipes
      /\ queued[id[k]] \in Swipes
      /\ m \in Import /\ queue' = Append(queue, m)
      /\ queued'[id[k]] = Plus(queued[id[k]], f)
      /\ \A j \in Ids : j # id[k] => queued'[j] = queued[j]
      /\ batch'[b][k] = Zero
      /\ \A o \in Tasks, l \in Slots : <<o, l>> # <<b, k>> => batch'[o][l] = batch[o][l]
      /\ reading' = [reading EXCEPT ![b] = <<>>]
    BY QueueResult
<1>3. UNCHANGED <<id, rows>> /\ reading[b] # <<>>
    BY DEF Queue
<1>4. Reads(b, id[k]) /\ \A j \in Ids : Reads(b, j) => j = id[k]
    BY <1>3 DEF Reads
<1>5. m.id = id[k] /\ m.sums = Sums(n, f)
    OBVIOUS
<1>6. /\ queue \in Seq(Import) /\ Len(queue) \in Nat
      /\ Len(queue') = Len(queue) + 1 /\ queue'[Len(queue) + 1] = m
      /\ \A l \in 1..Len(queue) : queue'[l] = queue[l] /\ l \in 1..Len(queue')
      /\ \A l \in 1..Len(queue') : l \in 1..Len(queue) \/ l = Len(queue) + 1
    <2> HIDE DEF m
    <2> QED
        BY <1>2 DEF TypeOK
<1>7. \A j \in Ids : ~Reads(b, j)'
    BY <1>2, <1>3, ReadsCleared
<1>8. \A o \in Tasks, j \in Ids : o # b =>
          reading'[o] = reading[o] /\ (Reads(o, j)' <=> Reads(o, j))
    BY <1>2, <1>3, ReadsCleared
<1> HIDE DEF m, f, n, k
<1>9. ASSUME NEW x \in Tasks, ~Overtakes(x, i) PROVE ~Overtakes(x, i)'
    <2>1. \A o \in 1..(x - 1) : \A l \in Slots :
              batch'[o][l] # Zero => batch[o][l] # Zero
        BY <1>2, OrderFacts
    <2> QED
        BY <1>3, <1>9, <2>1, OvertakesKept
<1>10. CASE id[k] # i
    <2>1. ~Reads(b, i) /\ queued'[i] = queued[i]
        BY <1>2, <1>4, <1>10
    <2>2. \A x \in Tasks : Reads(x, i)' =>
              Reads(x, i) /\ reading'[x] = reading[x]
        BY <1>7, <1>8
    <2>3. \A x \in Tasks : Reads(x, i) => Reads(x, i)'
        BY <1>8, <2>1
    <2>4. \A l \in 1..Len(queue') : queue'[l].id = i =>
              l \in 1..Len(queue) /\ queue'[l] = queue[l]
        BY <1>5, <1>6, <1>10
    <2>5. InFlight(i) => InFlight(i)'
        <3>1. CASE \E l \in 1..Len(queue) : queue[l].id = i
            <4>1. \E l \in 1..Len(queue') : queue'[l].id = i
                BY <1>6, <3>1
            <4> QED
                BY <4>1 DEF InFlight
        <3>2. CASE \E x \in Tasks : Reads(x, i)
            <4>1. \E x \in Tasks : Reads(x, i)'
                BY <2>3, <3>2
            <4> QED
                BY <4>1 DEF InFlight, Reads
        <3> QED
            BY <3>1, <3>2, InFlightMeans
    <2>6. ASSUME NEW x \in Tasks, Reads(x, i)'
          PROVE  /\ rows'[i] = Chart(queued'[i])
                 /\ reading'[x][1].base = Total(queued'[i])
                 /\ ~Overtakes(x, i)'
                 /\ \A l \in 1..Len(queue') : queue'[l].id # i
                 /\ \A o \in Tasks : Reads(o, i)' => o = x
        <3>1. Reads(x, i) /\ reading'[x] = reading[x]
            BY <2>2, <2>6
        <3>2. \A l \in 1..Len(queue) : queue[l].id # i
            BY <1>1, <3>1 DEF OneImport
        <3>3. \A l \in 1..Len(queue') : queue'[l].id # i
            BY <2>4, <3>2
        <3>4. ~Overtakes(x, i)'
            BY <1>1, <1>9, <3>1 DEF OneImport
        <3> QED
            BY <1>1, <1>3, <2>1, <2>2, <3>1, <3>3, <3>4 DEF OneImport
    <2>7. \A l \in 1..Len(queue') : queue'[l].id = i =>
              /\ Merged(rows'[i], queue'[l].sums) = Chart(queued'[i])
              /\ \A j \in 1..Len(queue') : queue'[j].id = i => j = l
        BY <1>1, <1>3, <2>1, <2>4 DEF OneImport
    <2>8. ~InFlight(i)' => rows'[i] = Chart(queued'[i])
        BY <1>1, <1>3, <2>1, <2>5 DEF OneImport
    <2> QED
        BY <2>6, <2>7, <2>8 DEF OneImport
<1>11. CASE id[k] = i
    <2>1. /\ Reads(b, i) /\ rows[i] = Chart(queued[i]) /\ n = Total(queued[i])
          /\ \A l \in 1..Len(queue) : queue[l].id # i
          /\ \A o \in Tasks : Reads(o, i) => o = b
        BY <1>1, <1>4, <1>11 DEF OneImport, n
    <2>2. \A o \in Tasks : ~Reads(o, i)'
        BY <1>7, <1>8, <2>1
    <2>3. \A h, g \in Hours : queued[i][h] > 0 /\ f[g] > 0 => h <= g
        BY <1>2, <1>11 DEF ChartInv, ImportsInOrder, f
    <2>4. Merged(rows'[i], m.sums) = Chart(queued'[i])
        <3>1. Merged(Chart(queued[i]), Sums(Total(queued[i]), f)) = Chart(Plus(queued[i], f))
            BY <1>2, <1>11, <2>3, ChartContinues
        <3> QED
            BY <1>2, <1>3, <1>5, <1>11, <2>1, <3>1
    <2>5. \A l \in 1..Len(queue') : queue'[l].id = i => l = Len(queue) + 1
        BY <1>6, <2>1
    <2>6. queue'[Len(queue) + 1].id = i /\ Len(queue) + 1 \in 1..Len(queue')
        BY <1>5, <1>6, <1>11
    <2>7. InFlight(i)'
        BY <2>6 DEF InFlight
    <2>8. \A l \in 1..Len(queue') : queue'[l].id = i =>
              /\ Merged(rows'[i], queue'[l].sums) = Chart(queued'[i])
              /\ \A j \in 1..Len(queue') : queue'[j].id = i => j = l
        BY <1>6, <2>4, <2>5
    <2> QED
        BY <2>2, <2>7, <2>8 DEF OneImport
<1> QED
    BY <1>10, <1>11

LEMMA UnderWayRefuse ==
    ASSUME TypeOK, ChartInv, NEW b \in Tasks, Refuse(b),
           NEW i \in Ids, Sound(i)
    PROVE  OneImport(i)'
<1>1. OneImport(i)
    BY DEF ChartInv, OneUnderWay
<1>2. /\ \A k \in Slots : batch'[b][k] = Zero
      /\ \A o \in Tasks : o # b => batch'[o] = batch[o]
      /\ reading' = [reading EXCEPT ![b] = <<>>]
      /\ UNCHANGED <<id, queue, rows, queued>>
    BY RefuseResult
<1>3. ~Reads(b, i)' /\ \A o \in Tasks : o # b =>
          reading'[o] = reading[o] /\ (Reads(o, i)' <=> Reads(o, i))
    BY <1>2, ReadsCleared
<1>4. ASSUME NEW x \in Tasks, ~Overtakes(x, i) PROVE ~Overtakes(x, i)'
    <2>1. \A o \in 1..(x - 1) : \A l \in Slots :
              batch'[o][l] # Zero => batch[o][l] # Zero
        BY <1>2, OrderFacts
    <2> QED
        BY <1>2, <1>4, <2>1, OvertakesKept
<1>5. CASE Reads(b, i)
    <2>1. /\ rows[i] = Chart(queued[i])
          /\ \A n \in 1..Len(queue) : queue[n].id # i
          /\ \A o \in Tasks : Reads(o, i) => o = b
        BY <1>1, <1>5 DEF OneImport
    <2>2. \A o \in Tasks : ~Reads(o, i)'
        BY <1>3, <2>1
    <2> QED
        BY <1>2, <2>1, <2>2 DEF OneImport
<1>6. CASE ~Reads(b, i)
    <2>1. \A x \in Tasks : /\ Reads(x, i)' <=> Reads(x, i)
                           /\ Reads(x, i) => reading'[x] = reading[x] /\ ~Overtakes(x, i)'
        BY <1>1, <1>3, <1>4, <1>6 DEF OneImport
    <2> QED
        BY <1>1, <1>2, <2>1, SameImport
<1> QED
    BY <1>5, <1>6

LEMMA UnderWayCommit ==
    ASSUME TypeOK, ChartInv, Commit,
           NEW i \in Ids, Sound(i)
    PROVE  OneImport(i)'
<1>1. OneImport(i)
    BY DEF ChartInv, OneUnderWay
<1> DEFINE m == Head(queue)
<1>2. /\ m = queue[1] /\ m \in Import /\ Len(queue) \in Nat /\ 1 \in 1..Len(queue)
      /\ rows'[m.id] = Merged(rows[m.id], m.sums)
      /\ \A j \in Ids : j # m.id => rows'[j] = rows[j]
      /\ Len(queue') = Len(queue) - 1
      /\ \A n \in 1..Len(queue') : n + 1 \in 1..Len(queue) /\ queue'[n] = queue[n + 1]
    BY CommitResult
<1> HIDE DEF m
<1>3. UNCHANGED <<id, batch, reading, queued>>
    BY DEF Commit
<1>4. \A x \in Tasks : (Reads(x, i)' <=> Reads(x, i)) /\ (Overtakes(x, i)' <=> Overtakes(x, i))
    BY <1>3 DEF Reads, Overtakes, Todo
<1>5. CASE m.id = i
    <2>1. /\ Merged(rows[i], m.sums) = Chart(queued[i])
          /\ \A n \in 1..Len(queue) : queue[n].id = i => n = 1
        BY <1>1, <1>2, <1>5 DEF OneImport
    <2>2. rows'[i] = Chart(queued'[i])
        BY <1>2, <1>3, <1>5, <2>1
    <2>3. \A x \in Tasks : ~Reads(x, i)'
        BY <1>1, <1>2, <1>4, <1>5 DEF OneImport
    <2>4. \A n \in 1..Len(queue') : queue'[n].id # i
        <3> SUFFICES ASSUME NEW n \in 1..Len(queue'), queue'[n].id = i PROVE FALSE
            OBVIOUS
        <3>1. n + 1 = 1 /\ n \in Nat /\ n >= 1
            BY <1>2, <2>1
        <3> QED
            BY <3>1
    <2> QED
        BY <2>2, <2>3, <2>4 DEF OneImport
<1>6. CASE m.id # i
    <2>1. rows'[i] = rows[i] /\ queued'[i] = queued[i]
        BY <1>2, <1>3, <1>6
    <2>2. InFlight(i) => InFlight(i)'
        <3>1. CASE \E n \in 1..Len(queue) : queue[n].id = i
            <4>1. PICK n \in 1..Len(queue) : queue[n].id = i
                BY <3>1
            <4>2. n # 1
                BY <1>2, <1>6, <4>1
            <4>3. n - 1 \in 1..Len(queue') /\ (n - 1) + 1 = n
                BY <1>2, <4>2
            <4>4. queue'[n - 1].id = i
                BY <1>2, <4>1, <4>3
            <4> QED
                BY <4>3, <4>4 DEF InFlight
        <3>2. CASE \E x \in Tasks : Reads(x, i)
            <4>1. \E x \in Tasks : Reads(x, i)'
                BY <1>4, <3>2
            <4> QED
                BY <4>1 DEF InFlight, Reads
        <3> QED
            BY <3>1, <3>2, InFlightMeans
    <2>3. ASSUME NEW n \in 1..Len(queue'), queue'[n].id = i
          PROVE  /\ Merged(rows'[i], queue'[n].sums) = Chart(queued'[i])
                 /\ \A l \in 1..Len(queue') : queue'[l].id = i => l = n
        <3>1. n + 1 \in 1..Len(queue) /\ queue[n + 1].id = i /\ queue'[n] = queue[n + 1]
            BY <1>2, <2>3
        <3>2. \A l \in 1..Len(queue') : queue'[l].id = i => l + 1 = n + 1
            BY <1>1, <1>2, <3>1 DEF OneImport
        <3>3. Merged(rows'[i], queue'[n].sums) = Chart(queued'[i])
            BY <1>1, <2>1, <3>1 DEF OneImport
        <3> QED
            BY <3>2, <3>3
    <2>4. ASSUME NEW x \in Tasks, Reads(x, i)'
          PROVE  /\ rows'[i] = Chart(queued'[i])
                 /\ reading'[x][1].base = Total(queued'[i])
                 /\ ~Overtakes(x, i)'
                 /\ \A n \in 1..Len(queue') : queue'[n].id # i
                 /\ \A o \in Tasks : Reads(o, i)' => o = x
        <3>1. Reads(x, i) /\ reading' = reading
            BY <1>3, <1>4, <2>4
        <3>2. \A n \in 1..Len(queue') : queue'[n].id # i
            BY <1>1, <1>2, <3>1 DEF OneImport
        <3> QED
            BY <1>1, <1>4, <2>1, <3>1, <3>2 DEF OneImport
    <2>5. ~InFlight(i)' => rows'[i] = Chart(queued'[i])
        BY <1>1, <2>1, <2>2 DEF OneImport
    <2> QED
        BY <2>3, <2>4, <2>5 DEF OneImport
<1> QED
    BY <1>5, <1>6

LEMMA UnderWayCrash ==
    ASSUME TypeOK, ChartInv, Crash,
           NEW i \in Ids, Sound(i), i \notin flawed'
    PROVE  OneImport(i)'
<1>1. OneImport(i)
    BY DEF ChartInv, OneUnderWay
<1>2. /\ UNCHANGED <<id, rows, queued>> /\ Len(queue') = 0
      /\ \A b \in Tasks : reading'[b] = <<>>
      /\ \A n \in 1..Len(queue) : queue[n].id # i
    BY DEF Crash
<1>3. rows[i] = Chart(queued[i])
    BY <1>1, <1>2, InFlightMeans DEF OneImport
<1>4. \A b \in Tasks : ~Reads(b, i)'
    BY <1>2 DEF Reads
<1>5. ~InFlight(i)'
    BY <1>2, <1>4 DEF InFlight, Reads
<1> QED
    BY <1>2, <1>3, <1>4 DEF OneImport

LEMMA UnderWayStep ==
    ASSUME TypeOK, ChartInv, [Next]_vars
    PROVE  OneUnderWay'
<1> SUFFICES ASSUME NEW i \in Ids, Sound(i), i \notin flawed'
             PROVE  OneImport(i)'
    BY SoundKept DEF OneUnderWay, Sound
<1>1. CASE UNCHANGED vars
    <2>1. OneImport(i)
        BY DEF ChartInv, OneUnderWay
    <2>2. \A x \in Tasks : (Reads(x, i)' <=> Reads(x, i)) /\ (Overtakes(x, i)' <=> Overtakes(x, i))
        BY <1>1 DEF vars, Reads, Overtakes, Todo
    <2> QED
        BY <1>1, <2>1, <2>2, SameImport DEF vars, OneImport
<1> QED
    BY <1>1, UnderWayBegin, UnderWayRead, UnderWayQueue, UnderWayRefuse,
       UnderWayCommit, UnderWayCrash
       DEF Next

\* "This keeps the chart correct even across the boundary hour": for any number of
\* readers, hours and backfills, when nothing of a reader's statistic is under way
\* every row is the number of its swipes up to that hour, the boundary hour's
\* included, unless a read failed or came too early, or a crash lost an import or a
\* mark, or another reader has the same name.
THEOREM ChartIsCorrect == Spec => []ChartCorrect
<1>1. Init => ChartInv
    <2> SUFFICES ASSUME Init PROVE ChartInv
        OBVIOUS
    <2>1. Chart(Zero) = Zero
        BY DEF Chart, Zero
    <2>2. /\ \A b \in Tasks, k \in Slots : batch[b][k] = Zero
          /\ \A b \in Tasks : reading[b] = <<>> /\ task[b] = "new"
          /\ Len(queue) = 0
          /\ \A i \in Ids : rows[i] = Zero /\ queued[i] = Zero
        BY DEF Init
    <2>3. BatchesInOrder
        BY <2>2, OrderFacts DEF BatchesInOrder
    <2>4. ImportsInOrder
        BY <2>2, OrderFacts DEF ImportsInOrder
    <2>5. OneUnderWay
        BY <2>1, <2>2 DEF OneUnderWay, OneImport, Reads
    <2> QED
        BY <2>3, <2>4, <2>5 DEF ChartInv
<1>2. TypeOK /\ ChartInv /\ [Next]_vars => ChartInv'
    BY BatchesStep, ImportsStep, UnderWayStep DEF ChartInv
<1>3. ChartInv => ChartCorrect
    <2> SUFFICES ASSUME ChartInv, NEW i \in Ids, Own(i), i \notin flawed, ~InFlight(i),
                        NEW h \in Hours
                 PROVE  rows[i][h] = IF queued[i][h] = 0 THEN 0 ELSE UpTo(queued[i], h)
        BY DEF ChartCorrect
    <2>1. rows[i] = Chart(queued[i])
        BY DEF ChartInv, OneUnderWay, OneImport, Sound
    <2> QED
        BY <2>1 DEF Chart
<1> QED
    BY <1>1, <1>2, <1>3, HistoryTypeCorrect, PTL DEF Spec
=============================================================================
