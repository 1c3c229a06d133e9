------------------------------- MODULE HikHistory -------------------------------
(***************************************************************************)
(* The external statistics of the replayed swipes: every backfill appends   *)
(* hourly rows whose sum continues from the last stored row.                *)
(*                                                                          *)
(* The rows belong to the recorder.  A read runs in its executor, an import *)
(* is queued and committed later, so a read does not see what is queued.    *)
(* Two backfills overlap when an entry is reloaded while the first is at    *)
(* its statistics: it is not cancelled.                                     *)
(***************************************************************************)
EXTENDS Naturals, FiniteSets, Sequences, FiniteSetsExt

CONSTANTS
    Slots,          \* enabled readers
    Ids,            \* statistic ids
    ValidIds,       \* those that are "domain:object" of digits, a..z and single _
    Namings,        \* the ids the readers may have, all together
    MaxTasks,       \* bound: backfills, of one process or of several
    MaxHour,        \* bound: hours of the clock
    MaxSwipes,      \* bound: swipes of a reader and hour in one backfill
    MaxCrashes      \* bound: ends of the process

ASSUME SlotsAssumption   == IsFiniteSet(Slots)
ASSUME NamingsAssumption == Namings \subseteq [Slots -> Ids]
ASSUME BoundsAssumption ==
    /\ MaxTasks \in Nat /\ MaxHour \in Nat \ {0}
    /\ MaxSwipes \in Nat /\ MaxCrashes \in Nat

Hours == 1..MaxHour
Tasks == 1..MaxTasks     \* in the order in which their fetches end

VARIABLES
    id,         \* statistic_id of a slot: made of the reader's name
    task,       \* task[b]: "new", "imports" or "done"
    batch,      \* batch[b][k][h]: replayed_per_slot, by hour; what is left to import
    reading,    \* reading[b]: the slot at hand and its base_sum
    queue,      \* imports queued to the recorder
    rows,       \* rows[i][h]: the stored sum of an hour, 0 without a row
    newest,     \* hour of the newest event handed to a backfill
    crashes,
    queued,     \* queued[i][h]: swipes whose import was queued (history variable)
    flawed      \* ids whose last row was once not the one to continue (history variable)

vars == <<id, task, batch, reading, queue, rows, newest, crashes, queued, flawed>>

Zero == [h \in Hours |-> 0]
UpTo(f, h) ==
    LET s[n \in 0..MaxHour] == IF n = 0 THEN 0 ELSE s[n - 1] + f[n]
    IN  s[h]
Total(f) == UpTo(f, MaxHour)
Rows(i) == {h \in Hours : rows[i][h] > 0}
Todo(b) == {k \in Slots : batch[b][k] # Zero}

Init ==
    /\ id \in Namings
    /\ task = [b \in Tasks |-> "new"]
    /\ batch = [b \in Tasks |-> [k \in Slots |-> Zero]]
    /\ reading = [b \in Tasks |-> <<>>]
    /\ queue = <<>>
    /\ rows = [i \in Ids |-> Zero]
    /\ newest = 1
    /\ crashes = 0
    /\ queued = [i \in Ids |-> Zero]
    /\ flawed = {}

\* The fetch of a backfill has ended.  Its swipes are new: not before the newest
\* event handed to an earlier one.
Begin(b) ==
    /\ task[b] = "new" /\ \A o \in 1..(b - 1) : task[o] # "new"
    /\ \E f \in [Slots -> [newest..MaxHour -> 0..MaxSwipes]] :
          batch' = [batch EXCEPT ![b] = [k \in Slots |->
                      [h \in Hours |-> IF h < newest THEN 0 ELSE f[k][h]]]]
    /\ Todo(b)' # {}
    /\ newest' = CHOOSE h \in Hours :
                    /\ \E k \in Slots : batch'[b][k][h] > 0
                    /\ \A k \in Slots, g \in Hours : g > h => batch'[b][k][g] = 0
    /\ task' = [task EXCEPT ![b] = "imports"]
    /\ UNCHANGED <<id, reading, queue, rows, crashes, queued, flawed>>

\* A slip: the row of the hour at hand, not the last one.
BaseFirst(i) == IF Rows(i) = {} THEN 0 ELSE rows[i][Min(Rows(i))]

\* get_last_statistics: the sum of the last stored row.
Base(i) == IF Rows(i) = {} THEN 0 ELSE rows[i][Max(Rows(i))]

\* An import of the id that no read sees yet.
InFlight(i) ==
    \/ \E n \in 1..Len(queue) : queue[n].id = i
    \/ \E b \in Tasks : reading[b] # <<>> /\ id[reading[b][1].slot] = i

\* An earlier backfill has swipes of the id still to import.
Overtakes(b, i) == \E o \in 1..(b - 1) : \E k \in Todo(o) : id[k] = i

\* The loop takes the next slot and reads; a failed read seeds the sum at 0.
Read(b) ==
    /\ task[b] = "imports" /\ reading[b] = <<>>
    /\ \E k \in Todo(b), answered \in BOOLEAN :
          /\ reading' = [reading EXCEPT ![b] =
                <<[slot |-> k, base |-> IF answered THEN Base(id[k]) ELSE 0]>>]
          /\ flawed' = IF answered /\ ~InFlight(id[k]) /\ ~Overtakes(b, id[k])
                       THEN flawed ELSE flawed \cup {id[k]}
    /\ UNCHANGED <<id, task, batch, queue, rows, newest, crashes, queued>>

\* A slip: the base is added in every hour.
SumsRebased(base, f) == [h \in {g \in Hours : f[g] > 0} |-> base * h + UpTo(f, h)]

\* A slip: the last hour is left for the next backfill.
SumsComplete(base, f) ==
    [h \in {g \in Hours : f[g] > 0 /\ UpTo(f, g) < Total(f)} |-> base + UpTo(f, h)]

\* The hours with swipes, in order, and the running sum.
Sums(base, f) == [h \in {g \in Hours : f[g] > 0} |-> base + UpTo(f, h)]

\* async_add_external_statistics, of a valid id.
Queue(b) ==
    /\ reading[b] # <<>> /\ id[reading[b][1].slot] \in ValidIds
    /\ LET k == reading[b][1].slot IN
          /\ queue' = Append(queue, [id |-> id[k],
                                     sums |-> Sums(reading[b][1].base, batch[b][k])])
          /\ queued' = [queued EXCEPT ![id[k]] =
                           [h \in Hours |-> @[h] + batch[b][k][h]]]
          /\ batch' = [batch EXCEPT ![b][k] = Zero]
    /\ reading' = [reading EXCEPT ![b] = <<>>]
    /\ task' = [task EXCEPT ![b] = IF Todo(b)' = {} THEN "done" ELSE @]
    /\ UNCHANGED <<id, rows, newest, crashes, flawed>>

\* It raises HomeAssistantError for any other id: _slug keeps whatever a name holds
\* but its spaces.  Nothing catches it, so the task ends, the later slots unwritten.
Refuse(b) ==
    /\ reading[b] # <<>> /\ id[reading[b][1].slot] \notin ValidIds
    /\ task' = [task EXCEPT ![b] = "done"]
    /\ batch' = [batch EXCEPT ![b] = [k \in Slots |-> Zero]]
    /\ reading' = [reading EXCEPT ![b] = <<>>]
    /\ UNCHANGED <<id, queue, rows, newest, crashes, queued, flawed>>

\* The recorder takes the next import: a row of an hour that exists is replaced.
Commit ==
    /\ queue # <<>>
    /\ queue' = Tail(queue)
    /\ LET i == Head(queue).id
           s == Head(queue).sums
       IN  rows' = [rows EXCEPT ![i] = [h \in Hours |-> IF h \in DOMAIN s THEN s[h] ELSE @[h]]]
    /\ UNCHANGED <<id, task, batch, reading, newest, crashes, queued, flawed>>

\* The process ends, and with it what was not committed.  The next one starts
\* from the mark of the restore store, which may be older than the rows.
Crash ==
    /\ crashes < MaxCrashes
    /\ crashes' = crashes + 1
    /\ newest' \in 1..newest
    /\ task' = [b \in Tasks |-> IF task[b] = "new" THEN "new" ELSE "done"]
    /\ batch' = [b \in Tasks |-> [k \in Slots |-> Zero]]
    /\ reading' = [b \in Tasks |-> <<>>]
    /\ queue' = <<>>
    /\ flawed' = IF newest' < newest THEN Ids
                 ELSE flawed \cup {queue[n].id : n \in 1..Len(queue)}
    /\ UNCHANGED <<id, rows, queued>>

Next ==
    \/ \E b \in Tasks : Begin(b) \/ Read(b) \/ Queue(b) \/ Refuse(b)
    \/ Commit
    \/ Crash

Spec == Init /\ [][Next]_vars

\* The executor answers or fails; the loop and the recorder run what is ready.
Fairness ==
    WF_vars(Commit) /\ \A b \in Tasks : WF_vars(Read(b)) /\ WF_vars(Queue(b) \/ Refuse(b))
FairSpec == Spec /\ Fairness
-----------------------------------------------------------------------------
(* Properties. *)

Own(i) == Cardinality({k \in Slots : id[k] = i}) = 1

\* "The cumulative sum continues from the last stored row", which "keeps the chart
\* correct even across the boundary hour": when nothing of a reader's statistic is
\* under way, the sum of every hour is the number of its imported swipes up to that
\* hour, provided that no read failed, none came before the import of an earlier
\* backfill was committed, no crash lost an import or a mark, and no other reader
\* has the same name.
ChartCorrect ==
    \A i \in Ids : Own(i) /\ i \notin flawed /\ ~InFlight(i) =>
        \A h \in Hours : rows[i][h] = IF queued[i][h] = 0 THEN 0 ELSE UpTo(queued[i], h)

\* Whatever overlaps, fails, crashes or shares a name, swipes may be missing from
\* the sum, but no more are added than the backfills counted.
NeverOvercounts ==
    \A i \in Ids, h \in Hours : rows[i][h] <= Total(queued[i])

\* Every hour of a backfill gets its row, unless the process ends, or a reader with
\* swipes in the same backfill has a name that makes an invalid id: not only such a
\* reader's rows are lost, but those of every reader whose turn comes after it.
EveryHourStored ==
    \A i \in Ids, h \in Hours :
        /\ \E b \in Tasks : /\ \A k \in Todo(b) : id[k] \in ValidIds
                            /\ \E k \in Slots : id[k] = i /\ batch[b][k][h] > 0
        /\ crashes = MaxCrashes
        ~> rows[i][h] > 0
=============================================================================
