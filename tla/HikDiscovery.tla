------------------------------ MODULE HikDiscovery ------------------------------
(***************************************************************************)
(* What the integration derives from a controller's answers: its readers,   *)
(* its doors, and the status arrays of AcsWorkStatus.                       *)
(*                                                                          *)
(* Slots are probed in order and a list of readers has no gap, so a list is *)
(* the sequence of the `enabled` flags of the slots 1, 2, ...               *)
(***************************************************************************)
EXTENDS Integers, FiniteSets, Sequences

\* The readers that get entities.
Enabled(readers) == {k \in 1..Len(readers) : readers[k]}

\* `sum(...) or 1`, and the doors of the "readers 2k-1, 2k" convention.
EnabledCount(readers) ==
    IF Enabled(readers) = {} THEN 1 ELSE Cardinality(Enabled(readers))

DoorCount(readers) == (EnabledCount(readers) + 1) \div 2

\* The door named in an event of reader k.
ReaderToDoor(k) == (k + 1) \div 2

\* A slip: the position among all readers, not among the enabled ones.
EnabledIndexRaw(readers, k) == k - 1

\* A reader's position among the enabled ones, from 0.
EnabledIndex(readers, k) == Cardinality({j \in Enabled(readers) : j < k})

\* _pad: an array cut or filled up to n places.
Pad(values, n, fill) == [i \in 1..n |-> IF i <= Len(values) THEN values[i] ELSE fill]

\* parse_acs_work_status, for the arrays that entities read; a status is TRUE
\* for locked, open, online.
WorkStatus(raw, doors, readers) ==
    [lock   |-> Pad(raw.lock, doors, FALSE),
     open   |-> Pad(raw.open, doors, FALSE),
     online |-> Pad(raw.online, readers, FALSE)]

\* is_on of an entity that reads place i of an array: None outside of it.
States == {"on", "off", "unknown"}
IsOn(values, i) ==
    IF i \notin 1..Len(values) THEN "unknown" ELSE IF values[i] THEN "on" ELSE "off"

DoorOpen(data, d) == IsOn(data.open, d)
\* device_class=lock: "on" is unlocked.
DoorLock(data, d) ==
    CASE IsOn(data.lock, d) = "on"  -> "off"
      [] IsOn(data.lock, d) = "off" -> "on"
      [] OTHER                      -> "unknown"
ReaderOnline(data, readers, k) == IsOn(data.online, EnabledIndex(readers, k) + 1)
=============================================================================
