------------------------------- MODULE MCHandshake -------------------------------
(***************************************************************************)
(* HikHandshake for TLC: the stream, the poll and the backfill.  No         *)
(* symmetry, because the run checks liveness.                               *)
(***************************************************************************)
EXTENDS HikHandshake

CONSTANTS Stream, Poll, Backfill

ASSUME ThreeTasks == Tasks = {Stream, Poll, Backfill}
=============================================================================
