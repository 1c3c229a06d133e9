-------------------------------- MODULE MCClient --------------------------------
(***************************************************************************)
(* HikClient for TLC, with the source's own limits: the backoff is a number *)
(* of seconds and needs no smaller values, only room to climb.              *)
(***************************************************************************)
EXTENDS HikClient

ASSUME ClimbAssumption == Floor < Ceiling
=============================================================================
