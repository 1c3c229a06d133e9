------------------------------- MODULE MCIngest -------------------------------
(***************************************************************************)
(* HikIngest for TLC: the constants get small sets of model values in the  *)
(* .cfg files, this module adds the symmetry of the safety runs.           *)
(***************************************************************************)
EXTENDS HikIngest, TLC

\* Readers are compared for equality only, and so are controllers.
Symmetry == Permutations(Readers) \cup Permutations(Controllers)
=============================================================================
