--------------------------- MODULE MCFailureMemory ----------------------------
(***************************************************************************)
(* Runs that share one store.  Two fingerprints and a limit of one row make *)
(* collisions, duplicates and evictions happen with few runs.              *)
(***************************************************************************)
EXTENDS FailureMemory, TLC

RunSymmetry == Permutations(Runs)
=============================================================================
