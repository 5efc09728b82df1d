---------------------------- MODULE MCUserAccess ----------------------------
(* A small instance of UserAccess for TLC.                                   *)
EXTENDS UserAccess, TLC
TaskSymmetry == Permutations(Tasks)
=============================================================================
