----------------------------- MODULE MCUserSync -----------------------------
(***************************************************************************)
(* Instances of UserSync for TLC.                                          *)
(***************************************************************************)
EXTENDS UserSync, TLC

CONSTANTS n1, n2, j1, j2, j3

JobSymmetry == Permutations(Jobs)

=============================================================================
