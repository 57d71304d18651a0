---------------------------- MODULE MCJobRunner ----------------------------
(* The job runner on a small instance, for TLC.                             *)
EXTENDS JobRunner, TLC

CONSTANTS j1, j2, w1, w2, k

FullSymmetry == Permutations({j1, j2}) \cup Permutations({w1, w2})
=============================================================================
