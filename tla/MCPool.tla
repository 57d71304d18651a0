------------------------------- MODULE MCPool -------------------------------
(* The pool on a small instance, for TLC.                                   *)
EXTENDS Pool

CONSTANTS t1, t2, t3, c1, c2
=============================================================================
