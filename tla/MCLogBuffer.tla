---------------------------- MODULE MCLogBuffer ----------------------------
(* A buffer in front of the log, with other writers and a reader, for TLC.  *)
EXTENDS LogBuffer, TLC

CONSTANTS s1, s2, r, k

ReadsOne == r :> {s1}
=============================================================================
