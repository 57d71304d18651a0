----------------------------- MODULE MCStreams -----------------------------
(* One stream on a small instance, for TLC.                                 *)
EXTENDS Streams
=============================================================================
