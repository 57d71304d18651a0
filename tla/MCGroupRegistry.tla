--------------------------- MODULE MCGroupRegistry ---------------------------
(* The registry on a small instance, for TLC: two replicas of one service.  *)
EXTENDS GroupRegistry

CONSTANTS g1, p1, p2, orders

BothConsume == [p \in Procs |-> {g1}]
OneService == [p \in Procs |-> orders]
=============================================================================
