---------------------------- MODULE MCMessageBus ----------------------------
(* The bus on a small instance, for TLC: two tasks of one process.          *)
EXTENDS MessageBus

CONSTANTS m1, g1, p1, k1, k2

OneProcess == [k \in Consumers |-> p1]
OneGroup == [k \in Consumers |-> g1]
=============================================================================
