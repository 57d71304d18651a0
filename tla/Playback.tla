------------------------------ MODULE Playback ------------------------------
(***************************************************************************)
(* What following a stream promises, with no log, pages or connections: a   *)
(* client is shown one attempt, item by item and each further along than    *)
(* the last; what it has is thrown away only for a newer attempt; and after *)
(* the item that ends the stream there is nothing.  Streams implements it.  *)
(***************************************************************************)
EXTENDS Integers

VARIABLES attempt,   \* the attempt being shown; 0 before the first
          shown,     \* items of it shown so far
          at,        \* the id of the last event, <<transaction, place>>
          over       \* the last item said so

playVars == <<attempt, shown, at, over>>

Ahead(p, q) == p[1] > q[1] \/ (p[1] = q[1] /\ p[2] > q[2])

Init == attempt = 0 /\ shown = 0 /\ at = <<0, 0>> /\ over = FALSE

(* The first item settles which attempt it is; the others are of that one.  *)
Show == /\ shown' = shown + 1
        /\ IF shown = 0 THEN attempt <= attempt' /\ ~Ahead(at, at')
           ELSE attempt' = attempt /\ Ahead(at', at)

StartOver == attempt' > attempt /\ shown' = 0 /\ ~Ahead(at, at') /\ ~over'

(* Nothing new: the client is told how far there was nothing for it.        *)
PassOver == UNCHANGED <<attempt, shown, over>> /\ ~Ahead(at, at')

Next == ~over /\ (Show \/ StartOver \/ PassOver)

Spec == Init /\ [][Next]_playVars
=============================================================================
