----------------------------- MODULE FencedWork -----------------------------
(***************************************************************************)
(* What a leased, fenced queue promises its callers, whatever carries it:   *)
(* the job runner (JobRunner) and the durable bus both implement it.        *)
(*                                                                         *)
(* An item is offered, taken by one holder at a time, and ends done or      *)
(* dead.  Being taken gives the right to settle the item; the right is      *)
(* exercised once, dropped (the holder died), or revoked by the sweeper or  *)
(* a cancellation.  Only a holder may say "done".                           *)
(***************************************************************************)
CONSTANTS Items,     \* the rows of the queue, live or still to be inserted
          Takers     \* whoever may hold a lease

VARIABLES status,    \* [Items -> Status]
          holders    \* [Items -> SUBSET Takers], who may still settle the item

abstractVars == <<status, holders>>

Status == {"absent", "ready", "leased", "done", "dead", "gone"}
Terminal == {"done", "dead"}

Init == /\ status = [i \in Items |-> "absent"]
        /\ holders = [i \in Items |-> {}]

Offer(i) == /\ status[i] = "absent"
            /\ status'[i] = "ready"
            /\ holders'[i] = {}

(* Taking is exclusive.  The answer to the claim may be lost, and then      *)
(* nobody holds the item until the lease is revoked.                        *)
Take(i) == /\ status[i] = "ready"
           /\ status'[i] = "leased"
           /\ \/ holders'[i] = {}
              \/ \E h \in Takers : holders'[i] = {h}

(* The one use a holder makes of its right: finish, give up, or hand back.  *)
Settle(i) == /\ status[i] = "leased"
             /\ holders[i] # {}
             /\ status'[i] \in Terminal \cup {"ready"}
             /\ holders'[i] = {}

(* The holder is gone or gave up without a word; the item stays leased.     *)
Drop(i) == /\ status[i] = "leased"
           /\ status'[i] = "leased"
           /\ holders'[i] = {}

(* A lease that ran out, or a cancellation: the right is taken back and the *)
(* item is offered again or buried, never declared done.                    *)
Revoke(i) == /\ status[i] \in {"ready", "leased"}
             /\ status'[i] \in {"ready", "dead"}
             /\ holders'[i] = {}

Forget(i) == /\ status[i] \in Terminal
             /\ status'[i] = "gone"
             /\ holders'[i] = {}

Keep(i) == status'[i] = status[i] /\ holders'[i] = holders[i]

(* One statement may move several rows, so a step moves every item by one   *)
(* of the transitions above or leaves it alone.                             *)
Next == \A i \in Items : \/ Offer(i) \/ Take(i) \/ Settle(i) \/ Drop(i)
                         \/ Revoke(i) \/ Forget(i) \/ Keep(i)

Spec == Init /\ [][Next]_abstractVars
=============================================================================
