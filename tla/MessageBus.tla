----------------------------- MODULE MessageBus -----------------------------
(***************************************************************************)
(* Durable messages (messaging.py, _doorbell.py): a publish inserts one     *)
(* copy per group, and the consumers of a group compete for its copies      *)
(* under leases and fences.  A notification only wakes consumers; the poll  *)
(* and the sweeper carry the guarantee.  Which groups a publisher knows is  *)
(* GroupRegistry; here a publish reaches any set of them.                   *)
(*                                                                         *)
(* One channel.  Time is relative, as in JobRows: `left` is lease_expiry -  *)
(* now() and `wait` is run_at - now().  A statement takes effect in one     *)
(* step; its answer may be lost.                                            *)
(***************************************************************************)
EXTENDS Naturals, FiniteSets

CONSTANTS Msgs, Groups, Procs,
          Consumers,       \* consumer tasks (`concurrency` per subscription)
          Home,            \* the process of a consumer
          GroupOf,         \* the group it consumes
          NoCopy,
          Lease, MaxWait,  \* lease and longest backoff, in ticks
          MaxAttempts,     \* max_attempts of a row (6 in the code)
          Retries          \* retries of the subscriptions

Copies == Msgs \X Groups

ASSUME BusAssumption ==
    /\ Home \in [Consumers -> Procs] /\ GroupOf \in [Consumers -> Groups]
    /\ NoCopy \notin Copies
    /\ Lease \in Nat \ {0} /\ MaxWait \in Nat
    /\ MaxAttempts \in Nat \ {0} /\ Retries \in Nat

VARIABLES row,       \* wreath.messages: the row of each copy
          life,      \* running, stopping or down, for each process
          bell,      \* the process holds a LISTEN connection
          notes,     \* notifications sent to it, not dispatched yet
          unrung,    \* inserted, pg_notify still to be executed
          pc,        \* where each consumer is
          wake,      \* its event
          task,      \* [copy, fence]: what it claimed
          heard,     \* history: fresh copies whose notification was dispatched
          claims     \* history: how often a copy was claimed

table == <<row, claims>>
wires == <<bell, notes, unrung>>
tasks == <<pc, wake, task>>
vars == <<table, heard, wires, tasks, life>>

States == {"absent", "ready", "leased", "done", "dead"}
Row == [state : States, fence : Nat, attempts : Nat, left : 0 .. Lease, wait : 0 .. MaxWait]
NoTask == [copy |-> NoCopy, fence |-> 0]

Subs(p) == {GroupOf[k] : k \in {k \in Consumers : Home[k] = p}}
Due(c) == row[c].state = "ready" /\ row[c].wait = 0
Expired(c) == row[c].state = "leased" /\ row[c].left = 0

NewRow == [state |-> "absent", fence |-> 0, attempts |-> 0, left |-> 0, wait |-> 0]

Init == /\ row = [c \in Copies |-> NewRow] /\ claims = [c \in Copies |-> 0]
        /\ life = [p \in Procs |-> "down"]
        /\ bell = [p \in Procs |-> FALSE]
        /\ notes = [p \in Procs |-> {}] /\ heard = [p \in Procs |-> {}]
        /\ unrung = {}
        /\ pc = [k \in Consumers |-> "off"]
        /\ wake = [k \in Consumers |-> FALSE]
        /\ task = [k \in Consumers |-> NoTask]

(* start: Doorbell.open reports failure and the process goes on without.    *)
Start(p) ==
    /\ life[p] = "down"
    /\ \E b \in BOOLEAN : bell' = [bell EXCEPT ![p] = b]
    /\ pc' = [k \in Consumers |-> IF Home[k] = p THEN "top" ELSE pc[k]]
    /\ life' = [life EXCEPT ![p] = "running"]
    /\ UNCHANGED <<table, heard, notes, unrung, wake, task>>

-----------------------------------------------------------------------------
(* Publishing.                                                              *)

Inserted == [NewRow EXCEPT !.state = "ready"]

(* One INSERT for every group the publisher knows; a copy under the same    *)
(* key stays as it is.                                                      *)
Publish(m) ==
    /\ \E S \in (SUBSET Groups) \ {{}} :
          row' = [c \in Copies |-> IF c[1] = m /\ c[2] \in S /\ row[c].state = "absent"
                                   THEN Inserted ELSE row[c]]
    /\ unrung' = unrung \cup {m}
    /\ UNCHANGED <<claims, heard, bell, notes, tasks, life>>

(* pg_notify, in a statement of its own: it may come late or never.         *)
Ring(m) ==
    /\ m \in unrung
    /\ unrung' = unrung \ {m}
    /\ \/ notes' = [p \in Procs |-> IF bell[p] THEN notes[p] \cup
                       {c \in Copies : c[1] = m /\ row[c].state # "absent"} ELSE notes[p]]
       \/ UNCHANGED notes
    /\ UNCHANGED <<table, heard, bell, tasks, life>>

-----------------------------------------------------------------------------
(* The doorbell.                                                            *)

WakeAll(p) == wake' = [k \in Consumers |-> wake[k] \/ Home[k] = p]

(* _pump, _dispatch.                                                        *)
Dispatch(p) ==
    /\ \E m \in Msgs :
          LET N == {c \in notes[p] : c[1] = m} IN
          /\ N # {}
          /\ notes' = [notes EXCEPT ![p] = @ \ N]
          /\ heard' = [heard EXCEPT ![p] = @ \cup {c \in N : row[c].fence = 0}]
    /\ WakeAll(p)
    /\ UNCHANGED <<table, bell, unrung, pc, task, life>>

(* The stream ends: what was on it is lost.  Doorbell.run opens another.    *)
BellDrops(p) ==
    /\ bell[p]
    /\ bell' = [bell EXCEPT ![p] = FALSE]
    /\ notes' = [notes EXCEPT ![p] = {}]
    /\ UNCHANGED <<table, heard, unrung, tasks, life>>

BellReopens(p) ==
    /\ life[p] = "running" /\ ~bell[p]
    /\ bell' = [bell EXCEPT ![p] = TRUE]
    /\ UNCHANGED <<table, heard, notes, unrung, tasks, life>>

-----------------------------------------------------------------------------
(* A consumer.                                                              *)

Goes(k, where) == pc' = [pc EXCEPT ![k] = where]
Stopping(k) == life[Home[k]] # "running"

(* The top of the loop: the event is cleared before the claim is sent.      *)
BeginClaim(k) ==
    /\ pc[k] = "top"
    /\ IF Stopping(k) THEN Goes(k, "off") /\ UNCHANGED wake
       ELSE Goes(k, "claiming") /\ wake' = [wake EXCEPT ![k] = FALSE]
    /\ UNCHANGED <<table, heard, wires, task, life>>

Claimed(r) == [r EXCEPT !.state = "leased", !.left = Lease, !.fence = @ + 1]

(* _claim at the database: the copy due for longest, which is any of them.  *)
ClaimRow(k) ==
    /\ pc[k] = "claiming"
    /\ \E c \in Copies :
          /\ c[2] = GroupOf[k] /\ Due(c)
          /\ row' = [row EXCEPT ![c] = Claimed(@)]
          /\ claims' = [claims EXCEPT ![c] = @ + 1]
          /\ heard' = [p \in Procs |-> heard[p] \ {c}]
          /\ \/ /\ Goes(k, "answered")
                /\ task' = [task EXCEPT ![k] = [copy |-> c, fence |-> Claimed(row[c]).fence]]
             \/ Goes(k, "resting") /\ UNCHANGED task      \* the answer is lost
    /\ UNCHANGED <<wires, wake, life>>

ClaimNothing(k) ==
    /\ pc[k] = "claiming"
    /\ \A c \in Copies : c[2] = GroupOf[k] => ~Due(c)
    /\ Goes(k, "answered")
    /\ UNCHANGED <<table, heard, wires, wake, task, life>>

ClaimFails(k) ==
    /\ pc[k] = "claiming"
    /\ Goes(k, "resting")
    /\ UNCHANGED <<table, heard, wires, wake, task, life>>

(* A slip: the event is cleared on the way to the park.                     *)
ClaimReturnsClears(k) ==
    /\ pc[k] = "answered"
    /\ Goes(k, IF task[k] = NoTask THEN "parked" ELSE "handling")
    /\ wake' = [wake EXCEPT ![k] = FALSE]
    /\ UNCHANGED <<table, heard, wires, task, life>>

(* The answer: park, leave when stopping, or give it to the handler.        *)
ClaimReturns(k) ==
    /\ pc[k] = "answered"
    /\ \/ task[k] = NoTask /\ Goes(k, "parked") /\ UNCHANGED task
       \/ task[k] # NoTask /\ ~Stopping(k) /\ Goes(k, "handling") /\ UNCHANGED task
       \/ /\ task[k] # NoTask /\ Stopping(k) /\ Goes(k, "off")
          /\ task' = [task EXCEPT ![k] = NoTask]
    /\ UNCHANGED <<table, heard, wires, wake, life>>

(* A slip: a consumer that found nothing waits for the event alone.         *)
UnparkOnWake(k) ==
    /\ pc[k] = "resting" \/ (pc[k] = "parked" /\ wake[k])
    /\ Goes(k, "top")
    /\ UNCHANGED <<table, heard, wires, wake, task, life>>

(* _park ends with the event, or with the poll interval whatever happened.  *)
Unpark(k) ==
    /\ pc[k] \in {"parked", "resting"}
    /\ Goes(k, "top")
    /\ UNCHANGED <<table, heard, wires, wake, task, life>>

(* The expiry of a finished row means nothing any more.                     *)
Completed(r) == [r EXCEPT !.state = "done", !.left = 0]
DeadLettered(r) == [r EXCEPT !.state = "dead", !.left = 0]

Budget == IF MaxAttempts < Retries + 1 THEN MaxAttempts ELSE Retries + 1

(* A slip: the delay grows with the attempts and nothing caps it.           *)
RetriedUncapped(r, d) ==
    [r EXCEPT !.attempts = @ + 1, !.left = 0, !.wait = d * (r.attempts + 1),
              !.state = IF r.attempts + 1 >= Budget THEN "dead" ELSE "ready"]

(* _retry: d is what compute_backoff answers, min(delay, cap) with jitter.  *)
Retried(r, d) ==
    [r EXCEPT !.attempts = @ + 1, !.left = 0, !.wait = d,
              !.state = IF r.attempts + 1 >= Budget THEN "dead" ELSE "ready"]

(* The handler ends and its disposition is recorded, WHERE id AND fence.    *)
Settle(k) ==
    LET c == task[k].copy IN
    /\ pc[k] = "handling"
    /\ IF row[c].fence = task[k].fence
       THEN \E r \in {Completed(row[c]), DeadLettered(row[c])}
                     \cup {Retried(row[c], d) : d \in 0 .. MaxWait} :
               row' = [row EXCEPT ![c] = r]
       ELSE UNCHANGED row
    /\ Goes(k, "top") \/ Goes(k, "resting")      \* answered, or the answer is lost
    /\ task' = [task EXCEPT ![k] = NoTask]
    /\ UNCHANGED <<claims, heard, wires, wake, life>>

(* The copy stays leased: recording it fails, which is counted, or the      *)
(* handler raises a CancelledError of its own, which ends the consumer.     *)
SettleFails(k) ==
    /\ pc[k] = "handling"
    /\ Goes(k, "resting") \/ Goes(k, "off")
    /\ task' = [task EXCEPT ![k] = NoTask]
    /\ UNCHANGED <<table, heard, wires, wake, life>>

(* A slip: an expired lease is not charged.                                 *)
ReclaimedForFree(r) == [r EXCEPT !.left = 0, !.fence = @ + 1, !.state = "ready"]

(* A slip: the fence of the expired lease stays good.                       *)
ReclaimedSameFence(r) ==
    [r EXCEPT !.attempts = @ + 1, !.left = 0,
              !.state = IF r.attempts + 1 >= MaxAttempts THEN "dead" ELSE "ready"]

Reclaimed(r) ==
    [r EXCEPT !.attempts = @ + 1, !.left = 0, !.fence = @ + 1,
              !.state = IF r.attempts + 1 >= MaxAttempts THEN "dead" ELSE "ready"]

(* _reclaim_expired, for one subscription of the process.                   *)
Sweep(p, g) ==
    /\ life[p] = "running" /\ g \in Subs(p)
    /\ \E c \in Copies : c[2] = g /\ Expired(c)
    /\ row' = [c \in Copies |-> IF c[2] = g /\ Expired(c) THEN Reclaimed(row[c]) ELSE row[c]]
    /\ UNCHANGED <<claims, heard, wires, tasks, life>>

-----------------------------------------------------------------------------
(* stop.                                                                    *)

(* The event is set: nothing more is claimed, what is being handled goes on.*)
StopBegins(p) ==
    /\ life[p] = "running"
    /\ life' = [life EXCEPT ![p] = "stopping"]
    /\ UNCHANGED <<table, heard, wires, tasks>>

(* The process is gone and its tasks with it: cancelled at the end of the   *)
(* drain, or killed at any time.                                            *)
Ends(p) ==
    /\ life[p] # "down"
    /\ life' = [life EXCEPT ![p] = "down"]
    /\ bell' = [bell EXCEPT ![p] = FALSE]
    /\ notes' = [notes EXCEPT ![p] = {}] /\ heard' = [heard EXCEPT ![p] = {}]
    /\ pc' = [k \in Consumers |-> IF Home[k] = p THEN "off" ELSE pc[k]]
    /\ wake' = [k \in Consumers |-> wake[k] /\ Home[k] # p]
    /\ task' = [k \in Consumers |-> IF Home[k] = p THEN NoTask ELSE task[k]]
    /\ UNCHANGED <<table, unrung>>

(* The database clock.                                                      *)
Aged(r) == [r EXCEPT !.left = IF @ > 0 THEN @ - 1 ELSE 0,
                     !.wait = IF @ > 0 THEN @ - 1 ELSE 0]
Tick ==
    /\ \E c \in Copies : row[c] # Aged(row[c])
    /\ row' = [c \in Copies |-> Aged(row[c])]
    /\ UNCHANGED <<claims, heard, wires, tasks, life>>

-----------------------------------------------------------------------------
Steps(k) == \/ BeginClaim(k) \/ ClaimRow(k) \/ ClaimNothing(k) \/ ClaimFails(k)
            \/ ClaimReturns(k) \/ Unpark(k) \/ Settle(k) \/ SettleFails(k)

Next == \/ Tick
        \/ \E k \in Consumers : Steps(k)
        \/ \E m \in Msgs : Publish(m) \/ Ring(m)
        \/ \E p \in Procs : \/ Start(p) \/ Dispatch(p) \/ BellDrops(p) \/ BellReopens(p)
                            \/ StopBegins(p) \/ Ends(p)
                            \/ \E g \in Groups : Sweep(p, g)

(* The loop runs what is ready, handlers end, timers fire, time passes, and *)
(* a claim that is repeated for ever is answered at some time.  No fairness *)
(* for notifications: they may all be lost.                                 *)
Fairness ==
    /\ WF_vars(Tick)
    /\ \A k \in Consumers : WF_vars(Steps(k)) /\ SF_vars(ClaimRow(k))
    /\ \A p \in Procs, g \in Groups : WF_vars(Sweep(p, g))

Spec == Init /\ [][Next]_vars /\ Fairness

-----------------------------------------------------------------------------
(* Properties.                                                              *)

Phases == {"off", "top", "claiming", "answered", "handling", "parked", "resting"}

TypeOK ==
    /\ row \in [Copies -> Row] /\ claims \in [Copies -> Nat]
    /\ life \in [Procs -> {"down", "running", "stopping"}]
    /\ bell \in [Procs -> BOOLEAN]
    /\ notes \in [Procs -> SUBSET Copies] /\ heard \in [Procs -> SUBSET Copies]
    /\ unrung \subseteq Msgs
    /\ pc \in [Consumers -> Phases]
    /\ wake \in [Consumers -> BOOLEAN]
    /\ task \in [Consumers -> [copy : Copies \cup {NoCopy}, fence : Nat]]

(* Each copy is a fenced work item: one holder at a time may settle it,     *)
(* once, and a holder whose lease was swept has no say any more.            *)
Holds(k, c) == task[k].copy = c /\ task[k].fence = row[c].fence
Promise == INSTANCE FencedWork WITH
    Items <- Copies, Takers <- Consumers,
    status <- [c \in Copies |-> row[c].state],
    holders <- [c \in Copies |-> {k \in Consumers : Holds(k, c)}]
ImplementsFencedWork == Promise!Spec

(* The event is cleared before the claim and not after it, so a consumer    *)
(* that parks after an empty claim has slept through no notification: the   *)
(* copies it was told of have been claimed by somebody.                     *)
NothingHeardIsSleptThrough ==
    \A k \in Consumers : pc[k] = "parked" /\ ~wake[k] =>
        \A c \in heard[Home[k]] : c[2] # GroupOf[k]

(* max_attempts bounds how often a copy is given to a consumer: every claim *)
(* is charged, lost answers, expired leases and dying consumers included.   *)
DeliveriesAreBounded ==
    \A c \in Copies :
        /\ claims[c] <= row[c].attempts + 1 /\ claims[c] <= MaxAttempts
        /\ row[c].state = "ready" => claims[c] = row[c].attempts
        /\ row[c].state \in {"ready", "leased"} => row[c].attempts < MaxAttempts

(* While a process that consumes the group keeps running and one of its     *)
(* consumers is left, every copy comes to its end: the poll and the sweeper *)
(* do it without any notification.                                          *)
Serves(p, g) ==
    /\ life[p] = "running"
    /\ \E k \in Consumers : Home[k] = p /\ GroupOf[k] = g /\ pc[k] # "off"
EveryCopySettles ==
    \A c \in Copies, p \in Procs :
        Serves(p, c[2]) /\ row[c].state \in {"ready", "leased"}
            ~> ~Serves(p, c[2]) \/ row[c].state \in {"done", "dead"}
=============================================================================
