------------------------------ MODULE JobRows ------------------------------
(***************************************************************************)
(* The wreath.jobs table (jobs.py, _leased.py, _jobcore.py): what a row is  *)
(* and what each statement of the runner does to one.  Every operator is    *)
(* the effect of one UPDATE, INSERT or DELETE; JobRunner says who issues it *)
(* and when.                                                                *)
(*                                                                         *)
(* Time is relative: `left` is lease_expiry - now() and `wait` is           *)
(* run_at - now(), both floored at 0, so a tick of the database clock       *)
(* decrements them.  `left` is 0 on a row that is not leased: no statement  *)
(* reads lease_expiry there.                                                *)
(***************************************************************************)
EXTENDS Naturals

CONSTANTS Ids,         \* row ids; an id is inserted at most once (IDENTITY)
          Keys,        \* idempotency keys
          NoKey,       \* dedup_key IS NULL
          Payloads,    \* argument lists
          Lease,       \* the runner's lease, in ticks
          MaxDelay,    \* longest run_at delay or backoff, in ticks
          RowBudgets,  \* the max_attempts an enqueue may write on a row
          TaskBudget   \* retries + 1 of the registered handler

ASSUME RowsAssumption ==
    /\ NoKey \notin Keys
    /\ Payloads # {}
    /\ Lease \in Nat \ {0}
    /\ MaxDelay \in Nat
    /\ RowBudgets \subseteq Nat \ {0}
    /\ TaskBudget \in Nat \ {0}

(* `absent` is an id not allocated yet, `purged` a deleted row.  The code's *)
(* fifth state, `failed`, is written by no statement.                       *)
JobStates == {"absent", "ready", "leased", "done", "dead", "purged"}
Delays == 0 .. MaxDelay

Row == [state : JobStates, key : Keys \cup {NoKey}, args : Payloads,
        fence : Nat, attempts : Nat, budget : Nat,
        left : 0 .. Lease, wait : Delays]

Exists(r) == r.state \notin {"absent", "purged"}
Due(r) == r.state = "ready" /\ r.wait = 0
Expired(r) == r.state = "leased" /\ r.left = 0

AbsentRow == [state |-> "absent", key |-> NoKey,
              args |-> CHOOSE a \in Payloads : TRUE,
              fence |-> 0, attempts |-> 0, budget |-> 0,
              left |-> 0, wait |-> 0]

(* enqueue: INSERT ... VALUES (..., 'ready', COALESCE(run_at, now()), ...)  *)
Inserted(k, a, m, d) == [state |-> "ready", key |-> k, args |-> a,
                         fence |-> 0, attempts |-> 0, budget |-> m,
                         left |-> 0, wait |-> d]

(* enqueue(coalesce=True): ON CONFLICT DO UPDATE ... WHERE state = 'ready'  *)
CoalescedAlways(r, a, d) ==
    [r EXCEPT !.args = a, !.wait = IF d < @ THEN d ELSE @]

Coalesced(r, a, d) == IF r.state = "ready" THEN CoalescedAlways(r, a, d) ELSE r

(* _claim: leased under a fence nobody has held before.                     *)
Claimed(r) == [r EXCEPT !.state = "leased", !.left = Lease, !.fence = @ + 1]

(* The outcome statements, applied only under the fence of the claim.       *)
Completed(r) == [r EXCEPT !.state = "done", !.left = 0]
DeadLettered(r, n) == [r EXCEPT !.state = "dead", !.attempts = n, !.left = 0]
Retried(r, n, d) ==
    [r EXCEPT !.state = "ready", !.attempts = n, !.wait = d, !.left = 0]

(* A slip: the hand-back also takes back an attempt, which no claim charged.*)
ReleasedRefunded(r) == [r EXCEPT !.state = "ready", !.left = 0, !.attempts = @ - 1]

(* _release_unstarted: never attempted, so `attempts` stays.                *)
Released(r) == [r EXCEPT !.state = "ready", !.left = 0]

(* _reclaim_expired: the attempt is charged and the old fence retired.      *)
ReclaimedSameFence(r) ==
    [r EXCEPT !.attempts = @ + 1, !.left = 0,
              !.state = IF r.attempts + 1 >= r.budget THEN "dead" ELSE "ready"]
ReclaimedForever(r) ==
    [r EXCEPT !.attempts = @ + 1, !.left = 0, !.fence = @ + 1, !.state = "ready"]
Reclaimed(r) ==
    [r EXCEPT !.attempts = @ + 1, !.left = 0, !.fence = @ + 1,
              !.state = IF r.attempts + 1 >= r.budget THEN "dead" ELSE "ready"]

(* cancel: buried, and the fence moves so a running attempt cannot speak.   *)
Cancelled(r) == [r EXCEPT !.state = "dead", !.left = 0, !.fence = @ + 1]

Purged(r) == [AbsentRow EXCEPT !.state = "purged"]

(* One tick of the clock every statement reads through now().               *)
Aged(r) == [r EXCEPT !.left = IF @ > 0 THEN @ - 1 ELSE 0,
                     !.wait = IF @ > 0 THEN @ - 1 ELSE 0]
=============================================================================
