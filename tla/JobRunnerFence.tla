--------------------------- MODULE JobRunnerFence ---------------------------
(***************************************************************************)
(* The types and the fence, for every fleet: at most one claim can move a   *)
(* row, and the inputs it runs with are the row's.                          *)
(***************************************************************************)
EXTENDS JobRunner, TLAPS

(* The two ends of a lease, and a job that is due at once, are in range.    *)
LEMMA Ranges ==
    /\ Lease \in Nat /\ 0 \in 0 .. Lease /\ Lease \in 0 .. Lease
    /\ Delays \subseteq Nat /\ 0 \in Delays
    /\ \A t \in 0 .. Lease : (IF t > 0 THEN t - 1 ELSE 0) \in 0 .. Lease
    /\ \A t \in Delays : (IF t > 0 THEN t - 1 ELSE 0) \in Delays
BY RowsAssumption DEF Delays

(* Every statement of the runner turns a row into a row.                    *)
LEMMA RowsStayRows ==
    ASSUME NEW r \in Row
    PROVE  /\ Claimed(r) \in Row
           /\ Completed(r) \in Row
           /\ \A n \in Nat : DeadLettered(r, n) \in Row
           /\ \A n \in Nat, d \in Delays : Retried(r, n, d) \in Row
           /\ Released(r) \in Row
           /\ Reclaimed(r) \in Row
           /\ Cancelled(r) \in Row
           /\ Aged(r) \in Row
           /\ \A a \in Payloads, d \in Delays : Coalesced(r, a, d) \in Row
<1>0. r.fence + 1 \in Nat /\ r.attempts + 1 \in Nat BY DEF Row
<1>1. Claimed(r) \in Row BY Zenon, <1>0, Ranges DEF Row, Claimed, JobStates
<1>2. Completed(r) \in Row BY Zenon, Ranges DEF Row, Completed, JobStates
<1>3. \A n \in Nat : DeadLettered(r, n) \in Row
      BY Zenon, Ranges DEF Row, DeadLettered, JobStates
<1>4. \A n \in Nat, d \in Delays : Retried(r, n, d) \in Row
      BY Zenon, Ranges DEF Row, Retried, JobStates
<1>5. Released(r) \in Row BY Zenon, Ranges DEF Row, Released, JobStates
<1>6. Reclaimed(r) \in Row BY Zenon, <1>0, Ranges DEF Row, Reclaimed, JobStates
<1>7. Cancelled(r) \in Row BY Zenon, <1>0, Ranges DEF Row, Cancelled, JobStates
<1>8. Aged(r) \in Row BY Zenon, Ranges DEF Row, Aged
<1>9. \A a \in Payloads, d \in Delays : Coalesced(r, a, d) \in Row
      BY Zenon DEF Row, Coalesced, CoalescedAlways
<1> QED BY <1>1, <1>2, <1>3, <1>4, <1>5, <1>6, <1>7, <1>8, <1>9

LEMMA NewRowsAreRows ==
    /\ AbsentRow \in Row
    /\ \A r : Purged(r) \in Row
    /\ \A k \in Keys \cup {NoKey}, a \in Payloads, m \in RowBudgets, d \in Delays :
          Inserted(k, a, m, d) \in Row
<1>1. AbsentRow \in Row BY Ranges, RowsAssumption DEF Row, AbsentRow, JobStates
<1>2. \A r : Purged(r) \in Row BY <1>1 DEF Row, Purged, JobStates
<1>3. \A k \in Keys \cup {NoKey}, a \in Payloads, m \in RowBudgets, d \in Delays :
          Inserted(k, a, m, d) \in Row
      BY Ranges, RowsAssumption DEF Row, Inserted, JobStates
<1> QED BY <1>1, <1>2, <1>3

-----------------------------------------------------------------------------
(* What _complete and _fail write is a row, whatever ended the attempt.     *)
LEMMA OutcomesAreRows ==
    ASSUME TypeOK, NEW w \in Workers, NEW c \in held[w], pc[w] \in Settling
    PROVE  Outcomes(w, c) \subseteq Row
<1>1. c \in ClaimedJob BY DEF TypeOK
<1>2. rows[c.id] \in Row /\ c.attempts + 1 \in Nat BY <1>1 DEF TypeOK, ClaimedJob
<1> QED BY <1>2, RowsStayRows, Ranges DEF Outcomes, Settling

(* The variables keep their types: no statement or step of the runner puts  *)
(* a row, a claim or a worker outside the shapes above.                     *)
THEOREM TypeCorrect == Spec => []TypeOK
<1>1. Init => TypeOK
  BY NewRowsAreRows, RunnerAssumption
     DEF Init, TypeOK, ProcStates, WorkerStates, Reports, MaxRan
<1>2. TypeOK /\ [Next]_vars => TypeOK'
  <2> SUFFICES ASSUME TypeOK, [Next]_vars PROVE TypeOK'
      OBVIOUS
  <2>1. CASE UNCHANGED vars BY <2>1 DEF vars, TypeOK
  <2>2. ASSUME NEW i \in Ids, CallerStep(i) PROVE TypeOK'
    <3>1. ASSUME NEW k \in Keys \cup {NoKey}, NEW a \in Payloads, NEW m \in RowBudgets,
                 NEW d \in Delays, NEW watched \in BOOLEAN, Enqueue(i, k, a, m, d, watched)
          PROVE  TypeOK'
      BY Zenon, <3>1, NewRowsAreRows DEF Enqueue, TypeOK, procVars
    <3>2. ASSUME NEW a \in Payloads, NEW d \in Delays, Coalesce(i, a, d) PROVE TypeOK'
      BY Zenon, <3>2, RowsStayRows DEF Coalesce, TypeOK, procVars
    <3>3. CASE Seed(i) BY <3>3 DEF Seed, Tell, TypeOK, procVars, Reports
    <3>4. CASE SeedDuplicate(i) BY <3>4 DEF SeedDuplicate, Tell, TypeOK, procVars, Reports
    <3>5. CASE Cancel(i) BY <3>5, RowsStayRows DEF Cancel, Tell, TypeOK, procVars, Reports
    <3>6. CASE Purge(i) BY Zenon, <3>6, NewRowsAreRows DEF Purge, TypeOK, procVars
    <3> QED BY <2>2, <3>1, <3>2, <3>3, <3>4, <3>5, <3>6 DEF CallerStep
  <2>3. ASSUME NEW w \in Workers, WorkerStep(w) PROVE TypeOK'
    <3>1. ASSUME NEW S \in SUBSET Ids, Claim(w, S) PROVE TypeOK'
      <4>1. rows' \in [Ids -> Row] BY <3>1, RowsStayRows DEF Claim, TypeOK
      <4>2. {ClaimOf(i) : i \in S} \subseteq ClaimedJob
        BY DEF TypeOK, ClaimOf, ClaimedJob, Row
      <4> QED BY <3>1, <4>1, <4>2, RunnerAssumption DEF Claim, TypeOK, WorkerStates, MaxRan
    <3>2. ASSUME NEW c \in held[w], Begin(w, c) PROVE TypeOK'
      <4>1. c.id \in Ids BY DEF TypeOK, ClaimedJob
      <4> QED BY <3>2, <4>1, RunnerAssumption
              DEF Begin, TypeOK, WorkerStates, Settling, MaxRan
    <3>3. ASSUME NEW c \in held[w], Settle(w, c) PROVE TypeOK'
      <4>1. pc[w] \in Settling BY Zenon, <3>3 DEF Settle
      <4>2. rows' \in [Ids -> Row]
        BY <3>3, <4>1, OutcomesAreRows DEF Settle, Record, TypeOK
      <4>3. told' \in [Ids -> Reports]
        <5>1. c.id \in Ids BY DEF TypeOK, ClaimedJob
        <5>2. \A r : ReportFor(r, told[c.id]) \in Reports
          BY <5>1 DEF ReportFor, Reports, TypeOK
        <5> QED BY <3>3, <5>2 DEF Settle, Record, Tell, TypeOK
      <4> QED BY <3>3, <4>2, <4>3 DEF Settle, TypeOK, WorkerStates
    <3>4. ASSUME NEW c \in held[w], Release(w, c) PROVE TypeOK'
      <4>1. c.id \in Ids BY DEF TypeOK, ClaimedJob
      <4>2. rows' \in [Ids -> Row]
        BY <3>4, <4>1, RowsStayRows DEF Release, TypeOK
      <4> QED BY Zenon, <3>4, <4>2 DEF Release, TypeOK, ProcStates
    <3>5. CASE Report(w)
      BY Zenon, <3>5 DEF Report, Tell, TypeOK, procVars, Reports
    <3>6. CASE HandlerEnds(w)
      BY <3>6, RunnerAssumption DEF HandlerEnds, TypeOK, WorkerStates, Settling, MaxRan
    <3>7. CASE HandlerCancelsItself(w)
      BY <3>7, RunnerAssumption
         DEF HandlerCancelsItself, Unstarted, TypeOK, WorkerStates, MaxRan
    <3>8. CASE Exit(w) BY <3>8, RunnerAssumption DEF Exit, TypeOK, WorkerStates, MaxRan
    <3>9. CASE Stop(w) BY <3>9 DEF Stop, TypeOK, ProcStates
    <3>10. CASE Drain(w) BY <3>10 DEF Drain, TypeOK, ProcStates
    <3>11. CASE Halt(w)
      BY <3>11, RunnerAssumption DEF Halt, TypeOK, ProcStates, WorkerStates, MaxRan
    <3>12. CASE Restart(w) BY <3>12 DEF Restart, TypeOK, ProcStates, WorkerStates
    <3> QED BY Zenon, <2>3, <3>1, <3>2, <3>3, <3>4, <3>5, <3>6, <3>7, <3>8, <3>9, <3>10,
               <3>11, <3>12 DEF WorkerStep
  <2>4. CASE ReclaimExpired
    BY <2>4, RowsStayRows DEF ReclaimExpired, TypeOK, procVars
  <2>5. CASE Tick
    <3>1. rows' \in [Ids -> Row] BY <2>5, RowsStayRows DEF Tick, TypeOK
    <3>2. ran' \in [Workers -> 0 .. MaxRan]
      BY <2>5, RunnerAssumption DEF Tick, Timed, TypeOK, MaxRan
    <3> QED BY <2>5, <3>1, <3>2 DEF Tick, TypeOK
  <2> QED BY <2>1, <2>2, <2>3, <2>4, <2>5 DEF Next
<1> QED BY <1>1, <1>2, PTL DEF Spec

-----------------------------------------------------------------------------
(* Rows.                                                                    *)

(* What each statement does to the fields the invariants speak of.          *)
LEMMA ClaimedFields ==
    ASSUME NEW r \in Row
    PROVE  /\ Claimed(r).state = "leased" /\ Claimed(r).fence = r.fence + 1
           /\ Claimed(r).args = r.args /\ Claimed(r).attempts = r.attempts
           /\ Claimed(r).budget = r.budget /\ Claimed(r).left = Lease
BY DEF Row, Claimed

LEMMA CompletedFields ==
    ASSUME NEW r \in Row
    PROVE  /\ Completed(r).state = "done" /\ Completed(r).fence = r.fence
           /\ Completed(r).attempts = r.attempts /\ Completed(r).budget = r.budget
BY DEF Row, Completed

LEMMA DeadLetteredFields ==
    ASSUME NEW r \in Row, NEW n \in Nat
    PROVE  /\ DeadLettered(r, n).state = "dead" /\ DeadLettered(r, n).fence = r.fence
           /\ DeadLettered(r, n).attempts = n /\ DeadLettered(r, n).budget = r.budget
BY DEF Row, DeadLettered

LEMMA RetriedFields ==
    ASSUME NEW r \in Row, NEW n \in Nat, NEW d \in Delays
    PROVE  /\ Retried(r, n, d).state = "ready" /\ Retried(r, n, d).fence = r.fence
           /\ Retried(r, n, d).attempts = n /\ Retried(r, n, d).budget = r.budget
BY DEF Row, Retried

LEMMA ReleasedFields ==
    ASSUME NEW r \in Row
    PROVE  /\ Released(r).state = "ready" /\ Released(r).fence = r.fence
           /\ Released(r).attempts = r.attempts /\ Released(r).budget = r.budget
BY DEF Row, Released

LEMMA ReclaimedFields ==
    ASSUME NEW r \in Row
    PROVE  /\ Reclaimed(r).state = IF r.attempts + 1 >= r.budget THEN "dead" ELSE "ready"
           /\ Reclaimed(r).fence = r.fence + 1
           /\ Reclaimed(r).attempts = r.attempts + 1 /\ Reclaimed(r).budget = r.budget
BY DEF Row, Reclaimed

LEMMA CancelledFields ==
    ASSUME NEW r \in Row
    PROVE  /\ Cancelled(r).state = "dead" /\ Cancelled(r).fence = r.fence + 1
           /\ Cancelled(r).attempts = r.attempts /\ Cancelled(r).budget = r.budget
BY DEF Row, Cancelled

LEMMA AgedFields ==
    ASSUME NEW r \in Row
    PROVE  /\ Aged(r).state = r.state /\ Aged(r).fence = r.fence
           /\ Aged(r).args = r.args /\ Aged(r).attempts = r.attempts
           /\ Aged(r).budget = r.budget
           /\ Aged(r).left = IF r.left > 0 THEN r.left - 1 ELSE 0
BY DEF Row, Aged

LEMMA AbsentFields ==
    AbsentRow.state = "absent" /\ AbsentRow.attempts = 0 /\ AbsentRow.fence = 0
BY DEF AbsentRow

LEMMA PurgedFields ==
    ASSUME NEW r
    PROVE  Purged(r).state = "purged" /\ Purged(r).attempts = 0
BY DEF Purged, AbsentRow

LEMMA InsertedFields ==
    ASSUME NEW k, NEW a, NEW m, NEW d
    PROVE  /\ Inserted(k, a, m, d).state = "ready"
           /\ Inserted(k, a, m, d).attempts = 0
           /\ Inserted(k, a, m, d).budget = m
BY DEF Inserted

(* Coalescing changes a ready row's arguments and nothing else the claims   *)
(* depend on; a row in any other state it leaves alone.                     *)
LEMMA CoalesceFields ==
    ASSUME NEW r \in Row, NEW a \in Payloads, NEW d \in Delays
    PROVE  /\ Coalesced(r, a, d).state = r.state
           /\ Coalesced(r, a, d).fence = r.fence
           /\ Coalesced(r, a, d).attempts = r.attempts
           /\ Coalesced(r, a, d).budget = r.budget
           /\ r.state # "ready" => Coalesced(r, a, d) = r
BY Zenon DEF Row, Coalesced, CoalescedAlways

(* An outcome leaves the fence alone and ends or re-offers the row; it is   *)
(* offered again only within the handler's or the row's budget.             *)
LEMMA OutcomeFields ==
    ASSUME TypeOK, NEW w \in Workers, NEW c \in held[w], pc[w] \in Settling,
           NEW r \in Outcomes(w, c)
    PROVE  /\ r.state \in {"done", "dead", "ready"}
           /\ r.fence = rows[c.id].fence
           /\ r.budget = rows[c.id].budget
           /\ r.attempts \in {rows[c.id].attempts, c.attempts + 1}
           /\ r.state = "ready" => /\ r.attempts = c.attempts + 1
                                   /\ r.attempts < TaskBudget \/ r.attempts < r.budget
<1>1. c \in ClaimedJob BY DEF TypeOK
<1>2. rows[c.id] \in Row /\ c.attempts + 1 \in Nat BY <1>1 DEF TypeOK, ClaimedJob
<1>3. rows[c.id].budget \in Nat /\ TaskBudget \in Nat BY <1>2, RowsAssumption DEF Row
<1>4. CASE pc[w] = "completing" BY <1>2, <1>4, CompletedFields DEF Outcomes
<1>5. CASE pc[w] = "failing"
  BY <1>2, <1>3, <1>5, DeadLetteredFields, RetriedFields DEF Outcomes
<1>6. CASE pc[w] = "orphaned"
  BY <1>2, <1>3, <1>6, DeadLetteredFields, RetriedFields, Ranges
  DEF Outcomes
<1>7. CASE pc[w] = "burying" BY <1>2, <1>7, DeadLetteredFields DEF Outcomes
<1> QED BY <1>4, <1>5, <1>6, <1>7 DEF Settling

-----------------------------------------------------------------------------
(* Processes.                                                               *)

(* What a process knows of its own claims: none while idle or down, and     *)
(* some not started while drain hands them back.                            *)
Bookkeeping ==
    \A w \in Workers :
        /\ pc[w] = "idle" \/ proc[w] = "down" => held[w] = {}
        /\ proc[w] = "releasing" => /\ pc[w] \notin {"idle", "claiming"}
                                    /\ Unstarted(w) # {}

(* A step of one process leaves the memory of another alone.                *)
SameProcess(v) ==
    /\ proc'[v] = proc[v] /\ pc'[v] = pc[v] /\ held'[v] = held[v]
    /\ cur'[v] = cur[v] /\ first'[v] = first[v] /\ ran'[v] = ran[v]

LEMMA StepsAreLocal ==
    ASSUME TypeOK, NEW w \in Workers, WorkerStep(w), NEW v \in Workers, v # w
    PROVE  SameProcess(v)
<1>1. ASSUME NEW S \in SUBSET Ids, Claim(w, S) PROVE SameProcess(v)
  BY <1>1 DEF Claim, SameProcess, TypeOK
<1>2. ASSUME NEW c \in held[w], Begin(w, c) PROVE SameProcess(v)
  BY <1>2 DEF Begin, SameProcess, TypeOK
<1>3. ASSUME NEW c \in held[w], Settle(w, c) PROVE SameProcess(v)
  BY Zenon, <1>3 DEF Settle, SameProcess, TypeOK
<1>4. ASSUME NEW c \in held[w], Release(w, c) PROVE SameProcess(v)
  BY Zenon, <1>4 DEF Release, SameProcess, TypeOK
<1>5. CASE Report(w) BY <1>5 DEF Report, SameProcess, procVars
<1>6. CASE HandlerEnds(w) BY <1>6 DEF HandlerEnds, SameProcess, TypeOK
<1>7. CASE HandlerCancelsItself(w) BY <1>7 DEF HandlerCancelsItself, SameProcess, TypeOK
<1>8. CASE Exit(w) BY <1>8 DEF Exit, SameProcess, TypeOK
<1>9. CASE Stop(w) BY <1>9 DEF Stop, SameProcess, TypeOK
<1>10. CASE Drain(w) BY <1>10 DEF Drain, SameProcess, TypeOK
<1>11. CASE Halt(w) BY <1>11 DEF Halt, SameProcess, TypeOK
<1>12. CASE Restart(w) BY Zenon, <1>12 DEF Restart, SameProcess, TypeOK
<1> QED BY Zenon, <1>1, <1>2, <1>3, <1>4, <1>5, <1>6, <1>7, <1>8, <1>9, <1>10, <1>11, <1>12
        DEF WorkerStep

LEMMA CallersTouchNoProcess ==
    ASSUME NEW i \in Ids, CallerStep(i), NEW v \in Workers
    PROVE  SameProcess(v)
BY DEF CallerStep, Enqueue, Coalesce, Seed, SeedDuplicate, Cancel, Purge, procVars, SameProcess

LEMMA BookkeepingStep ==
    ASSUME TypeOK, Bookkeeping, [Next]_vars
    PROVE  Bookkeeping'
<1> DEFINE Book(v) ==
        /\ pc[v] = "idle" \/ proc[v] = "down" => held[v] = {}
        /\ proc[v] = "releasing" => /\ pc[v] \notin {"idle", "claiming"}
                                    /\ Unstarted(v) # {}
<1> SUFFICES ASSUME NEW v \in Workers PROVE Book(v)'
    BY DEF Bookkeeping
<1>0. Book(v) BY Zenon DEF Bookkeeping
<1>00. SameProcess(v) => Book(v)' 
  BY Zenon, <1>0 DEF SameProcess, Unstarted, Current, OnJob
<1> HIDE DEF Book
<1>1. CASE UNCHANGED vars BY <1>00, <1>1 DEF vars, SameProcess
<1>2. ASSUME NEW i \in Ids, CallerStep(i) PROVE Book(v)'
  BY <1>00, <1>2, CallersTouchNoProcess
<1>3. ASSUME NEW w \in Workers, WorkerStep(w), w # v PROVE Book(v)'
  BY <1>00, <1>3, StepsAreLocal, ZenonT(40)
<1>4. ASSUME WorkerStep(v) PROVE Book(v)'
  <2> USE <1>0 DEF Book, TypeOK
  <2>1. ASSUME NEW S \in SUBSET Ids, Claim(v, S) PROVE Book(v)'
    BY Zenon, <2>1 DEF Claim, Unstarted, Current, OnJob, Settling
  <2>2. ASSUME NEW c \in held[v], Begin(v, c) PROVE Book(v)'
    BY Zenon, <2>2 DEF Begin
  <2>3. ASSUME NEW c \in held[v], Settle(v, c) PROVE Book(v)'
    <3>1. pc'[v] \in {"idle", "batch"} /\ held'[v] = held[v] \ {c} BY Zenon, <2>3 DEF Settle
    <3>2. Unstarted(v)' = held'[v] BY Zenon, <3>1 DEF Unstarted, Current, OnJob, Settling
    <3>3. c \notin Unstarted(v) BY Zenon, <2>3 DEF Settle, Unstarted
    <3>4. Unstarted(v) # {} => pc'[v] = "batch" /\ held'[v] # {}
      BY Zenon, <2>3, <3>1, <3>3 DEF Settle, Unstarted
    <3> QED BY Zenon, <2>3, <3>1, <3>2, <3>4 DEF Settle
  <2>4. ASSUME NEW c \in held[v], Release(v, c) PROVE Book(v)'
    <3>1. Unstarted(v)' = Unstarted(v) \ {c}
      BY Zenon, <2>4 DEF Release, Unstarted, Current, OnJob
    <3>2. c \in Unstarted(v) BY Zenon, <2>4 DEF Release
    <3> QED BY Zenon, <2>4, <3>1, <3>2 DEF Release
  <2>5. CASE Report(v) BY Zenon, <1>00, <2>5 DEF Report, procVars, SameProcess
  <2>6. CASE HandlerEnds(v)
    <3>1. Unstarted(v)' = Unstarted(v)
      BY Zenon, <2>6 DEF HandlerEnds, Unstarted, Current, OnJob, Settling
    <3> QED BY Zenon, <2>6, <3>1 DEF HandlerEnds
  <2>7. CASE HandlerCancelsItself(v)
    <3>1. Unstarted(v)' = Unstarted(v)
      BY Zenon, <2>7 DEF HandlerCancelsItself, Unstarted, Current, OnJob, Settling
    <3> QED BY Zenon, <2>7, <3>1 DEF HandlerCancelsItself, Unstarted
  <2>8. CASE Exit(v)
    <3>1. Unstarted(v)' = Unstarted(v)
      BY Zenon, <2>8 DEF Exit, Unstarted, Current, OnJob, Settling
    <3> QED BY Zenon, <2>8, <3>1 DEF Exit
  <2>9. CASE Stop(v) BY Zenon, <2>9 DEF Stop
  <2>10. CASE Drain(v)
    <3>1. Unstarted(v)' = Unstarted(v) BY Zenon, <2>10 DEF Drain, Unstarted, Current, OnJob
    <3> QED BY Zenon, <2>10, <3>1 DEF Drain, Unstarted
  <2>11. CASE Halt(v) BY Zenon, <2>11 DEF Halt
  <2>12. CASE Restart(v) BY Zenon, <2>12 DEF Restart
  <2> QED BY Zenon, <1>4, <2>1, <2>2, <2>3, <2>4, <2>5, <2>6, <2>7, <2>8, <2>9, <2>10,
             <2>11, <2>12 DEF WorkerStep
<1>5. CASE ReclaimExpired BY Zenon, <1>00, <1>5 DEF ReclaimExpired, procVars, SameProcess
<1>6. CASE Tick
  BY <1>0, <1>6 DEF Tick, Book, Unstarted, Current, OnJob
<1> QED BY Zenon, <1>1, <1>2, <1>3, <1>4, <1>5, <1>6 DEF Next

LEMMA BookkeepingHolds == Spec => []Bookkeeping
<1>1. Init => Bookkeeping BY DEF Init, Bookkeeping
<1>2. TypeOK /\ Bookkeeping /\ [Next]_vars => Bookkeeping' BY BookkeepingStep
<1> QED BY <1>1, <1>2, TypeCorrect, PTL DEF Spec

-----------------------------------------------------------------------------
(* The inductive invariant behind SoleHolder: no claim is ahead of its row, *)
(* a claim that still counts fits a leased row, and no two claims in the    *)
(* fleet's memory are for one fence of one row.                             *)
NeverAhead == \A w \in Workers : \A c \in held[w] :
                 /\ rows[c.id].state # "absent"
                 /\ Exists(rows[c.id]) => c.fence <= rows[c.id].fence
LiveFits == \A w \in Workers : \A c \in held[w] :
                 Live(c) => /\ rows[c.id].state = "leased"
                            /\ c.args = rows[c.id].args
                            /\ c.attempts = rows[c.id].attempts
Distinct == \A w1, w2 \in Workers : \A c1 \in held[w1], c2 \in held[w2] :
                 c1.id = c2.id /\ c1.fence = c2.fence => w1 = w2 /\ c1 = c2
Fencing == NeverAhead /\ LiveFits /\ Distinct

(* The ways a step may change row i without hurting the claims on it.       *)
SameFor(i) == /\ rows'[i].state = rows[i].state
              /\ rows'[i].fence = rows[i].fence
              /\ rows'[i].args = rows[i].args
              /\ rows'[i].attempts = rows[i].attempts
Fenced(i) == /\ Exists(rows[i]) /\ rows'[i].state # "absent"
             /\ rows'[i].fence = rows[i].fence + 1
Unclaimed(i) == /\ rows'[i].state # "absent"
                /\ Exists(rows[i]) => rows'[i].fence = rows[i].fence
                /\ rows[i].state # "purged"
                /\ \A w \in Workers : \A c \in held'[w] :
                      c.id = i /\ Exists(rows[i]) => c.fence # rows[i].fence
Harmless(i) == SameFor(i) \/ Fenced(i) \/ Unclaimed(i) \/ rows'[i].state = "purged"

LEMMA HarmlessKeepsFencing ==
    ASSUME TypeOK, TypeOK', Fencing,
           \A w \in Workers : held'[w] \subseteq held[w],
           \A i \in Ids : Harmless(i)
    PROVE  Fencing'
<1>1. ASSUME NEW w \in Workers, NEW c \in held'[w]
      PROVE  /\ rows'[c.id].state # "absent"
             /\ Exists(rows'[c.id]) => c.fence <= rows'[c.id].fence
             /\ Live(c)' => /\ rows'[c.id].state = "leased"
                            /\ c.args = rows'[c.id].args
                            /\ c.attempts = rows'[c.id].attempts
  <2>1. c \in held[w] /\ c.id \in Ids /\ c.fence \in Nat BY DEF TypeOK, ClaimedJob
  <2>2. /\ rows[c.id].state # "absent"
        /\ Exists(rows[c.id]) => c.fence <= rows[c.id].fence
        /\ Live(c) => /\ rows[c.id].state = "leased"
                      /\ c.args = rows[c.id].args
                      /\ c.attempts = rows[c.id].attempts
    BY Zenon, <2>1 DEF Fencing, NeverAhead, LiveFits
  <2>3. rows[c.id].fence \in Nat /\ rows'[c.id].fence \in Nat BY Zenon, <2>1 DEF TypeOK, Row
  <2>4. CASE SameFor(c.id) BY Zenon, <2>2, <2>4 DEF SameFor, Live, Exists
  <2>5. CASE Fenced(c.id) BY <2>2, <2>3, <2>1, <2>5 DEF Fenced, Live, Exists
  <2>6. CASE Unclaimed(c.id) BY Zenon, <2>2, <2>3, <2>1, <2>6 DEF Unclaimed, Live, Exists
  <2>7. CASE rows'[c.id].state = "purged" BY Zenon, <2>7 DEF Live, Exists
  <2> QED BY Zenon, <2>1, <2>4, <2>5, <2>6, <2>7 DEF Harmless
<1>2. Distinct' BY DEF Fencing, Distinct
<1>3. NeverAhead' BY Zenon, <1>1 DEF NeverAhead
<1>4. LiveFits' BY Zenon, <1>1 DEF LiveFits
<1> QED BY Zenon, <1>2, <1>3, <1>4 DEF Fencing

(* A claim leases only ready rows, on which no claim counts, under a fence  *)
(* above every fence handed out before.                                     *)
LEMMA ClaimKeepsFencing ==
    ASSUME TypeOK, TypeOK', Fencing, NEW w \in Workers, NEW S \in SUBSET Ids, Claim(w, S)
    PROVE  Fencing'
<1>1. \A i \in Ids : Harmless(i)
  <2> SUFFICES ASSUME NEW i \in Ids PROVE Harmless(i)
      BY Zenon
  <2>1. rows[i] \in Row BY Zenon DEF TypeOK
  <2>2. CASE i \in S
    BY Zenon, <2>1, <2>2, ClaimedFields DEF Claim, Due, Harmless, Fenced, Exists
  <2>3. CASE i \notin S BY Zenon, <2>3 DEF Claim, Harmless, SameFor
  <2> QED BY <2>2, <2>3
<1>2. CASE UNCHANGED held BY Zenon, <1>1, <1>2, HarmlessKeepsFencing
<1>3. CASE held' = [held EXCEPT ![w] = {ClaimOf(i) : i \in S}]
  <2>1. ASSUME NEW i \in S
        PROVE  /\ ClaimOf(i).id = i
               /\ ClaimOf(i).fence = rows'[i].fence
               /\ rows'[i].fence = rows[i].fence + 1
               /\ ClaimOf(i).args = rows'[i].args
               /\ ClaimOf(i).attempts = rows'[i].attempts
               /\ rows[i].state = "ready" /\ rows'[i].state = "leased"
    <3>1. i \in Ids /\ rows[i] \in Row BY Zenon DEF TypeOK
    <3>2. rows'[i] = Claimed(rows[i]) BY Zenon, <3>1 DEF Claim
    <3> QED BY Zenon, <3>1, <3>2, ClaimedFields DEF Claim, ClaimOf, Due
  <2>2. held' \in [Workers -> SUBSET ClaimedJob] BY Zenon DEF TypeOK
  <2>3. \A v \in Workers \ {w} : held'[v] = held[v] BY Zenon, <1>3 DEF TypeOK
  <2>4. \A c \in held'[w] : \E i \in S : c = ClaimOf(i) BY Zenon, <1>3 DEF TypeOK
  <2>5. ASSUME NEW v \in Workers \ {w}, NEW c \in held[v]
        PROVE  /\ rows'[c.id].state # "absent"
               /\ Exists(rows'[c.id]) => c.fence <= rows'[c.id].fence
               /\ c.id \in S => c.fence < rows'[c.id].fence
               /\ c.id \notin S => rows'[c.id] = rows[c.id]
    <3>1. c.id \in Ids /\ c.fence \in Nat /\ rows[c.id].fence \in Nat
      BY DEF TypeOK, ClaimedJob, Row
    <3>2. rows[c.id].state # "absent"
          /\ (Exists(rows[c.id]) => c.fence <= rows[c.id].fence)
      BY Zenon DEF Fencing, NeverAhead
    <3>3. CASE c.id \in S BY <2>1, <3>1, <3>2, <3>3 DEF Exists
    <3>4. CASE c.id \notin S BY Zenon, <3>1, <3>2, <3>4 DEF Claim
    <3> QED BY Zenon, <3>3, <3>4
  <2>6. NeverAhead'
    <3>1. ASSUME NEW c \in held'[w]
          PROVE  rows'[c.id].state # "absent" /\ c.fence <= rows'[c.id].fence
      BY <2>1, <2>4 DEF TypeOK, ClaimedJob
    <3> QED BY Zenon, <2>3, <2>5, <3>1 DEF NeverAhead
  <2>7. LiveFits'
    <3>1. ASSUME NEW c \in held'[w]
          PROVE  /\ rows'[c.id].state = "leased"
                 /\ c.args = rows'[c.id].args
                 /\ c.attempts = rows'[c.id].attempts
      BY <2>1, <2>4
    <3>2. ASSUME NEW v \in Workers \ {w}, NEW c \in held'[v], Live(c)'
          PROVE  /\ rows'[c.id].state = "leased"
                 /\ c.args = rows'[c.id].args
                 /\ c.attempts = rows'[c.id].attempts
      <4>1. c \in held[v] BY Zenon, <2>3
      <4>2. c.fence \in Nat /\ c.id \in Ids /\ rows'[c.id].fence \in Nat
        BY <4>1 DEF TypeOK, ClaimedJob, Row
      <4>3. c.id \notin S BY <2>5, <3>2, <4>1, <4>2 DEF Live
      <4>4. rows'[c.id] = rows[c.id] BY Zenon, <2>5, <4>1, <4>3
      <4> QED BY <3>2, <4>1, <4>4 DEF Live, Fencing, LiveFits
    <3> QED BY Zenon, <3>1, <3>2 DEF LiveFits
  <2>8. Distinct'
    <3> SUFFICES ASSUME NEW w1 \in Workers, NEW w2 \in Workers,
                        NEW c1 \in held'[w1], NEW c2 \in held'[w2],
                        c1.id = c2.id, c1.fence = c2.fence
                 PROVE  w1 = w2 /\ c1 = c2
        BY Zenon DEF Distinct
    <3>0. /\ c1.fence \in Nat /\ c1.id \in Ids /\ rows'[c1.id].fence \in Nat
          /\ c2.fence \in Nat /\ c2.id \in Ids
      BY DEF TypeOK, ClaimedJob, Row
    <3>1. CASE w1 = w /\ w2 = w BY <2>1, <2>4, <3>1
    <3>2. CASE w1 = w /\ w2 # w BY <2>1, <2>3, <2>4, <2>5, <3>0, <3>2
    <3>3. CASE w1 # w /\ w2 = w BY <2>1, <2>3, <2>4, <2>5, <3>0, <3>3
    <3>4. CASE w1 # w /\ w2 # w BY <2>3, <3>4 DEF Fencing, Distinct
    <3> QED BY Zenon, <3>1, <3>2, <3>3, <3>4
  <2> QED BY Zenon, <2>6, <2>7, <2>8 DEF Fencing
<1> QED BY <1>2, <1>3 DEF Claim

(* A settled claim is forgotten by the only process that held that fence.   *)
LEMMA SettleKeepsFencing ==
    ASSUME TypeOK, TypeOK', Fencing, NEW w \in Workers, NEW c \in held[w],
           held' = [held EXCEPT ![w] = @ \ {c}], Live(c),
           NEW r \in Row, rows' = [rows EXCEPT ![c.id] = r],
           r.state # "absent", r.fence = rows[c.id].fence
    PROVE  Fencing'
<1>1. c.id \in Ids BY DEF TypeOK, ClaimedJob
<1>2. \A v \in Workers : held'[v] \subseteq held[v] BY Zenon DEF TypeOK
<1>3. \A v \in Workers : \A d \in held'[v] : d.id = c.id => d.fence # rows[c.id].fence
  <2> SUFFICES ASSUME NEW v \in Workers, NEW d \in held'[v], d.id = c.id,
                      d.fence = rows[c.id].fence
               PROVE  FALSE
      BY Zenon
  <2>1. d \in held[v] BY Zenon, <1>2
  <2>2. v = w /\ d = c BY Zenon, <2>1 DEF Fencing, Distinct, Live
  <2> QED BY Zenon, <2>2 DEF TypeOK
<1>4. Unclaimed(c.id) BY Zenon, <1>1, <1>3 DEF Unclaimed, Live, Exists, TypeOK
<1>5. \A i \in Ids : Harmless(i) BY <1>1, <1>4 DEF Harmless, SameFor, TypeOK
<1> QED BY Zenon, <1>2, <1>5, HarmlessKeepsFencing

LEMMA FencingStep ==
    ASSUME TypeOK, TypeOK', Fencing, [Next]_vars
    PROVE  Fencing'
<1> DEFINE Shrinks == \A w \in Workers : held'[w] \subseteq held[w]
<1>0. ASSUME UNCHANGED rows, Shrinks PROVE Fencing'
  BY Zenon, <1>0, HarmlessKeepsFencing DEF Harmless, SameFor
<1>1. CASE UNCHANGED vars BY Zenon, <1>0, <1>1 DEF vars
<1>2. ASSUME NEW i \in Ids, CallerStep(i) PROVE Fencing'
  <2>0. UNCHANGED held => Shrinks BY Zenon
  <2>00. rows[i] \in Row /\ rows[i].fence \in Nat BY Zenon DEF TypeOK, Row
  <2>1. ASSUME NEW k \in Keys \cup {NoKey}, NEW a \in Payloads, NEW m \in RowBudgets,
               NEW d \in Delays, NEW watched \in BOOLEAN, Enqueue(i, k, a, m, d, watched)
        PROVE  Fencing'
    <3>1. Unclaimed(i) BY Zenon, <2>1, InsertedFields DEF Enqueue, Unclaimed, Exists, TypeOK
    <3>2. \A j \in Ids : Harmless(j)
      BY Zenon, <2>1, <3>1 DEF Enqueue, Harmless, SameFor, TypeOK
    <3> QED BY Zenon, <2>0, <2>1, <3>2, HarmlessKeepsFencing DEF Enqueue, procVars
  <2>2. ASSUME NEW a \in Payloads, NEW d \in Delays, Coalesce(i, a, d) PROVE Fencing'
    <3>1. CASE rows[i].state = "ready"
      <4>1. Unclaimed(i)
        <5>1. rows'[i].state = "ready" /\ rows'[i].fence = rows[i].fence
          BY <2>00, <2>2, <3>1, CoalesceFields DEF Coalesce, TypeOK
        <5>2. \A w \in Workers : \A c \in held'[w] :
                 c.id = i /\ Exists(rows[i]) => c.fence # rows[i].fence
          BY Zenon, <2>2, <3>1 DEF Coalesce, procVars, Fencing, LiveFits, Live
        <5> QED BY Zenon, <3>1, <5>1, <5>2 DEF Unclaimed
      <4>2. \A j \in Ids : Harmless(j)
        BY Zenon, <2>2, <4>1 DEF Coalesce, Harmless, SameFor, TypeOK
      <4> QED BY Zenon, <2>0, <2>2, <4>2, HarmlessKeepsFencing DEF Coalesce, procVars
    <3>2. CASE rows[i].state # "ready"
      <4>1. \A j \in Ids : rows'[j] = rows[j]
        BY <2>00, <2>2, <3>2, CoalesceFields DEF Coalesce, TypeOK
      <4>2. \A j \in Ids : Harmless(j) BY Zenon, <4>1 DEF Harmless, SameFor
      <4> QED BY Zenon, <2>0, <2>2, <4>2, HarmlessKeepsFencing DEF Coalesce, procVars
    <3> QED BY Zenon, <3>1, <3>2
  <2>3. CASE Seed(i) BY Zenon, <1>0, <2>0, <2>3 DEF Seed, procVars
  <2>4. CASE SeedDuplicate(i) BY Zenon, <1>0, <2>0, <2>4 DEF SeedDuplicate, procVars
  <2>5. CASE Cancel(i)
    <3>1. Fenced(i) BY Zenon, <2>00, <2>5, CancelledFields DEF Cancel, Fenced, Exists, TypeOK
    <3>2. \A j \in Ids : Harmless(j) BY Zenon, <2>5, <3>1 DEF Cancel, Harmless, SameFor, TypeOK
    <3> QED BY Zenon, <2>0, <2>5, <3>2, HarmlessKeepsFencing DEF Cancel, procVars
  <2>6. CASE Purge(i)
    <3>1. \A j \in Ids : Harmless(j)
      BY Zenon, <2>6, PurgedFields DEF Purge, Harmless, SameFor, TypeOK
    <3> QED BY Zenon, <2>0, <2>6, <3>1, HarmlessKeepsFencing DEF Purge, procVars
  <2> QED BY Zenon, <1>2, <2>1, <2>2, <2>3, <2>4, <2>5, <2>6 DEF CallerStep
<1>3. ASSUME NEW w \in Workers, WorkerStep(w) PROVE Fencing'
  <2>0. UNCHANGED held => Shrinks BY Zenon
  <2>1. ASSUME NEW S \in SUBSET Ids, Claim(w, S) PROVE Fencing'
    BY Zenon, <2>1, ClaimKeepsFencing
  <2>2. ASSUME NEW c \in held[w], Begin(w, c) PROVE Fencing'
    BY Zenon, <1>0, <2>0, <2>2 DEF Begin
  <2>3. ASSUME NEW c \in held[w], Settle(w, c) PROVE Fencing'
    <3>1. CASE UNCHANGED rows
      <4>1. Shrinks BY Zenon, <2>3 DEF Settle, TypeOK
      <4> QED BY Zenon, <1>0, <3>1, <4>1
    <3>2. CASE Live(c) /\ \E r \in Outcomes(w, c) : rows' = [rows EXCEPT ![c.id] = r]
      <4>1. PICK r \in Outcomes(w, c) : rows' = [rows EXCEPT ![c.id] = r] BY Zenon, <3>2
      <4>2. r \in Row /\ r.state # "absent" /\ r.fence = rows[c.id].fence
        BY Zenon, <2>3, OutcomesAreRows, OutcomeFields DEF Settle
      <4>3. held' = [held EXCEPT ![w] = @ \ {c}] BY Zenon, <2>3 DEF Settle
      <4> QED BY Zenon, <3>2, <4>1, <4>2, <4>3, SettleKeepsFencing
    <3> QED BY Zenon, <2>3, <3>1, <3>2 DEF Settle, Record
  <2>4. ASSUME NEW c \in held[w], Release(w, c) PROVE Fencing'
    <3>1. CASE UNCHANGED rows
      <4>1. Shrinks BY Zenon, <2>4 DEF Release, TypeOK
      <4> QED BY <1>0, <3>1, <4>1
    <3>2. CASE Live(c) /\ rows' = [rows EXCEPT ![c.id] = Released(@)]
      <4>1. c.id \in Ids /\ rows[c.id] \in Row BY DEF TypeOK, ClaimedJob
      <4>2. Released(rows[c.id]) \in Row BY <4>1, RowsStayRows
      <4>3. /\ Released(rows[c.id]).state # "absent"
            /\ Released(rows[c.id]).fence = rows[c.id].fence
        BY <4>1, ReleasedFields
      <4>4. held' = [held EXCEPT ![w] = @ \ {c}] BY Zenon, <2>4 DEF Release
      <4>5. rows' = [rows EXCEPT ![c.id] = Released(rows[c.id])] BY Zenon, <3>2
      <4> QED BY Zenon, <3>2, <4>2, <4>3, <4>4, <4>5, SettleKeepsFencing
    <3> QED BY Zenon, <2>4, <3>1, <3>2 DEF Release
  <2>5. CASE Report(w) BY Zenon, <1>0, <2>0, <2>5 DEF Report, procVars
  <2>6. CASE HandlerEnds(w) BY Zenon, <1>0, <2>0, <2>6 DEF HandlerEnds
  <2>7. CASE HandlerCancelsItself(w)
    <3>1. Shrinks BY Zenon, <2>7 DEF HandlerCancelsItself, Unstarted, TypeOK
    <3> QED BY Zenon, <1>0, <2>7, <3>1 DEF HandlerCancelsItself
  <2>8. CASE Exit(w) BY Zenon, <1>0, <2>0, <2>8 DEF Exit
  <2>9. CASE Stop(w) BY Zenon, <1>0, <2>0, <2>9 DEF Stop
  <2>10. CASE Drain(w) BY Zenon, <1>0, <2>0, <2>10 DEF Drain
  <2>11. CASE Halt(w)
    <3>1. Shrinks BY Zenon, <2>11 DEF Halt, TypeOK
    <3> QED BY Zenon, <1>0, <2>11, <3>1 DEF Halt
  <2>12. CASE Restart(w) BY Zenon, <1>0, <2>0, <2>12 DEF Restart
  <2> QED BY Zenon, <1>3, <2>1, <2>2, <2>3, <2>4, <2>5, <2>6, <2>7, <2>8, <2>9, <2>10,
             <2>11, <2>12 DEF WorkerStep
<1>4. CASE ReclaimExpired
  <2>1. \A i \in Ids : Harmless(i)
    <3> SUFFICES ASSUME NEW i \in Ids PROVE Harmless(i)
        BY Zenon
    <3>1. rows[i] \in Row /\ rows[i].attempts \in Nat BY Zenon DEF TypeOK, Row
    <3>2. CASE Expired(rows[i])
      BY Zenon, <1>4, <3>1, <3>2, ReclaimedFields
         DEF ReclaimExpired, Harmless, Fenced, Exists, Expired
    <3>3. CASE ~Expired(rows[i]) BY Zenon, <1>4, <3>3 DEF ReclaimExpired, Harmless, SameFor
    <3> QED BY Zenon, <3>2, <3>3
  <2>2. Shrinks BY Zenon, <1>4 DEF ReclaimExpired, procVars
  <2> QED BY Zenon, <2>1, <2>2, HarmlessKeepsFencing
<1>5. CASE Tick
  <2>1. \A i \in Ids : Harmless(i)
    BY Zenon, <1>5, AgedFields DEF Tick, Harmless, SameFor, TypeOK
  <2>2. Shrinks BY Zenon, <1>5 DEF Tick
  <2> QED BY <2>1, <2>2, HarmlessKeepsFencing
<1> QED BY Zenon, <1>1, <1>2, <1>3, <1>4, <1>5 DEF Next

LEMMA FencingHolds == Spec => []Fencing
<1>1. Init => Fencing BY Zenon DEF Init, Fencing, NeverAhead, LiveFits, Distinct
<1>2. TypeOK /\ TypeOK' /\ Fencing /\ [Next]_vars => Fencing' BY FencingStep
<1> QED BY <1>1, <1>2, TypeCorrect, PTL DEF Spec

(* At most one process can move a row, and only while the row is leased:    *)
(* the fence of _leased.py is exclusive for any fleet, whatever crashes,    *)
(* expires, is lost or is cancelled.                                        *)
THEOREM FenceIsExclusive == Spec => []SoleHolder
<1>1. Fencing => SoleHolder
  BY DEF Fencing, LiveFits, Distinct, SoleHolder, Holders, Live
<1> QED BY <1>1, FencingHolds, PTL

(* The arguments and the attempt number of every claim that still counts    *)
(* are the row's: enqueue(coalesce=True) and the sweeper never change them  *)
(* under a running handler.                                                 *)
THEOREM InputsAreCurrent == Spec => []RunsCurrentInputs
<1>1. Fencing => RunsCurrentInputs BY DEF Fencing, LiveFits, RunsCurrentInputs
<1> QED BY <1>1, FencingHolds, PTL
=============================================================================
