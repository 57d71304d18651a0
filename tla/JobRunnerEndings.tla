-------------------------- MODULE JobRunnerEndings --------------------------
(***************************************************************************)
(* How a row may change in one step, for every fleet, and what follows:     *)
(* redelivery is bounded, the endings a client is told of are true, the     *)
(* runner is a leased, fenced queue (it implements FencedWork), and the     *)
(* deadline of a handler that starts at once runs out before its lease.     *)
(* Last, when the properties that fail in general do hold.                  *)
(***************************************************************************)
EXTENDS JobRunnerFence

(* Every way a step may change row i, with the condition it does so under.  *)
RowStep(i) ==
    \/ rows'[i] = rows[i]
    \/ Tick /\ rows'[i] = Aged(rows[i])
    \/ /\ rows[i].state = "absent"
       /\ \E k \in Keys \cup {NoKey}, a \in Payloads, m \in RowBudgets, d \in Delays :
             rows'[i] = Inserted(k, a, m, d)
    \/ \E a \in Payloads, d \in Delays : rows'[i] = Coalesced(rows[i], a, d)
    \/ Due(rows[i]) /\ rows'[i] = Claimed(rows[i])
    \/ \E w \in Workers : \E c \in held[w] :
          c.id = i /\ Live(c) /\ pc[w] \in Settling /\ rows'[i] \in Outcomes(w, c)
    \/ \E w \in Workers : \E c \in Unstarted(w) :
          /\ c.id = i /\ Live(c) /\ proc[w] = "releasing"
          /\ rows[i].state = "leased" /\ rows'[i] = Released(rows[i])
    \/ Expired(rows[i]) /\ rows'[i] = Reclaimed(rows[i])
    \/ rows[i].state \in {"ready", "leased"} /\ rows'[i] = Cancelled(rows[i])
    \/ rows[i].state \in {"done", "dead"} /\ rows'[i] = Purged(rows[i])

LEMMA EveryStepIsARowStep ==
    ASSUME TypeOK, [Next]_vars, NEW i \in Ids
    PROVE  RowStep(i)
<1>0. UNCHANGED rows => RowStep(i) BY DEF RowStep
<1>1. CASE UNCHANGED vars BY <1>0, <1>1 DEF vars
<1>2. ASSUME NEW j \in Ids, CallerStep(j) PROVE RowStep(i)
  <2>0. ASSUME NEW r, rows' = [rows EXCEPT ![j] = r], i # j PROVE RowStep(i)
    BY Zenon, <2>0 DEF RowStep, TypeOK
  <2>1. ASSUME NEW k \in Keys \cup {NoKey}, NEW a \in Payloads, NEW m \in RowBudgets,
               NEW d \in Delays, NEW watched \in BOOLEAN, Enqueue(j, k, a, m, d, watched)
        PROVE  RowStep(i)
    BY Zenon, <2>0, <2>1 DEF Enqueue, RowStep, TypeOK
  <2>2. ASSUME NEW a \in Payloads, NEW d \in Delays, Coalesce(j, a, d) PROVE RowStep(i)
    BY <2>0, <2>2 DEF Coalesce, RowStep, TypeOK
  <2>3. CASE Seed(j) BY <1>0, <2>3 DEF Seed
  <2>4. CASE SeedDuplicate(j) BY Zenon, <1>0, <2>4 DEF SeedDuplicate
  <2>5. CASE Cancel(j) BY Zenon, <2>0, <2>5 DEF Cancel, RowStep, TypeOK
  <2>6. CASE Purge(j) BY Zenon, <2>0, <2>6 DEF Purge, RowStep, TypeOK
  <2> QED BY Zenon, <1>2, <2>1, <2>2, <2>3, <2>4, <2>5, <2>6 DEF CallerStep
<1>3. ASSUME NEW w \in Workers, WorkerStep(w) PROVE RowStep(i)
  <2>1. ASSUME NEW S \in SUBSET Ids, Claim(w, S) PROVE RowStep(i)
    BY <2>1 DEF Claim, RowStep
  <2>2. ASSUME NEW c \in held[w], Begin(w, c) PROVE RowStep(i)
    BY <1>0, <2>2 DEF Begin
  <2>3. ASSUME NEW c \in held[w], Settle(w, c) PROVE RowStep(i)
    <3>1. CASE UNCHANGED rows BY <1>0, <3>1
    <3>2. CASE Live(c) /\ \E r \in Outcomes(w, c) : rows' = [rows EXCEPT ![c.id] = r]
      <4>1. PICK r \in Outcomes(w, c) : rows' = [rows EXCEPT ![c.id] = r] BY Zenon, <3>2
      <4>2. CASE i # c.id BY <4>1, <4>2 DEF RowStep, TypeOK
      <4>3. CASE i = c.id
        <5>1. rows'[i] = r BY <4>1, <4>3 DEF TypeOK
        <5> QED BY <2>3, <3>2, <4>3, <5>1 DEF Settle, RowStep
      <4> QED BY <4>2, <4>3
    <3> QED BY <2>3, <3>1, <3>2 DEF Settle, Record
  <2>4. ASSUME NEW c \in held[w], Release(w, c) PROVE RowStep(i)
    <3>1. CASE UNCHANGED rows BY <1>0, <3>1
    <3>2. CASE /\ Live(c) /\ rows[c.id].state = "leased"
               /\ rows' = [rows EXCEPT ![c.id] = Released(@)]
      BY <2>4, <3>2 DEF Release, RowStep, TypeOK
    <3> QED BY <2>4, <3>1, <3>2 DEF Release
  <2>5. CASE Report(w) BY <1>0, <2>5 DEF Report
  <2>6. CASE HandlerEnds(w) BY <1>0, <2>6 DEF HandlerEnds
  <2>7. CASE HandlerCancelsItself(w) BY <1>0, <2>7 DEF HandlerCancelsItself
  <2>8. CASE Exit(w) BY <1>0, <2>8 DEF Exit
  <2>9. CASE Stop(w) BY <1>0, <2>9 DEF Stop
  <2>10. CASE Drain(w) BY <1>0, <2>10 DEF Drain
  <2>11. CASE Halt(w) BY <1>0, <2>11 DEF Halt
  <2>12. CASE Restart(w) BY Zenon, <1>0, <2>12 DEF Restart
  <2> QED BY Zenon, <1>3, <2>1, <2>2, <2>3, <2>4, <2>5, <2>6, <2>7, <2>8, <2>9, <2>10,
             <2>11, <2>12 DEF WorkerStep
<1>4. CASE ReclaimExpired BY Zenon, <1>4 DEF ReclaimExpired, RowStep
<1>5. CASE Tick BY Zenon, <1>5 DEF Tick, RowStep
<1> QED BY <1>1, <1>2, <1>3, <1>4, <1>5 DEF Next

(* The inductive form of AttemptsBounded: a leased row, like a ready one,   *)
(* has an attempt left in one of the two budgets.                           *)
Affordable(r) ==
    /\ r.attempts <= r.budget \/ r.attempts <= TaskBudget
    /\ r.state \in {"ready", "leased"} => r.attempts < r.budget \/ r.attempts < TaskBudget

LEMMA AffordableStep ==
    ASSUME TypeOK, Fencing, NEW i \in Ids, Affordable(rows[i]), RowStep(i)
    PROVE  Affordable(rows'[i])
<1>0. /\ rows[i] \in Row
      /\ rows[i].attempts \in Nat /\ rows[i].budget \in Nat /\ TaskBudget \in Nat \ {0}
  BY Zenon, RowsAssumption DEF TypeOK, Row
<1>1. CASE rows'[i] = rows[i] BY Zenon, <1>1
<1>2. CASE rows'[i] = Aged(rows[i]) BY Zenon, <1>0, <1>2, AgedFields DEF Affordable
<1>3. ASSUME NEW k \in Keys \cup {NoKey}, NEW a \in Payloads, NEW m \in RowBudgets,
             NEW d \in Delays, rows'[i] = Inserted(k, a, m, d)
      PROVE  Affordable(rows'[i])
  BY <1>0, <1>3, InsertedFields DEF Affordable
<1>4. ASSUME NEW a \in Payloads, NEW d \in Delays, rows'[i] = Coalesced(rows[i], a, d)
      PROVE  Affordable(rows'[i])
  BY <1>0, <1>4, CoalesceFields DEF Affordable
<1>5. CASE Due(rows[i]) /\ rows'[i] = Claimed(rows[i])
  BY Zenon, <1>0, <1>5, ClaimedFields DEF Affordable, Due
<1>6. ASSUME NEW w \in Workers, NEW c \in held[w], c.id = i, Live(c), pc[w] \in Settling,
             rows'[i] \in Outcomes(w, c)
      PROVE  Affordable(rows'[i])
  <2>1. rows[i].state = "leased" /\ c.attempts = rows[i].attempts
    BY Zenon, <1>6 DEF Fencing, LiveFits
  <2>2. /\ rows'[i].state \in {"done", "dead", "ready"}
        /\ rows'[i].budget = rows[i].budget
        /\ rows'[i].attempts \in {rows[i].attempts, rows[i].attempts + 1}
        /\ rows'[i].state = "ready" => rows'[i].attempts < TaskBudget
                                       \/ rows'[i].attempts < rows[i].budget
    BY Zenon, <1>6, <2>1, OutcomeFields
  <2> QED BY <1>0, <2>1, <2>2 DEF Affordable
<1>7. CASE rows[i].state = "leased" /\ rows'[i] = Released(rows[i])
  BY Zenon, <1>0, <1>7, ReleasedFields DEF Affordable
<1>8. CASE Expired(rows[i]) /\ rows'[i] = Reclaimed(rows[i])
  BY <1>0, <1>8, ReclaimedFields DEF Affordable, Expired
<1>9. CASE rows[i].state \in {"ready", "leased"} /\ rows'[i] = Cancelled(rows[i])
  BY Zenon, <1>0, <1>9, CancelledFields DEF Affordable
<1>10. CASE rows'[i] = Purged(rows[i])
  BY <1>0, <1>10, PurgedFields DEF Affordable
<1> QED BY Zenon, <1>1, <1>2, <1>3, <1>4, <1>5, <1>6, <1>7, <1>8, <1>9, <1>10 DEF RowStep

(* No job is attempted more often than the larger of its two budgets, a     *)
(* handler that keeps killing its process included: _fail and the sweeper   *)
(* together bound redelivery.                                               *)
THEOREM RedeliveryIsBounded == Spec => []AttemptsBounded
<1> DEFINE Inv == \A i \in Ids : Affordable(rows[i])
<1>1. Init => Inv
  <2>1. Affordable(AbsentRow)
    <3>1. 0 <= TaskBudget BY RowsAssumption
    <3> QED BY <3>1, AbsentFields DEF Affordable
  <2>2. ASSUME Init, NEW i \in Ids PROVE rows[i] = AbsentRow BY <2>2 DEF Init
  <2> QED BY Zenon, <2>1, <2>2
<1>2. TypeOK /\ Fencing /\ Inv /\ [Next]_vars => Inv'
  BY AffordableStep, EveryStepIsARowStep
<1>3. Inv => AttemptsBounded BY Zenon DEF AttemptsBounded, Affordable
<1> QED BY <1>1, <1>2, <1>3, TypeCorrect, FencingHolds, PTL DEF Spec

-----------------------------------------------------------------------------
(* Endings and the reports of them.                                         *)

(* An ending is final: done and dead rows only ever leave the table.        *)
LEMMA EndingsAreFinal ==
    ASSUME TypeOK, Fencing, NEW i \in Ids, RowStep(i)
    PROVE  /\ rows[i].state = "done" => rows'[i].state \in {"done", "purged"}
           /\ rows[i].state = "dead" => rows'[i].state \in {"dead", "purged"}
           /\ rows[i].state = "purged" => rows'[i].state = "purged"
<1>0. rows[i] \in Row BY Zenon DEF TypeOK
<1>1. CASE rows'[i] = rows[i] BY Zenon, <1>1
<1>2. CASE rows'[i] = Aged(rows[i]) BY <1>0, <1>2, AgedFields
<1>3. CASE rows[i].state \in {"absent", "ready", "leased"} BY <1>3
<1>4. ASSUME NEW a \in Payloads, NEW d \in Delays, rows'[i] = Coalesced(rows[i], a, d)
      PROVE  rows'[i].state = rows[i].state
  BY <1>0, <1>4, CoalesceFields
<1>5. ASSUME NEW w \in Workers, NEW c \in held[w], c.id = i, Live(c)
      PROVE  rows[i].state = "leased"
  BY <1>5 DEF Fencing, LiveFits
<1>6. CASE rows'[i] = Purged(rows[i]) /\ rows[i].state \in {"done", "dead"}
  BY Zenon, <1>6, PurgedFields
<1> QED BY <1>1, <1>2, <1>3, <1>4, <1>5, <1>6 DEF RowStep, Due, Expired

(* A report changes to "open" or to the ending its row has just reached.    *)
ReportStep(i) ==
    \/ told'[i] \in {told[i], "open"}
    \/ told'[i] = "done" /\ rows'[i].state = "done"
    \/ told'[i] = "failed" /\ rows'[i].state = "dead"

LEMMA EveryStepIsAReportStep ==
    ASSUME TypeOK, [Next]_vars, NEW i \in Ids
    PROVE  ReportStep(i)
<1>0. UNCHANGED told => ReportStep(i) BY DEF ReportStep
<1>1. CASE UNCHANGED vars BY Zenon, <1>0, <1>1 DEF vars
<1>2. ASSUME NEW j \in Ids, CallerStep(j) PROVE ReportStep(i)
  <2>1. ASSUME NEW k \in Keys \cup {NoKey}, NEW a \in Payloads, NEW m \in RowBudgets,
               NEW d \in Delays, NEW watched \in BOOLEAN, Enqueue(j, k, a, m, d, watched)
        PROVE  ReportStep(i)
    BY <1>0, <2>1 DEF Enqueue
  <2>2. ASSUME NEW a \in Payloads, NEW d \in Delays, Coalesce(j, a, d) PROVE ReportStep(i)
    BY <1>0, <2>2 DEF Coalesce
  <2>3. CASE Seed(j) BY Zenon, <2>3 DEF Seed, Tell, ReportStep, TypeOK
  <2>4. CASE SeedDuplicate(j) BY <2>4 DEF SeedDuplicate, Tell, ReportStep, TypeOK
  <2>5. CASE Cancel(j)
    <3>1. rows[j] \in Row BY DEF TypeOK
    <3>2. rows'[j].state = "dead" BY <2>5, <3>1, CancelledFields DEF Cancel, TypeOK
    <3> QED BY <2>5, <3>2 DEF Cancel, Tell, ReportStep, TypeOK
  <2>6. CASE Purge(j) BY Zenon, <1>0, <2>6 DEF Purge
  <2> QED BY Zenon, <1>2, <2>1, <2>2, <2>3, <2>4, <2>5, <2>6 DEF CallerStep
<1>3. ASSUME NEW w \in Workers, WorkerStep(w) PROVE ReportStep(i)
  <2>1. ASSUME NEW S \in SUBSET Ids, Claim(w, S) PROVE ReportStep(i)
    BY Zenon, <1>0, <2>1 DEF Claim
  <2>2. ASSUME NEW c \in held[w], Begin(w, c) PROVE ReportStep(i)
    BY Zenon, <1>0, <2>2 DEF Begin
  <2>3. ASSUME NEW c \in held[w], Settle(w, c) PROVE ReportStep(i)
    <3>1. CASE UNCHANGED told BY <1>0, <3>1
    <3>2. ASSUME NEW r \in Outcomes(w, c), rows' = [rows EXCEPT ![c.id] = r],
                 Tell(c.id, ReportFor(r, told[c.id]))
          PROVE  ReportStep(i)
      <4>1. c.id \in Ids BY DEF TypeOK, ClaimedJob
      <4>2. rows'[c.id] = r BY Zenon, <3>2, <4>1 DEF TypeOK
      <4> QED BY Zenon, <3>2, <4>1, <4>2 DEF Tell, ReportFor, ReportStep, TypeOK
    <3> QED BY <2>3, <3>1, <3>2 DEF Settle, Record
  <2>4. ASSUME NEW c \in held[w], Release(w, c) PROVE ReportStep(i)
    BY Zenon, <1>0, <2>4 DEF Release
  <2>5. CASE Report(w) BY <2>5 DEF Report, Tell, ReportStep, TypeOK
  <2>6. CASE HandlerEnds(w) BY <1>0, <2>6 DEF HandlerEnds
  <2>7. CASE HandlerCancelsItself(w) BY <1>0, <2>7 DEF HandlerCancelsItself
  <2>8. CASE Exit(w) BY <1>0, <2>8 DEF Exit
  <2>9. CASE Stop(w) BY <1>0, <2>9 DEF Stop
  <2>10. CASE Drain(w) BY <1>0, <2>10 DEF Drain
  <2>11. CASE Halt(w) BY <1>0, <2>11 DEF Halt
  <2>12. CASE Restart(w) BY <1>0, <2>12 DEF Restart
  <2> QED BY <1>3, <2>1, <2>2, <2>3, <2>4, <2>5, <2>6, <2>7, <2>8, <2>9, <2>10,
             <2>11, <2>12 DEF WorkerStep
<1>4. CASE ReclaimExpired BY <1>0, <1>4 DEF ReclaimExpired
<1>5. CASE Tick BY <1>0, <1>5 DEF Tick
<1> QED BY <1>1, <1>2, <1>3, <1>4, <1>5 DEF Next

(* _report_terminal and cancel announce an ending only when their statement *)
(* moved the row, and an ending is final: what a client was told stays true. *)
THEOREM ReportsStayTrue == Spec => []ReportsAreTrue
<1>1. Init => ReportsAreTrue BY Zenon DEF Init, ReportsAreTrue
<1>2. TypeOK /\ Fencing /\ ReportsAreTrue /\ [Next]_vars => ReportsAreTrue'
  <2> SUFFICES ASSUME TypeOK, Fencing, ReportsAreTrue, [Next]_vars, NEW i \in Ids
               PROVE  /\ told'[i] = "done" => rows'[i].state \in {"done", "purged"}
                      /\ told'[i] = "failed" => rows'[i].state \in {"dead", "purged"}
      BY DEF ReportsAreTrue
  <2>1. RowStep(i) /\ ReportStep(i) BY EveryStepIsARowStep, EveryStepIsAReportStep
  <2>2. /\ told[i] = "done" => rows[i].state \in {"done", "purged"}
        /\ told[i] = "failed" => rows[i].state \in {"dead", "purged"}
    BY DEF ReportsAreTrue
  <2> QED BY <2>1, <2>2, EndingsAreFinal DEF ReportStep
<1> QED BY <1>1, <1>2, TypeCorrect, FencingHolds, PTL DEF Spec

-----------------------------------------------------------------------------
(* A process gains a claim only by leasing a ready row.                     *)
LEMMA ClaimsComeFromReadyRows ==
    ASSUME TypeOK, [Next]_vars, NEW w \in Workers, NEW c \in held'[w]
    PROVE  c \in held[w] \/ rows[c.id].state = "ready"
<1>0. held'[w] \subseteq held[w] => c \in held[w] OBVIOUS
<1>1. CASE UNCHANGED vars BY <1>1 DEF vars
<1>2. ASSUME NEW i \in Ids, CallerStep(i) PROVE c \in held[w]
  BY <1>2, CallersTouchNoProcess DEF SameProcess
<1>3. ASSUME NEW v \in Workers, WorkerStep(v), v # w PROVE c \in held[w]
  BY Zenon, <1>3, StepsAreLocal DEF SameProcess
<1>4. ASSUME WorkerStep(w) PROVE c \in held[w] \/ rows[c.id].state = "ready"
  <2>1. ASSUME NEW S \in SUBSET Ids, Claim(w, S)
        PROVE  c \in held[w] \/ rows[c.id].state = "ready"
    <3>1. CASE UNCHANGED held BY Zenon, <3>1
    <3>2. CASE held' = [held EXCEPT ![w] = {ClaimOf(i) : i \in S}]
      <4>1. PICK i \in S : c = ClaimOf(i) BY <3>2 DEF TypeOK
      <4> QED BY Zenon, <2>1, <4>1 DEF Claim, ClaimOf, Due
    <3> QED BY Zenon, <2>1, <3>1, <3>2 DEF Claim
  <2>2. ASSUME NEW d \in held[w], Begin(w, d) PROVE c \in held[w] BY <2>2 DEF Begin
  <2>3. ASSUME NEW d \in held[w], Settle(w, d) PROVE c \in held[w]
    BY Zenon, <2>3 DEF Settle, TypeOK
  <2>4. ASSUME NEW d \in held[w], Release(w, d) PROVE c \in held[w]
    BY <2>4 DEF Release, TypeOK
  <2>5. CASE Report(w) BY Zenon, <2>5 DEF Report, procVars
  <2>6. CASE HandlerEnds(w) BY Zenon, <2>6 DEF HandlerEnds
  <2>7. CASE HandlerCancelsItself(w) BY Zenon, <2>7 DEF HandlerCancelsItself, Unstarted, TypeOK
  <2>8. CASE Exit(w) BY Zenon, <2>8 DEF Exit
  <2>9. CASE Stop(w) BY <2>9 DEF Stop
  <2>10. CASE Drain(w) BY Zenon, <2>10 DEF Drain
  <2>11. CASE Halt(w) BY Zenon, <2>11 DEF Halt, TypeOK
  <2>12. CASE Restart(w) BY <2>12 DEF Restart
  <2> QED BY Zenon, <1>4, <2>1, <2>2, <2>3, <2>4, <2>5, <2>6, <2>7, <2>8, <2>9, <2>10,
             <2>11, <2>12 DEF WorkerStep
<1>5. CASE ReclaimExpired BY <1>5 DEF ReclaimExpired, procVars
<1>6. CASE Tick BY Zenon, <1>6 DEF Tick
<1> QED BY <1>1, <1>2, <1>3, <1>4, <1>5, <1>6 DEF Next

(* The mapping, row by row.                                                 *)
StatusOf(r) == IF r.state = "purged" THEN "gone" ELSE r.state

LEMMA EveryStepIsAPromisedStep ==
    ASSUME TypeOK, TypeOK', SoleHolder, SoleHolder', Fencing, [Next]_vars, NEW i \in Ids
    PROVE  \/ FW!Offer(i) \/ FW!Take(i) \/ FW!Settle(i) \/ FW!Drop(i)
           \/ FW!Revoke(i) \/ FW!Forget(i) \/ FW!Keep(i)
<1> DEFINE st == StatusOf(rows[i])
           stNext == StatusOf(rows'[i])
           hs == Holders(i)
           hsNext == Holders(i)'
<1>0. rows[i] \in Row /\ rows'[i] \in Row /\ RowStep(i)
  BY Zenon, EveryStepIsARowStep DEF TypeOK
<1>1. /\ hs # {} => rows[i].state = "leased"
      /\ hsNext # {} => rows'[i].state = "leased"
      /\ hsNext = {} \/ \E h \in Workers : hsNext = {h}
      /\ hs = {} \/ \E h \in Workers : hs = {h}
  <2>1. hs \subseteq Workers /\ hsNext \subseteq Workers BY DEF Holders
  <2> QED BY <2>1 DEF SoleHolder
<1>2. rows[i].state = "leased" /\ rows'[i].fence = rows[i].fence => hsNext \subseteq hs
  <2> SUFFICES ASSUME rows[i].state = "leased", rows'[i].fence = rows[i].fence,
                      NEW w \in Workers, NEW c \in held'[w], c.id = i, Live(c)'
               PROVE  \E d \in held[w] : d.id = i /\ Live(d)
      BY DEF Holders
  <2>1. c \in held[w] BY ClaimsComeFromReadyRows
  <2> QED BY Zenon, <2>1 DEF Live, Exists
<1> HIDE DEF hs, hsNext
<1>3. \/ st = "absent" /\ stNext = "ready" /\ hsNext = {}
      \/ st = "ready" /\ stNext = "leased" /\ (hsNext = {} \/ \E h \in Workers : hsNext = {h})
      \/ st = "leased" /\ hs # {} /\ stNext \in {"done", "dead", "ready"} /\ hsNext = {}
      \/ st = "leased" /\ stNext = "leased" /\ hsNext = {}
      \/ st \in {"ready", "leased"} /\ stNext \in {"ready", "dead"} /\ hsNext = {}
      \/ st \in {"done", "dead"} /\ stNext = "gone" /\ hsNext = {}
      \/ stNext = st /\ hsNext = hs
  <2>0. ASSUME rows'[i].state = rows[i].state, rows'[i].fence = rows[i].fence
        PROVE  \/ stNext = st /\ hsNext = hs
               \/ st = "leased" /\ stNext = "leased" /\ hsNext = {}
    <3>1. CASE rows[i].state = "leased"
      <4>1. hsNext \subseteq hs BY <1>2, <2>0, <3>1
      <4> QED BY <1>1, <2>0, <3>1, <4>1 DEF StatusOf
    <3>2. CASE rows[i].state # "leased" BY Zenon, <1>1, <2>0, <3>2 DEF StatusOf
    <3> QED BY <3>1, <3>2
  <2>1. CASE rows'[i] = rows[i] BY Zenon, <2>0, <2>1
  <2>2. CASE rows'[i] = Aged(rows[i]) BY Zenon, <1>0, <2>0, <2>2, AgedFields
  <2>3. ASSUME rows[i].state = "absent",
               NEW k \in Keys \cup {NoKey}, NEW a \in Payloads, NEW m \in RowBudgets,
               NEW d \in Delays, rows'[i] = Inserted(k, a, m, d)
        PROVE  st = "absent" /\ stNext = "ready" /\ hsNext = {}
    BY <1>1, <2>3, InsertedFields DEF StatusOf
  <2>4. ASSUME NEW a \in Payloads, NEW d \in Delays, rows'[i] = Coalesced(rows[i], a, d)
        PROVE  rows'[i].state = rows[i].state /\ rows'[i].fence = rows[i].fence
    <3>1. rows[i] \in Row BY Zenon, <1>0
    <3>2. /\ Coalesced(rows[i], a, d).state = rows[i].state
          /\ Coalesced(rows[i], a, d).fence = rows[i].fence
      BY Zenon, <3>1, CoalesceFields
    <3> QED BY <2>4, <3>2
  <2>5. CASE Due(rows[i]) /\ rows'[i] = Claimed(rows[i])
    BY Zenon, <1>0, <1>1, <2>5, ClaimedFields DEF StatusOf, Due
  <2>6. ASSUME NEW w \in Workers, NEW c \in held[w], c.id = i, Live(c),
               pc[w] \in Settling, rows'[i] \in Outcomes(w, c)
        PROVE  st = "leased" /\ hs # {} /\ stNext \in {"done", "dead", "ready"} /\ hsNext = {}
    <3>1. hs # {} BY Zenon, <2>6 DEF hs, Holders
    <3>2. rows'[i].state \in {"done", "dead", "ready"} BY Zenon, <2>6, OutcomeFields
    <3> QED BY Zenon, <1>1, <3>1, <3>2 DEF StatusOf
  <2>7. ASSUME NEW w \in Workers, NEW c \in Unstarted(w), c.id = i, Live(c),
               rows[i].state = "leased", rows'[i] = Released(rows[i])
        PROVE  st = "leased" /\ hs # {} /\ stNext \in {"done", "dead", "ready"} /\ hsNext = {}
    <3>1. hs # {} BY Zenon, <2>7 DEF hs, Holders, Unstarted
    <3>2. rows'[i].state = "ready" BY <1>0, <2>7, ReleasedFields
    <3> QED BY Zenon, <1>1, <3>1, <3>2 DEF StatusOf
  <2>8. CASE Expired(rows[i]) /\ rows'[i] = Reclaimed(rows[i])
    <3>1. rows'[i].state \in {"ready", "dead"} BY Zenon, <1>0, <2>8, ReclaimedFields
    <3> QED BY Zenon, <1>1, <2>8, <3>1 DEF StatusOf, Expired
  <2>9. CASE rows[i].state \in {"ready", "leased"} /\ rows'[i] = Cancelled(rows[i])
    <3>1. rows'[i].state = "dead" BY Zenon, <1>0, <2>9, CancelledFields
    <3> QED BY Zenon, <1>1, <2>9, <3>1 DEF StatusOf
  <2>10. CASE rows[i].state \in {"done", "dead"} /\ rows'[i] = Purged(rows[i])
    <3>1. rows'[i].state = "purged" BY <2>10, PurgedFields
    <3> QED BY Zenon, <1>1, <2>10, <3>1 DEF StatusOf
  <2> QED BY <1>0, <2>0, <2>1, <2>2, <2>3, <2>4, <2>5, <2>6, <2>7, <2>8, <2>9, <2>10,
             ZenonT(40) DEF RowStep
<1> QED BY Zenon, <1>3 DEF hs, hsNext, StatusOf, FW!Offer, FW!Take, FW!Settle, FW!Drop, FW!Revoke,
                    FW!Forget, FW!Keep, FW!Terminal

(* The runner implements FencedWork: a row is settled only by the one       *)
(* holder of its lease, is never done without one, and an ending is final.  *)
THEOREM RunnerIsFencedWork == Spec => ImplementsFencedWork
<1>1. Init => FW!Init
  <2>1. ASSUME Init, NEW i \in Ids PROVE rows[i].state = "absent" /\ Holders(i) = {}
    BY <2>1, AbsentFields DEF Init, Holders
  <2> QED BY <2>1 DEF FW!Init
<1>2. TypeOK /\ TypeOK' /\ SoleHolder /\ SoleHolder' /\ Fencing /\ [Next]_vars
        => [FW!Next]_(FW!abstractVars)
  BY Zenon, EveryStepIsAPromisedStep DEF FW!Next
<1> QED BY <1>1, <1>2, TypeCorrect, FenceIsExclusive, FencingHolds, PTL
        DEF Spec, ImplementsFencedWork, FW!Spec

-----------------------------------------------------------------------------
(* The lease of a handler that starts as soon as its claim is made.         *)

(* t ticks after its claim was sent, claim c has lease left for the rest,   *)
(* unless the job was cancelled.                                            *)
InLease(R, c, t) ==
    \/ R[c.id].state \in {"dead", "purged"}
    \/ Exists(R[c.id]) /\ R[c.id].fence = c.fence /\ R[c.id].left + t >= Lease

LeaseKept ==
    \A w \in Responsive :
        /\ pc[w] = "claiming" =>
             ran[w] <= Latency /\ \A c \in held[w] : InLease(rows, c, ran[w])
        /\ pc[w] = "running" /\ first[w] =>
             /\ ran[w] <= Deadline
             /\ \A c \in held[w] : c.id = cur[w] => InLease(rows, c, ran[w] + Latency)

(* Nobody but the passage of time shortens the lease of a claim its holder  *)
(* is not settling or handing back: it is not due, not expired, and no      *)
(* other process has its fence.                                             *)
LEMMA OnlyTimeEndsALease ==
    ASSUME TypeOK, Fencing, NEW w \in Workers, NEW c \in held[w], NEW t \in Nat, t < Lease,
           InLease(rows, c, t), RowStep(c.id), ~Tick,
           pc[w] \notin Settling, c \in Unstarted(w) => proc[w] # "releasing"
    PROVE  InLease(rows', c, t)
<1>0. /\ c.id \in Ids /\ rows[c.id] \in Row /\ rows[c.id].left \in Nat /\ Lease \in Nat
      /\ rows[c.id].fence \in Nat
  BY RowsAssumption DEF TypeOK, ClaimedJob, Row
<1>1. CASE rows[c.id].state \in {"dead", "purged"}
  BY Zenon, <1>0, <1>1, EndingsAreFinal DEF InLease
<1>2. CASE Live(c) /\ rows[c.id].left + t >= Lease       \* still leased
  <2>1. rows[c.id].state = "leased" BY Zenon, <1>2 DEF Fencing, LiveFits
  <2>2. ~Expired(rows[c.id]) BY <1>0, <1>2 DEF Expired
  <2>3. CASE rows'[c.id] = rows[c.id] BY Zenon, <1>2, <2>3 DEF InLease, Live
  <2>4. ASSUME NEW a \in Payloads, NEW d \in Delays, rows'[c.id] = Coalesced(rows[c.id], a, d)
        PROVE  rows'[c.id] = rows[c.id]
    BY Zenon, <1>0, <2>1, <2>4, CoalesceFields
  <2>5. ASSUME NEW v \in Workers, NEW d \in held[v], d.id = c.id, Live(d)
        PROVE  v = w /\ d = c
    BY Zenon, <1>2, <2>5 DEF Live, Fencing, Distinct
  <2>6. ~Due(rows[c.id]) /\ rows[c.id].state \notin {"absent", "done", "dead"}
    BY <2>1 DEF Due
  <2>7. CASE rows'[c.id] = Cancelled(rows[c.id])
    BY <1>0, <2>7, CancelledFields DEF InLease
  <2>8. ~ \E v \in Workers : \E d \in held[v] :
            d.id = c.id /\ Live(d) /\ pc[v] \in Settling
    BY <2>5
  <2>9. ~ \E v \in Workers : \E d \in Unstarted(v) :
            d.id = c.id /\ Live(d) /\ proc[v] = "releasing"
    BY <2>5 DEF Unstarted
  <2> QED BY Zenon, <2>1, <2>2, <2>3, <2>4, <2>6, <2>7, <2>8, <2>9 DEF RowStep
<1> QED BY Zenon, <1>1, <1>2 DEF InLease, Live

(* A worker that is not overdue has a tick left.                            *)
LEMMA BeforeItsTime ==
    ASSUME NEW t \in Nat, NEW a \in Nat, NEW b \in Nat, ~(t >= a)
    PROVE  t + 1 <= a /\ t < a + b /\ t < b + a
OBVIOUS

LEMMA LeaseKeptStep ==
    ASSUME TypeOK, TypeOK', Fencing, Bookkeeping, LeaseKept, [Next]_vars
    PROVE  LeaseKept'
<1> DEFINE Kept(v) ==
        /\ pc[v] = "claiming" =>
             ran[v] <= Latency /\ \A c \in held[v] : InLease(rows, c, ran[v])
        /\ pc[v] = "running" /\ first[v] =>
             /\ ran[v] <= Deadline
             /\ \A c \in held[v] : c.id = cur[v] => InLease(rows, c, ran[v] + Latency)
<1> SUFFICES ASSUME NEW v \in Responsive PROVE Kept(v)'
    BY Zenon DEF LeaseKept
<1>0. /\ v \in Workers /\ ran[v] \in Nat
      /\ Latency \in Nat /\ Deadline \in Nat /\ Lease \in Nat /\ Deadline + Latency < Lease
  BY RunnerAssumption, RowsAssumption DEF TypeOK
<1>1. Kept(v) BY Zenon DEF LeaseKept
<1>2. ASSUME pc[v] = "claiming"
      PROVE  ran[v] <= Latency /\ \A c \in held[v] : InLease(rows, c, ran[v])
  BY Zenon, <1>1, <1>2
<1>3. ASSUME pc[v] = "running", first[v]
      PROVE  /\ ran[v] <= Deadline
             /\ \A c \in held[v] : c.id = cur[v] => InLease(rows, c, ran[v] + Latency)
  BY Zenon, <1>1, <1>3
<1>4. ASSUME pc'[v] # "claiming", ~(pc'[v] = "running" /\ first'[v]) PROVE Kept(v)'
  BY Zenon, <1>4
<1>5. ASSUME pc'[v] = "claiming", ran'[v] <= Latency,
             \A c \in held'[v] : InLease(rows', c, ran'[v])
      PROVE  Kept(v)'
  BY Zenon, <1>5 DEF InLease
<1>6. ASSUME pc'[v] = "running", ran'[v] <= Deadline,
             \A c \in held'[v] : c.id = cur'[v] => InLease(rows', c, ran'[v] + Latency)
      PROVE  Kept(v)'
  BY Zenon, <1>6 DEF InLease
<1> HIDE DEF Kept
<1>a. \A c \in held[v] : RowStep(c.id)
  BY <1>0, EveryStepIsARowStep DEF TypeOK, ClaimedJob
<1>m. ASSUME NEW c \in held[v], pc[v] = "running", first[v], c.id = cur[v], ~Tick
      PROVE  InLease(rows', c, ran[v] + Latency)
  <2>1. c \notin Unstarted(v) BY Zenon, <1>m DEF Unstarted, Current, OnJob
  <2>2. ran[v] + Latency \in Nat /\ ran[v] + Latency < Lease BY <1>0, <1>3, <1>m
  <2>3. InLease(rows, c, ran[v] + Latency) BY Zenon, <1>3, <1>m
  <2>4. pc[v] \notin Settling BY Zenon, <1>m DEF Settling
  <2> QED BY Zenon, <1>0, <1>a, <1>m, <2>1, <2>2, <2>3, <2>4, OnlyTimeEndsALease
<1>b. ASSUME ~Tick, SameProcess(v) PROVE Kept(v)'
  <2>0. pc'[v] = pc[v] /\ held'[v] = held[v] /\ cur'[v] = cur[v] /\ first'[v] = first[v]
        /\ ran'[v] = ran[v]
    BY Zenon, <1>b DEF SameProcess
  <2>1. CASE pc[v] = "claiming"
    <3>1. proc[v] # "releasing" BY Zenon, <1>0, <2>1 DEF Bookkeeping
    <3>2. ran[v] < Lease BY <1>0, <1>2, <2>1
    <3>3. \A c \in held[v] : InLease(rows', c, ran[v])
      BY Zenon, <1>0, <1>2, <1>a, <1>b, <2>1, <3>1, <3>2, OnlyTimeEndsALease DEF Settling
    <3> QED BY Zenon, <1>2, <1>5, <2>0, <2>1, <3>3
  <2>2. CASE pc[v] = "running" /\ first[v]
    BY Zenon, <1>3, <1>6, <1>b, <1>m, <2>0, <2>2
  <2>3. CASE pc[v] # "claiming" /\ ~(pc[v] = "running" /\ first[v])
    BY Zenon, <1>4, <2>0, <2>3
  <2> QED BY Zenon, <2>1, <2>2, <2>3
<1>c. CASE Tick
  <2>0. /\ proc' = proc /\ pc' = pc /\ held' = held /\ cur' = cur /\ first' = first
        /\ ~Overdue(v)
    BY Zenon, <1>c DEF Tick
  <2>1. ASSUME NEW c \in held[v], NEW t \in Nat, t < Lease, InLease(rows, c, t)
        PROVE  InLease(rows', c, t + 1)
    <3>1. c.id \in Ids /\ rows[c.id] \in Row /\ rows[c.id].left \in Nat
      BY <1>0 DEF TypeOK, ClaimedJob, Row
    <3>2. rows'[c.id] = Aged(rows[c.id]) BY Zenon, <1>c, <3>1 DEF Tick
    <3>3. /\ rows'[c.id].state = rows[c.id].state /\ rows'[c.id].fence = rows[c.id].fence
          /\ rows'[c.id].left = IF rows[c.id].left > 0 THEN rows[c.id].left - 1 ELSE 0
      BY Zenon, <3>1, <3>2, AgedFields
    <3> QED BY <1>0, <2>1, <3>1, <3>3 DEF InLease, Live, Exists
  <2>2. CASE pc[v] = "claiming"
    <3>1. ~(ran[v] >= Latency) BY Zenon, <2>0, <2>2 DEF Overdue
    <3>2. ran[v] + 1 <= Latency /\ ran[v] < Deadline + Latency BY Zenon, <1>0, <3>1, BeforeItsTime
    <3>3. ran[v] < Lease /\ ran'[v] = ran[v] + 1
      <4>1. Timed(v) BY Zenon, <2>2, <3>2 DEF Timed, MaxRan
      <4>2. ran'[v] = ran[v] + 1 BY Zenon, <1>0, <1>c, <4>1 DEF Tick
      <4>3. ran[v] < Lease BY <1>0, <3>2
      <4> QED BY Zenon, <4>2, <4>3
    <3>4. \A c \in held[v] : InLease(rows', c, ran[v] + 1) BY Zenon, <1>0, <1>2, <2>1, <2>2, <3>3
    <3> QED BY Zenon, <1>5, <2>0, <2>2, <3>2, <3>3, <3>4
  <2>3. CASE pc[v] = "running" /\ first[v]
    <3>1. ~(ran[v] >= Deadline) BY Zenon, <2>0, <2>3 DEF Overdue
    <3>2. ran'[v] = ran[v] + 1
      <4>1. ran[v] < Deadline + Latency BY Zenon, <1>0, <3>1, BeforeItsTime
      <4>2. Timed(v) BY Zenon, <2>3, <4>1 DEF Timed, MaxRan
      <4> QED BY Zenon, <1>0, <1>c, <4>2 DEF Tick
    <3>3. /\ ran[v] + Latency \in Nat /\ ran[v] + Latency < Lease /\ ran[v] + 1 <= Deadline
          /\ ran[v] + Latency + 1 = ran[v] + 1 + Latency
      BY <1>0, <3>1
    <3>4. ASSUME NEW c \in held[v], c.id = cur[v]
          PROVE  InLease(rows', c, ran[v] + 1 + Latency)
      <4>1. InLease(rows, c, ran[v] + Latency) BY Zenon, <1>3, <2>3, <3>4
      <4>2. InLease(rows', c, ran[v] + Latency + 1) BY Zenon, <2>1, <3>3, <4>1
      <4> QED BY Zenon, <3>3, <4>2
    <3> QED BY Zenon, <1>6, <2>0, <2>3, <3>2, <3>3, <3>4
  <2>4. CASE pc[v] # "claiming" /\ ~(pc[v] = "running" /\ first[v])
    BY Zenon, <1>4, <2>0, <2>4
  <2> QED BY <2>2, <2>3, <2>4
<1>d. ASSUME WorkerStep(v), ~Tick PROVE Kept(v)'
  <2>1. ASSUME NEW S \in SUBSET Ids, Claim(v, S) PROVE Kept(v)'
    <3>1. CASE UNCHANGED <<pc, held, ran>>
      <4>1. pc[v] = "idle" /\ pc'[v] = "idle" BY Zenon, <1>0, <2>1, <3>1 DEF Claim
      <4> QED BY Zenon, <1>4, <4>1
    <3>2. CASE /\ pc' = [pc EXCEPT ![v] = "claiming"]
               /\ held' = [held EXCEPT ![v] = {ClaimOf(i) : i \in S}]
               /\ ran' = [ran EXCEPT ![v] = 0]
      <4>1. ASSUME NEW i \in S PROVE InLease(rows', ClaimOf(i), 0)
        <5>1. i \in Ids /\ rows[i] \in Row BY Zenon DEF TypeOK
        <5>2. rows'[i] = Claimed(rows[i]) BY Zenon, <2>1, <5>1 DEF Claim
        <5>3. ClaimOf(i).id = i /\ ClaimOf(i).fence = rows[i].fence + 1 BY Zenon DEF ClaimOf
        <5>4. /\ rows'[i].state = "leased" /\ rows'[i].left = Lease
              /\ rows'[i].fence = rows[i].fence + 1
          BY Zenon, <5>1, <5>2, ClaimedFields
        <5>5. (ClaimOf(i)).id = i /\ (ClaimOf(i)).fence = rows'[i].fence
          BY Zenon, <5>3, <5>4
        <5>6. \A c : c.id = i /\ c.fence = rows'[i].fence => InLease(rows', c, 0)
          BY <1>0, <5>4 DEF InLease, Live, Exists
        <5> QED BY Zenon, <5>5, <5>6
      <4>2. \A c \in held'[v] : \E i \in S : c = ClaimOf(i) BY <1>0, <3>2 DEF TypeOK
      <4>3. ran'[v] = 0 /\ pc'[v] = "claiming" /\ 0 <= Latency BY <1>0, <3>2 DEF TypeOK
      <4>4. \A c \in held'[v] : InLease(rows', c, 0) BY Zenon, <4>1, <4>2
      <4> QED BY Zenon, <1>5, <4>3, <4>4
    <3> QED BY Zenon, <2>1, <3>1, <3>2 DEF Claim
  <2>2. ASSUME NEW c \in held[v], Begin(v, c) PROVE Kept(v)'
    <3>1. ran'[v] = 0 /\ held' = held /\ rows' = rows BY Zenon, <1>0, <2>2 DEF Begin, TypeOK
    <3>2. pc'[v] # "claiming" BY Zenon, <1>0, <2>2 DEF Begin, TypeOK
    <3>3. first'[v] => pc[v] = "claiming" BY Zenon, <1>0, <2>2 DEF Begin, TypeOK
    <3>4. ASSUME NEW d \in held[v], pc[v] = "claiming" PROVE InLease(rows', d, 0 + Latency)
      <4>1. InLease(rows, d, ran[v]) /\ ran[v] <= Latency BY <1>2, <3>4
      <4>2. rows[d.id].left \in Nat
        <5>1. rows[d.id] \in Row BY <1>0 DEF TypeOK, ClaimedJob
        <5> QED BY <5>1 DEF Row
      <4> QED BY <1>0, <3>1, <4>1, <4>2 DEF InLease, Live
    <3>5. CASE pc'[v] = "running" /\ first'[v]
      BY <1>0, <1>6, <3>1, <3>3, <3>4, <3>5
    <3> QED BY Zenon, <1>4, <3>2, <3>5
  <2>3. ASSUME NEW c \in held[v], Settle(v, c) PROVE Kept(v)'
    <3>1. pc'[v] \in {"idle", "batch"} BY Zenon, <1>0, <2>3 DEF Settle, TypeOK
    <3> QED BY <1>4, <3>1
  <2>4. ASSUME NEW c \in held[v], Release(v, c) PROVE Kept(v)'
    <3>1. /\ proc[v] = "releasing" /\ pc' = pc /\ cur' = cur
          /\ first' = first /\ ran' = ran /\ held'[v] = held[v] \ {c}
      BY Zenon, <1>0, <2>4 DEF Release, TypeOK
    <3>2. pc'[v] # "claiming" BY Zenon, <1>0, <3>1 DEF Bookkeeping
    <3>3. CASE pc'[v] = "running" /\ first'[v]
      BY Zenon, <1>3, <1>6, <1>d, <1>m, <3>1, <3>3
    <3> QED BY <1>4, <3>2, <3>3
  <2>5. CASE Report(v) BY Zenon, <1>b, <1>d, <2>5 DEF Report, procVars, SameProcess
  <2>6. CASE HandlerEnds(v) \/ HandlerCancelsItself(v) \/ Exit(v) \/ Halt(v)
    <3>1. pc'[v] \notin {"claiming", "running"}
      BY Zenon, <1>0, <2>6 DEF HandlerEnds, HandlerCancelsItself, Exit, Halt, Settling, TypeOK
    <3> QED BY Zenon, <1>4, <3>1
  <2>7. CASE Stop(v) \/ Drain(v)
    <3>1. /\ pc' = pc /\ held' = held /\ cur' = cur /\ first' = first /\ ran' = ran
          /\ rows' = rows
      BY Zenon, <2>7 DEF Stop, Drain
    <3>2. CASE pc[v] = "claiming" BY Zenon, <1>2, <1>5, <3>1, <3>2
    <3>3. CASE pc[v] = "running" /\ first[v] BY Zenon, <1>3, <1>6, <3>1, <3>3
    <3> QED BY Zenon, <1>4, <3>1, <3>2, <3>3
  <2>8. CASE Restart(v)
    <3>1. pc'[v] \notin {"claiming", "running"} BY Zenon, <1>0, <2>8 DEF Restart, TypeOK
    <3> QED BY <1>4, <3>1
  <2> QED BY Zenon, <1>d, <2>1, <2>2, <2>3, <2>4, <2>5, <2>6, <2>7, <2>8 DEF WorkerStep
<1>e. ASSUME ~Tick, UNCHANGED vars PROVE Kept(v)' BY Zenon, <1>b, <1>e DEF vars, SameProcess
<1>f. ASSUME ~Tick, NEW i \in Ids, CallerStep(i) PROVE Kept(v)'
  BY Zenon, <1>0, <1>b, <1>f, CallersTouchNoProcess
<1>g. ASSUME ~Tick, NEW w \in Workers, WorkerStep(w) PROVE Kept(v)'
  BY Zenon, <1>0, <1>b, <1>d, <1>g, StepsAreLocal
<1>h. ASSUME ~Tick, ReclaimExpired PROVE Kept(v)'
  BY <1>b, <1>h DEF ReclaimExpired, procVars, SameProcess
<1> QED BY Zenon, <1>c, <1>e, <1>f, <1>g, <1>h DEF Next

(* With Deadline + Latency < Lease, the handler a responsive worker starts  *)
(* first after a claim never runs on past its lease: the sweeper cannot     *)
(* take its row, so no second copy of it starts.                            *)
THEOREM DeadlineFitsTheLease == Spec => []FirstOfBatchKeepsItsLease
<1>1. Init => LeaseKept BY RunnerAssumption DEF Init, LeaseKept
<1>2. TypeOK /\ TypeOK' /\ Fencing /\ Bookkeeping /\ LeaseKept /\ [Next]_vars => LeaseKept'
  BY Zenon, LeaseKeptStep
<1>3. LeaseKept => FirstOfBatchKeepsItsLease
  BY DEF LeaseKept, FirstOfBatchKeepsItsLease, Current, InLease, Live
<1> QED BY <1>1, <1>2, <1>3, TypeCorrect, FencingHolds, BookkeepingHolds, PTL DEF Spec

-----------------------------------------------------------------------------
(* Who ends a worker, and who buries a job without a word.                  *)

(* Where no handler raises CancelledError of its own, a worker task ends    *)
(* only with its process: neither a failed claim or outcome statement, nor  *)
(* a deadline, nor a lost lease takes it out of _work.                      *)
THEOREM OnlyItsHandlerEndsAWorker ==
    ASSUME "selfcancel" \notin Faults PROVE Spec => []WorkersOutliveTheirJobs
<1>1. Init => WorkersOutliveTheirJobs BY Zenon DEF Init, WorkersOutliveTheirJobs
<1>2. TypeOK /\ WorkersOutliveTheirJobs /\ [Next]_vars => WorkersOutliveTheirJobs'
  <2> SUFFICES ASSUME TypeOK, WorkersOutliveTheirJobs, [Next]_vars,
                      NEW v \in Workers, pc'[v] = "ended"
               PROVE  proc'[v] # "up"
      BY Zenon DEF WorkersOutliveTheirJobs
  <2>1. ASSUME pc'[v] = pc[v], proc'[v] = proc[v] PROVE proc'[v] # "up"
    BY Zenon, <2>1 DEF WorkersOutliveTheirJobs
  <2>2. CASE UNCHANGED vars BY Zenon, <2>1, <2>2 DEF vars
  <2>3. CASE Tick BY Zenon, <2>1, <2>3 DEF Tick
  <2>4. CASE ReclaimExpired BY Zenon, <2>1, <2>4 DEF ReclaimExpired, procVars
  <2>5. ASSUME NEW i \in Ids, CallerStep(i) PROVE proc'[v] # "up"
    BY Zenon, <2>1, <2>5, CallersTouchNoProcess DEF SameProcess
  <2>6. ASSUME NEW w \in Workers, WorkerStep(w), w # v PROVE proc'[v] # "up"
    BY Zenon, <2>1, <2>6, StepsAreLocal DEF SameProcess
  <2>7. ASSUME WorkerStep(v) PROVE proc'[v] # "up"
    <3>1. ASSUME NEW S \in SUBSET Ids, Claim(v, S) PROVE proc'[v] # "up"
      <4>1. pc'[v] \in {pc[v], "claiming"} /\ proc' = proc BY Zenon, <3>1 DEF Claim, TypeOK
      <4> QED BY <2>1, <4>1
    <3>2. ASSUME NEW c \in held[v], Begin(v, c) PROVE FALSE
      <4>1. pc'[v] \in {"running", "orphaned", "burying"} BY Zenon, <3>2 DEF Begin, TypeOK
      <4> QED BY <4>1
    <3>3. ASSUME NEW c \in held[v], Settle(v, c) PROVE FALSE
      <4>1. pc'[v] \in {"idle", "batch"} BY Zenon, <3>3 DEF Settle, TypeOK
      <4> QED BY <4>1
    <3>4. ASSUME NEW c \in held[v], Release(v, c) PROVE proc'[v] # "up"
      <4>1. proc'[v] \in {"drained", "releasing"} BY Zenon, <3>4 DEF Release, TypeOK
      <4> QED BY <4>1
    <3>5. CASE Report(v) BY Zenon, <2>1, <3>5 DEF Report, procVars
    <3>6. CASE HandlerEnds(v)
      <4>1. pc'[v] \in {"completing", "failing"} BY Zenon, <3>6 DEF HandlerEnds, TypeOK
      <4> QED BY <4>1
    <3>7. CASE Exit(v) BY Zenon, <3>7 DEF Exit
    <3>8. CASE Stop(v) \/ Drain(v)
      <4>1. proc'[v] \in {"stopping", "drained", "releasing"}
        BY Zenon, <3>8 DEF Stop, Drain, TypeOK
      <4> QED BY <4>1
    <3>9. CASE Halt(v)
      <4>1. proc'[v] = "down" BY Zenon, <3>9 DEF Halt, TypeOK
      <4> QED BY <4>1
    <3>10. CASE Restart(v)
      <4>1. pc'[v] = "idle" BY Zenon, <3>10 DEF Restart, TypeOK
      <4> QED BY <4>1
    <3> QED BY Zenon, <2>7, <3>1, <3>2, <3>3, <3>4, <3>5, <3>6, <3>7, <3>8, <3>9, <3>10
            DEF WorkerStep, HandlerCancelsItself
  <2> QED BY Zenon, <2>2, <2>3, <2>4, <2>5, <2>6, <2>7 DEF Next
<1> QED BY <1>1, <1>2, TypeCorrect, PTL DEF Spec

(* A job that is buried now is reported as failed in the same step.         *)
Announced ==
    \A i \in Ids : rows[i].state # "dead" /\ rows'[i].state = "dead" => told'[i] = "failed"

LEMMA BurialIsAnnounced ==
    ASSUME TypeOK, [Next]_vars, Registry = TRUE, "lost" \notin Faults, ~ReclaimExpired
    PROVE  Announced
<1> SUFFICES ASSUME NEW i \in Ids, rows[i].state # "dead", rows'[i].state = "dead"
             PROVE  told'[i] = "failed"
    BY Zenon DEF Announced
<1>0. rows' # rows /\ rows'[i].state # rows[i].state OBVIOUS
<1>1. rows \in [Ids -> Row] /\ rows[i] \in Row /\ told \in [Ids -> Reports] BY Zenon DEF TypeOK
<1>2. ASSUME NEW j \in Ids, NEW r, rows' = [rows EXCEPT ![j] = r]
      PROVE  j = i /\ r.state = "dead"
  <2>1. j = i BY Zenon, <1>0, <1>1, <1>2
  <2> QED BY Zenon, <1>1, <1>2, <2>1
<1>3. ASSUME NEW j \in Ids, CallerStep(j) PROVE told'[i] = "failed"
  <2>1. ASSUME NEW k \in Keys \cup {NoKey}, NEW a \in Payloads, NEW m \in RowBudgets,
               NEW d \in Delays, NEW watched \in BOOLEAN, Enqueue(j, k, a, m, d, watched)
        PROVE  FALSE
    <3>1. Inserted(k, a, m, d).state = "dead" BY Zenon, <1>2, <2>1 DEF Enqueue
    <3>2. Inserted(k, a, m, d).state = "ready" BY DEF Inserted
    <3> QED BY <3>1, <3>2
  <2>2. ASSUME NEW a \in Payloads, NEW d \in Delays, Coalesce(j, a, d) PROVE FALSE
    <3>1. j = i /\ Coalesced(rows[j], a, d).state = "dead" BY Zenon, <1>2, <2>2 DEF Coalesce
    <3> QED BY Zenon, <1>1, <3>1, CoalesceFields
  <2>3. CASE Seed(j) \/ SeedDuplicate(j) BY Zenon, <1>0, <2>3 DEF Seed, SeedDuplicate
  <2>4. CASE Cancel(j)
    <3>1. j = i BY Zenon, <1>2, <2>4 DEF Cancel
    <3> QED BY Zenon, <1>1, <2>4, <3>1 DEF Cancel, Tell
  <2>5. CASE Purge(j)
    <3>1. Purged(rows[j]).state = "dead" BY Zenon, <1>2, <2>5 DEF Purge
    <3>2. Purged(rows[j]).state = "purged" BY Zenon, PurgedFields
    <3> QED BY <3>1, <3>2
  <2> QED BY Zenon, <1>3, <2>1, <2>2, <2>3, <2>4, <2>5 DEF CallerStep
<1>4. ASSUME NEW w \in Workers, WorkerStep(w) PROVE told'[i] = "failed"
  <2>1. ASSUME NEW S \in SUBSET Ids, Claim(w, S) PROVE FALSE
    <3>1. rows'[i] = IF i \in S THEN Claimed(rows[i]) ELSE rows[i] BY Zenon, <2>1 DEF Claim
    <3>2. Claimed(rows[i]).state = "leased" BY Zenon, <1>1, ClaimedFields
    <3> QED BY <1>0, <3>1, <3>2
  <2>2. ASSUME NEW c \in held[w], Settle(w, c) PROVE told'[i] = "failed"
    <3>1. c.id \in Ids BY DEF TypeOK, ClaimedJob
    <3>2. PICK r \in Outcomes(w, c) : /\ rows' = [rows EXCEPT ![c.id] = r]
                                      /\ Tell(c.id, ReportFor(r, told[c.id]))
      BY Zenon, <1>0, <2>2 DEF Settle, Record
    <3>3. c.id = i /\ r.state = "dead" BY Zenon, <1>2, <3>1, <3>2
    <3>4. ReportFor(r, told[i]) = "failed" BY <3>3 DEF ReportFor
    <3> QED BY Zenon, <1>1, <3>2, <3>3, <3>4 DEF Tell
  <2>3. ASSUME NEW c \in held[w], Release(w, c) PROVE FALSE
    <3>1. c.id \in Ids BY DEF TypeOK, ClaimedJob
    <3>2. rows' = [rows EXCEPT ![c.id] = Released(rows[c.id])]
      BY Zenon, <1>0, <2>3 DEF Release
    <3>3. c.id = i /\ Released(rows[c.id]).state = "dead" BY Zenon, <1>2, <3>1, <3>2
    <3>4. Released(rows[i]).state = "ready" BY Zenon, <1>1, ReleasedFields
    <3> QED BY <3>3, <3>4
  <2> QED BY Zenon, <1>0, <1>4, <2>1, <2>2, <2>3
          DEF WorkerStep, Begin, Report, HandlerEnds, HandlerCancelsItself, Exit, Stop, Drain,
              Halt, Restart
<1>5. CASE Tick
  <2>1. rows'[i] = Aged(rows[i]) BY Zenon, <1>5 DEF Tick
  <2> QED BY Zenon, <1>0, <1>1, <2>1, AgedFields
<1> QED BY Zenon, <1>0, <1>3, <1>4, <1>5 DEF Next, vars

(* While no answer is lost, whoever buries a job reports it with the same   *)
(* step, _fail and cancel alike: the sweeper is the only one that buries in *)
(* silence.                                                                 *)
THEOREM OnlyTheSweeperIsSilent ==
    ASSUME Registry = TRUE, "lost" \notin Faults
    PROVE  Spec => [][ReclaimExpired \/ Announced]_vars
<1>1. TypeOK /\ [Next]_vars => [ReclaimExpired \/ Announced]_vars BY Zenon, BurialIsAnnounced
<1> QED BY <1>1, TypeCorrect, PTL DEF Spec

-----------------------------------------------------------------------------
(* Two handlers of one job.                                                 *)

(* The lease of claim c is the one LeaseKept speaks of.                     *)
Early(w, c) == \/ pc[w] = "claiming"
               \/ pc[w] = "running" /\ first[w] /\ c.id = cur[w]
Was(w, c) == c \in held[w] /\ Early(w, c)

(* The inductive invariants behind HandlersNeverOverlap: no two workers are *)
(* early with one job, a worker that runs has the claim it runs, and where  *)
(* a claim takes one row every handler is the first of its batch.           *)
Alone == \A v, w \in Responsive : \A c \in held[v], d \in held[w] :
             c.id = d.id /\ Early(v, c) /\ Early(w, d) => v = w
OnItsJob == \A w \in Workers : pc[w] = "running" => \E c \in held[w] : c.id = cur[w]
OneClaim == \A w \in Workers : /\ \A c, d \in held[w] : c = d
                               /\ pc[w] # "batch"
                               /\ pc[w] = "running" => first[w]

SamePlace(v) == /\ pc'[v] = pc[v] /\ held'[v] = held[v]
                /\ cur'[v] = cur[v] /\ first'[v] = first[v]

LEMMA OneProcessMoves ==
    ASSUME TypeOK, [Next]_vars
    PROVE  \/ \A v \in Workers : SamePlace(v)
           \/ \E w \in Workers : WorkerStep(w) /\ \A v \in Workers \ {w} : SamePlace(v)
<1>0. ASSUME NEW v \in Workers, SameProcess(v) PROVE SamePlace(v)
  BY Zenon, <1>0 DEF SameProcess, SamePlace
<1>1. CASE UNCHANGED vars BY Zenon, <1>1 DEF vars, SamePlace
<1>2. CASE Tick BY Zenon, <1>2 DEF Tick, SamePlace
<1>3. CASE ReclaimExpired BY Zenon, <1>3 DEF ReclaimExpired, procVars, SamePlace
<1>4. ASSUME NEW i \in Ids, CallerStep(i) PROVE \A v \in Workers : SamePlace(v)
  BY Zenon, <1>0, <1>4, CallersTouchNoProcess
<1>5. ASSUME NEW w \in Workers, WorkerStep(w) PROVE \A v \in Workers \ {w} : SamePlace(v)
  BY Zenon, <1>0, <1>5, StepsAreLocal
<1> QED BY Zenon, <1>1, <1>2, <1>3, <1>4, <1>5 DEF Next

(* What a worker's step makes of its place and its claims.                  *)
Takes(w, S) == /\ pc'[w] = "claiming" /\ held'[w] = {ClaimOf(i) : i \in S}
               /\ \A i \in S : i \in Ids /\ Due(rows[i])
               /\ AtMost(Batch, S)
Starts(w, c) == /\ pc[w] \in {"claiming", "batch"} /\ c \in held[w]
                /\ held'[w] = held[w] /\ cur'[w] = c.id
                /\ pc'[w] # "batch" /\ pc'[w] # "claiming"
                /\ pc'[w] = "running" => (first'[w] <=> pc[w] = "claiming")
Settles(w, c) == /\ c \in held[w] /\ held'[w] = held[w] \ {c}
                 /\ pc'[w] = IF held[w] = {c} THEN "idle" ELSE "batch"
Sheds(w) == /\ pc'[w] = pc[w] /\ cur'[w] = cur[w] /\ first'[w] = first[w]
            /\ pc[w] # "claiming" /\ held'[w] \subseteq held[w]
            /\ pc[w] = "running" => \A c \in held[w] : c.id = cur[w] => c \in held'[w]
Leaves(w) == pc'[w] \notin {"claiming", "running", "batch"} /\ held'[w] \subseteq held[w]

LEMMA WorkerPlaces ==
    ASSUME TypeOK, Bookkeeping, NEW w \in Workers, WorkerStep(w)
    PROVE  \/ SamePlace(w) \/ Sheds(w) \/ Leaves(w)
           \/ \E S : Takes(w, S)
           \/ \E c : Starts(w, c) \/ Settles(w, c)
<1>1. ASSUME NEW S \in SUBSET Ids, Claim(w, S) PROVE SamePlace(w) \/ Takes(w, S)
  <2>1. CASE UNCHANGED <<pc, held, ran>> BY Zenon, <1>1, <2>1 DEF Claim, SamePlace
  <2>2. CASE /\ pc' = [pc EXCEPT ![w] = "claiming"]
             /\ held' = [held EXCEPT ![w] = {ClaimOf(i) : i \in S}]
    BY Zenon, <1>1, <2>2 DEF Claim, Takes, TypeOK
  <2> QED BY Zenon, <1>1, <2>1, <2>2 DEF Claim
<1>2. ASSUME NEW c \in held[w], Begin(w, c) PROVE Starts(w, c)
  BY Zenon, <1>2 DEF Begin, Starts, TypeOK
<1>3. ASSUME NEW c \in held[w], Settle(w, c) PROVE Settles(w, c)
  BY Zenon, <1>3 DEF Settle, Settles, TypeOK
<1>4. ASSUME NEW c \in held[w], Release(w, c) PROVE Sheds(w)
  <2>1. /\ proc[w] = "releasing" /\ c \in Unstarted(w) /\ pc' = pc /\ cur' = cur
        /\ first' = first /\ held'[w] = held[w] \ {c}
    BY Zenon, <1>4 DEF Release, TypeOK
  <2>2. pc[w] # "claiming" BY Zenon, <2>1 DEF Bookkeeping
  <2>3. pc[w] = "running" => c.id # cur[w] BY Zenon, <2>1 DEF Unstarted, Current, OnJob
  <2> QED BY Zenon, <2>1, <2>2, <2>3 DEF Sheds
<1>5. CASE Report(w) \/ Stop(w) \/ Drain(w)
  BY Zenon, <1>5 DEF Report, Stop, Drain, procVars, SamePlace
<1>6. CASE HandlerEnds(w) \/ Exit(w) \/ Restart(w)
  BY Zenon, <1>6 DEF HandlerEnds, Exit, Restart, Leaves, TypeOK
<1>7. CASE HandlerCancelsItself(w)
  BY Zenon, <1>7 DEF HandlerCancelsItself, Leaves, Unstarted, TypeOK
<1>8. CASE Halt(w) BY Zenon, <1>8 DEF Halt, Leaves, TypeOK
<1> QED BY Zenon, <1>1, <1>2, <1>3, <1>4, <1>5, <1>6, <1>7, <1>8 DEF WorkerStep

LEMMA OnItsJobStep ==
    ASSUME TypeOK, Bookkeeping, OnItsJob, [Next]_vars PROVE OnItsJob'
<1> SUFFICES ASSUME NEW v \in Workers, pc'[v] = "running"
             PROVE  \E c \in held'[v] : c.id = cur'[v]
    BY Zenon DEF OnItsJob
<1>1. CASE SamePlace(v) BY Zenon, <1>1 DEF SamePlace, OnItsJob
<1>2. CASE Sheds(v) BY Zenon, <1>2 DEF Sheds, OnItsJob
<1>3. ASSUME NEW c, Starts(v, c) PROVE \E d \in held'[v] : d.id = cur'[v]
  BY Zenon, <1>3 DEF Starts
<1>4. CASE Leaves(v) BY Zenon, <1>4 DEF Leaves
<1>5. ASSUME NEW c, Settles(v, c) PROVE FALSE
  <2>1. pc'[v] \in {"idle", "batch"} BY Zenon, <1>5 DEF Settles
  <2> QED BY <2>1
<1>6. ASSUME NEW S, Takes(v, S) PROVE FALSE
  <2>1. pc'[v] = "claiming" BY Zenon, <1>6 DEF Takes
  <2> QED BY <2>1
<1> QED BY Zenon, <1>1, <1>2, <1>3, <1>4, <1>5, <1>6, OneProcessMoves, WorkerPlaces

(* Nobody can claim the job of an early claim: it is leased, or over.       *)
LEMMA EarlyIsNotDue ==
    ASSUME Fencing, LeaseKept, NEW w \in Responsive, NEW d \in held[w], Early(w, d)
    PROVE  ~Due(rows[d.id])
<1>1. w \in Workers BY Zenon, RunnerAssumption
<1>2. rows[d.id].state \in {"dead", "purged"} \/ Live(d)
  BY Zenon DEF LeaseKept, Early, InLease, Live
<1>3. Live(d) => rows[d.id].state = "leased" BY Zenon, <1>1 DEF Fencing, LiveFits
<1>4. rows[d.id].state \in {"dead", "purged", "leased"} BY Zenon, <1>2, <1>3
<1> QED BY <1>4 DEF Due

LEMMA EarlierOrTaken ==
    ASSUME NEW v \in Workers, NEW c \in held'[v], Early(v, c)',
           \/ SamePlace(v) \/ Sheds(v) \/ Leaves(v)
           \/ \E S : Takes(v, S)
           \/ \E b : Starts(v, b) \/ Settles(v, b)
    PROVE  Was(v, c) \/ Due(rows[c.id])
<1>1. CASE SamePlace(v) BY Zenon, <1>1 DEF SamePlace, Early, Was
<1>2. CASE Sheds(v) BY Zenon, <1>2 DEF Sheds, Early, Was
<1>3. ASSUME NEW b, Starts(v, b) PROVE Was(v, c) BY Zenon, <1>3 DEF Starts, Early, Was
<1>4. CASE Leaves(v) BY Zenon, <1>4 DEF Leaves, Early
<1>5. ASSUME NEW b, Settles(v, b) PROVE FALSE
  <2>1. pc'[v] \in {"idle", "batch"} BY Zenon, <1>5 DEF Settles
  <2> QED BY <2>1 DEF Early
<1>6. ASSUME NEW S, Takes(v, S) PROVE Due(rows[c.id])
  <2>1. PICK i \in S : c = ClaimOf(i) BY Zenon, <1>6 DEF Takes
  <2>2. c.id = i BY Zenon, <2>1 DEF ClaimOf
  <2> QED BY Zenon, <1>6, <2>1, <2>2 DEF Takes
<1> QED BY Zenon, <1>1, <1>2, <1>3, <1>4, <1>5, <1>6

LEMMA AloneStep ==
    ASSUME TypeOK, Bookkeeping, Fencing, LeaseKept, Alone, [Next]_vars PROVE Alone'
<1> SUFFICES ASSUME NEW v \in Responsive, NEW w \in Responsive,
                    NEW c \in held'[v], NEW d \in held'[w],
                    c.id = d.id, Early(v, c)', Early(w, d)', v # w
             PROVE  FALSE
    BY Zenon DEF Alone
<1>1. v \in Workers /\ w \in Workers BY Zenon, RunnerAssumption
<1>2. ASSUME NEW u \in Workers, SamePlace(u), NEW b \in held'[u], Early(u, b)' PROVE Was(u, b)
  BY Zenon, <1>2 DEF SamePlace, Early, Was
<1>3. Was(v, c) \/ Due(rows[c.id])
  BY Zenon, <1>1, OneProcessMoves, WorkerPlaces, EarlierOrTaken
<1>4. Was(w, d) \/ Due(rows[d.id])
  BY Zenon, <1>1, OneProcessMoves, WorkerPlaces, EarlierOrTaken
<1>5. SamePlace(v) \/ SamePlace(w) BY Zenon, <1>1, OneProcessMoves
<1>6. Was(v, c) \/ Was(w, d) BY Zenon, <1>1, <1>2, <1>5
<1>7. Was(v, c) => ~Due(rows[c.id]) BY Zenon, EarlyIsNotDue DEF Was
<1>8. Was(w, d) => ~Due(rows[d.id]) BY Zenon, EarlyIsNotDue DEF Was
<1>9. Was(v, c) /\ Was(w, d) BY Zenon, <1>3, <1>4, <1>6, <1>7, <1>8
<1> QED BY Zenon, <1>9 DEF Alone, Was

LEMMA AtMostOne == ASSUME NEW S, AtMost(1, S) PROVE \A i, j \in S : i = j
<1>1. PICK number \in [S -> 1 .. 1] : \A i, j \in S : number[i] = number[j] => i = j
  BY Zenon DEF AtMost
<1>2. ASSUME NEW i \in S PROVE number[i] = 1
  <2>1. number[i] \in 1 .. 1 BY Zenon
  <2> QED BY <2>1
<1> QED BY Zenon, <1>1, <1>2

LEMMA OneClaimStep ==
    ASSUME Batch = 1, TypeOK, Bookkeeping, OneClaim, [Next]_vars PROVE OneClaim'
<1> DEFINE One(v) == /\ \A c, d \in held[v] : c = d
                     /\ pc[v] # "batch"
                     /\ pc[v] = "running" => first[v]
<1> SUFFICES ASSUME NEW v \in Workers PROVE One(v)'
    BY Zenon DEF OneClaim
<1>0. One(v) BY Zenon DEF OneClaim
<1>1. CASE SamePlace(v) BY Zenon, <1>0, <1>1 DEF SamePlace
<1>2. CASE Sheds(v) BY Zenon, <1>0, <1>2 DEF Sheds
<1>3. ASSUME NEW c, Starts(v, c) PROVE One(v)'
  <2>1. pc[v] = "claiming" BY Zenon, <1>0, <1>3 DEF Starts
  <2> QED BY Zenon, <1>0, <1>3, <2>1 DEF Starts
<1>4. CASE Leaves(v) BY Zenon, <1>0, <1>4 DEF Leaves
<1>5. ASSUME NEW c, Settles(v, c) PROVE One(v)'
  <2>1. held[v] = {c} BY Zenon, <1>0, <1>5 DEF Settles
  <2>2. pc'[v] = "idle" /\ held'[v] \subseteq held[v] BY Zenon, <1>5, <2>1 DEF Settles
  <2> QED BY <1>0, <2>2
<1>6. ASSUME NEW S, Takes(v, S) PROVE One(v)'
  <2>1. \A i, j \in S : i = j BY Zenon, <1>6, AtMostOne DEF Takes
  <2>2. pc'[v] = "claiming" /\ held'[v] = {ClaimOf(i) : i \in S} BY Zenon, <1>6 DEF Takes
  <2>3. \A c, d \in held'[v] : c = d BY Zenon, <2>1, <2>2
  <2> QED BY <2>2, <2>3
<1> QED BY Zenon, <1>1, <1>2, <1>3, <1>4, <1>5, <1>6, OneProcessMoves, WorkerPlaces

(* With the default batch of 1, two responsive workers never run handlers   *)
(* of one job at the same time, whatever crashes, expires, is cancelled,    *)
(* retried or coalesced: what task() says of `timeout` is true there.       *)
THEOREM ABatchOfOneNeverOverlaps ==
    ASSUME Batch = 1 PROVE Spec => []HandlersNeverOverlap
<1>1. Init => LeaseKept /\ Alone /\ OnItsJob /\ OneClaim
  BY RunnerAssumption DEF Init, LeaseKept, Alone, OnItsJob, OneClaim
<1>2. TypeOK /\ TypeOK' /\ Fencing /\ Bookkeeping /\ LeaseKept /\ [Next]_vars => LeaseKept'
  BY Zenon, LeaseKeptStep
<1>3. TypeOK /\ Bookkeeping /\ Fencing /\ LeaseKept /\ Alone /\ [Next]_vars => Alone'
  BY Zenon, AloneStep
<1>4. TypeOK /\ Bookkeeping /\ OnItsJob /\ [Next]_vars => OnItsJob' BY Zenon, OnItsJobStep
<1>5. TypeOK /\ Bookkeeping /\ OneClaim /\ [Next]_vars => OneClaim' BY Zenon, OneClaimStep
<1>6. Alone /\ OnItsJob /\ OneClaim => HandlersNeverOverlap
  <2> SUFFICES ASSUME Alone, OnItsJob, OneClaim, NEW v \in Responsive, NEW w \in Responsive,
                      pc[v] = "running", pc[w] = "running", cur[v] = cur[w]
               PROVE  v = w
      BY Zenon DEF HandlersNeverOverlap
  <2>1. v \in Workers /\ w \in Workers BY Zenon, RunnerAssumption
  <2>2. PICK c \in held[v] : c.id = cur[v] BY Zenon, <2>1 DEF OnItsJob
  <2>3. PICK d \in held[w] : d.id = cur[w] BY Zenon, <2>1 DEF OnItsJob
  <2>4. Early(v, c) /\ Early(w, d) BY Zenon, <2>1, <2>2, <2>3 DEF OneClaim, Early
  <2> QED BY Zenon, <2>2, <2>3, <2>4 DEF Alone
<1> QED BY <1>1, <1>2, <1>3, <1>4, <1>5, <1>6, TypeCorrect, FencingHolds, BookkeepingHolds, PTL
        DEF Spec
=============================================================================
