-------------------------- MODULE MessageBusProofs --------------------------
(***************************************************************************)
(* What the bus guarantees for any number of messages, groups, processes    *)
(* and consumers, and any lease and budgets: the types, the fence, the      *)
(* bound on deliveries, that a durable copy is a leased, fenced work item   *)
(* (the bus implements FencedWork), and that no consumer parks on a         *)
(* notification.                                                            *)
(***************************************************************************)
EXTENDS MessageBus, TLAPS

LEMMA Ranges ==
    /\ 0 \in 0 .. Lease /\ Lease \in 0 .. Lease /\ 0 \in 0 .. MaxWait
    /\ \A t \in 0 .. Lease : (IF t > 0 THEN t - 1 ELSE 0) \in 0 .. Lease
    /\ \A t \in 0 .. MaxWait : (IF t > 0 THEN t - 1 ELSE 0) \in 0 .. MaxWait
BY BusAssumption

(* What a disposition may leave of a row.                                   *)
Outcomes(r) == {Completed(r), DeadLettered(r)} \cup {Retried(r, d) : d \in 0 .. MaxWait}

(* Every statement turns a row into a row.                                  *)
LEMMA RowsStayRows ==
    /\ NewRow \in Row /\ Inserted \in Row
    /\ \A r \in Row : /\ Claimed(r) \in Row /\ Reclaimed(r) \in Row /\ Aged(r) \in Row
                      /\ Outcomes(r) \subseteq Row
<1>1. NewRow \in Row /\ Inserted \in Row BY Ranges DEF NewRow, Inserted, Row, States
<1>2. ASSUME NEW r \in Row
      PROVE  /\ Claimed(r) \in Row /\ Reclaimed(r) \in Row /\ Aged(r) \in Row
             /\ Outcomes(r) \subseteq Row
  <2>0. r.fence + 1 \in Nat /\ r.attempts + 1 \in Nat BY DEF Row
  <2>1. Claimed(r) \in Row BY Zenon, <2>0, Ranges DEF Claimed, Row, States
  <2>2. Reclaimed(r) \in Row BY Zenon, <2>0, Ranges DEF Reclaimed, Row, States
  <2>3. Aged(r) \in Row BY Zenon, Ranges DEF Aged, Row
  <2>4. Completed(r) \in Row /\ DeadLettered(r) \in Row
    BY Zenon, Ranges DEF Completed, DeadLettered, Row, States
  <2>5. \A d \in 0 .. MaxWait : Retried(r, d) \in Row
    BY Zenon, <2>0, Ranges DEF Retried, Row, States
  <2> QED BY <2>1, <2>2, <2>3, <2>4, <2>5 DEF Outcomes
<1> QED BY <1>1, <1>2

(* The variables keep their types: no statement of the bus, and no step of  *)
(* a consumer or the doorbell, leaves the shapes of TypeOK.                 *)
THEOREM BusTypeCorrect == Spec => []TypeOK
<1>1. Init => TypeOK
  BY RowsStayRows DEF Init, TypeOK, Phases, NoTask
<1>2. TypeOK /\ [Next]_vars => TypeOK'
  <2> SUFFICES ASSUME TypeOK, [Next]_vars PROVE TypeOK'
      OBVIOUS
  <2> USE DEF TypeOK, table, wires, tasks
  <2>1. CASE UNCHANGED vars BY <2>1 DEF vars
  <2>2. CASE Tick BY <2>2, RowsStayRows DEF Tick
  <2>3. ASSUME NEW k \in Consumers, Steps(k) PROVE TypeOK'
    <3>1. CASE BeginClaim(k) BY Zenon, <3>1 DEF BeginClaim, Goes, Phases
    <3>2. CASE ClaimRow(k)
      <4>1. PICK c \in Copies :
               /\ row' = [row EXCEPT ![c] = Claimed(@)]
               /\ claims' = [claims EXCEPT ![c] = @ + 1]
               /\ heard' = [p \in Procs |-> heard[p] \ {c}]
               /\ \/ /\ Goes(k, "answered")
                     /\ task' = [task EXCEPT ![k] = [copy |-> c, fence |-> Claimed(row[c]).fence]]
                  \/ Goes(k, "resting") /\ UNCHANGED task
        BY Zenon, <3>2 DEF ClaimRow
      <4>2. Claimed(row[c]) \in Row BY RowsStayRows
      <4>3. row' \in [Copies -> Row] BY <4>1, <4>2
      <4>4. claims' \in [Copies -> Nat] BY <4>1
      <4>5. Claimed(row[c]).fence \in Nat BY <4>2 DEF Row
      <4>6. task' \in [Consumers -> [copy : Copies \cup {NoCopy}, fence : Nat]]
        BY <4>1, <4>5
      <4>7. pc' \in [Consumers -> Phases] BY Zenon, <4>1 DEF Goes, Phases
      <4>8. heard' \in [Procs -> SUBSET Copies] BY <4>1
      <4> QED BY <3>2, <4>3, <4>4, <4>6, <4>7, <4>8 DEF ClaimRow
    <3>3. CASE ClaimNothing(k) BY <3>3 DEF ClaimNothing, Goes, Phases
    <3>4. CASE ClaimFails(k) BY <3>4 DEF ClaimFails, Goes, Phases
    <3>5. CASE ClaimReturns(k)
      <4>1. pc' \in [Consumers -> Phases] BY Zenon, <3>5 DEF ClaimReturns, Goes, Phases
      <4>2. task' \in [Consumers -> [copy : Copies \cup {NoCopy}, fence : Nat]]
        BY <3>5 DEF ClaimReturns, NoTask
      <4> QED BY <3>5, <4>1, <4>2 DEF ClaimReturns
    <3>6. CASE Unpark(k) BY <3>6 DEF Unpark, Goes, Phases
    <3>7. CASE Settle(k)
      <4>1. row' \in [Copies -> Row]
        <5>1. CASE UNCHANGED row BY <5>1
        <5>2. ASSUME NEW r \in Outcomes(row[task[k].copy]),
                     row' = [row EXCEPT ![task[k].copy] = r]
              PROVE  row' \in [Copies -> Row]
          <6>1. CASE task[k].copy \in Copies BY <5>2, <6>1, RowsStayRows
          <6>2. CASE task[k].copy \notin Copies BY Zenon, <5>2, <6>2
          <6> QED BY <6>1, <6>2
        <5> QED BY Zenon, <3>7, <5>1, <5>2 DEF Settle, Outcomes
      <4> QED BY <3>7, <4>1 DEF Settle, Goes, Phases, NoTask
    <3>8. CASE SettleFails(k) BY Zenon, <3>8 DEF SettleFails, Goes, Phases, NoTask
    <3> QED BY Zenon, <2>3, <3>1, <3>2, <3>3, <3>4, <3>5, <3>6, <3>7, <3>8 DEF Steps
  <2>4. ASSUME NEW m \in Msgs, Publish(m) PROVE TypeOK'
    BY <2>4, RowsStayRows DEF Publish
  <2>5. ASSUME NEW m \in Msgs, Ring(m) PROVE TypeOK' BY <2>5 DEF Ring
  <2>6. ASSUME NEW p \in Procs, Start(p) PROVE TypeOK' BY Zenon, <2>6 DEF Start, Phases
  <2>7. ASSUME NEW p \in Procs, Dispatch(p) PROVE TypeOK' BY <2>7 DEF Dispatch, WakeAll
  <2>8. ASSUME NEW p \in Procs, BellDrops(p) PROVE TypeOK' BY <2>8 DEF BellDrops
  <2>9. ASSUME NEW p \in Procs, BellReopens(p) PROVE TypeOK' BY <2>9 DEF BellReopens
  <2>10. ASSUME NEW p \in Procs, StopBegins(p) PROVE TypeOK' BY Zenon, <2>10 DEF StopBegins
  <2>11. ASSUME NEW p \in Procs, Ends(p) PROVE TypeOK' BY Zenon, <2>11 DEF Ends, Phases, NoTask
  <2>12. ASSUME NEW p \in Procs, NEW g \in Groups, Sweep(p, g) PROVE TypeOK'
    BY Zenon, <2>12, RowsStayRows DEF Sweep
  <2> QED BY Zenon, <2>1, <2>2, <2>3, <2>4, <2>5, <2>6, <2>7, <2>8, <2>9, <2>10, <2>11, <2>12
          DEF Next
<1> QED BY <1>1, <1>2, PTL DEF Spec

-----------------------------------------------------------------------------
(* What one step may do to a copy: nothing, or one of the statements.       *)
RowStep(c) ==
    \/ row'[c] = row[c] /\ claims'[c] = claims[c]
    \/ row'[c] = Aged(row[c]) /\ claims'[c] = claims[c]
    \/ row[c].state = "absent" /\ row'[c] = Inserted /\ claims'[c] = claims[c]
    \/ Due(c) /\ row'[c] = Claimed(row[c]) /\ claims'[c] = claims[c] + 1
    \/ /\ \E k \in Consumers : pc[k] = "handling" /\ Holds(k, c) /\ task' = [task EXCEPT ![k] = NoTask]
       /\ row'[c] \in Outcomes(row[c]) /\ claims'[c] = claims[c]
    \/ Expired(c) /\ row'[c] = Reclaimed(row[c]) /\ claims'[c] = claims[c]

LEMMA EveryStepIsARowStep ==
    ASSUME TypeOK, [Next]_vars, NEW c \in Copies PROVE RowStep(c)
<1> USE DEF TypeOK
<1>0. CASE UNCHANGED <<row, claims>> BY <1>0 DEF RowStep
<1>1. CASE UNCHANGED vars BY Zenon, <1>0, <1>1 DEF vars, table
<1>2. CASE Tick BY <1>2 DEF Tick, RowStep
<1>3. ASSUME NEW k \in Consumers, Steps(k) PROVE RowStep(c)
  <2>1. CASE BeginClaim(k) BY Zenon, <1>0, <2>1 DEF BeginClaim, table
  <2>2. CASE ClaimRow(k)
    <3>1. PICK d \in Copies : /\ Due(d)
                              /\ row' = [row EXCEPT ![d] = Claimed(@)]
                              /\ claims' = [claims EXCEPT ![d] = @ + 1]
      BY Zenon, <2>2 DEF ClaimRow
    <3> QED BY Zenon, <3>1 DEF RowStep
  <2>3. CASE ClaimNothing(k) BY <1>0, <2>3 DEF ClaimNothing, table
  <2>4. CASE ClaimFails(k) BY <1>0, <2>4 DEF ClaimFails, table
  <2>5. CASE ClaimReturns(k) BY <1>0, <2>5 DEF ClaimReturns, table
  <2>6. CASE Unpark(k) BY <1>0, <2>6 DEF Unpark, table
  <2>7. CASE Settle(k)
    <3>1. CASE UNCHANGED row BY <1>0, <2>7, <3>1 DEF Settle
    <3>2. ASSUME row[task[k].copy].fence = task[k].fence,
                 NEW r \in Outcomes(row[task[k].copy]), row' = [row EXCEPT ![task[k].copy] = r]
          PROVE  RowStep(c)
      <4>1. CASE c = task[k].copy BY Zenon, <2>7, <3>2, <4>1 DEF Settle, RowStep, Holds
      <4>2. CASE c # task[k].copy BY <2>7, <3>2, <4>2 DEF Settle, RowStep
      <4> QED BY <4>1, <4>2
    <3> QED BY Zenon, <2>7, <3>1, <3>2 DEF Settle, Outcomes
  <2>8. CASE SettleFails(k) BY <1>0, <2>8 DEF SettleFails, table
  <2> QED BY Zenon, <1>3, <2>1, <2>2, <2>3, <2>4, <2>5, <2>6, <2>7, <2>8 DEF Steps
<1>4. ASSUME NEW m \in Msgs, Publish(m) PROVE RowStep(c) BY <1>4 DEF Publish, RowStep
<1>5. ASSUME NEW m \in Msgs, Ring(m) PROVE RowStep(c) BY <1>0, <1>5 DEF Ring, table
<1>6. ASSUME NEW p \in Procs, \/ Start(p) \/ Dispatch(p) \/ BellDrops(p) \/ BellReopens(p)
                              \/ StopBegins(p) \/ Ends(p)
      PROVE RowStep(c)
  BY <1>0, <1>6 DEF Start, Dispatch, BellDrops, BellReopens, StopBegins, Ends, table
<1>7. ASSUME NEW p \in Procs, NEW g \in Groups, Sweep(p, g) PROVE RowStep(c)
  BY Zenon, <1>7 DEF Sweep, RowStep
<1> QED BY Zenon, <1>1, <1>2, <1>3, <1>4, <1>5, <1>6, <1>7 DEF Next

(* What one step may do to what a consumer holds.                           *)
TaskStep(k) ==
    \/ task'[k] = task[k]
    \/ task'[k] = NoTask
    \/ \E c \in Copies : /\ Due(c) /\ row'[c] = Claimed(row[c])
                         /\ task'[k] = [copy |-> c, fence |-> Claimed(row[c]).fence]
                         /\ \A l \in Consumers \ {k} : task'[l] = task[l]

LEMMA EveryStepIsATaskStep ==
    ASSUME TypeOK, [Next]_vars, NEW k \in Consumers PROVE TaskStep(k)
<1> USE DEF TypeOK
<1>0. CASE UNCHANGED task BY <1>0 DEF TaskStep
<1>1. CASE UNCHANGED vars BY Zenon, <1>0, <1>1 DEF vars, tasks
<1>2. CASE Tick BY Zenon, <1>0, <1>2 DEF Tick, tasks
<1>3. ASSUME NEW l \in Consumers, Steps(l) PROVE TaskStep(k)
  <2>1. CASE BeginClaim(l) BY Zenon, <1>0, <2>1 DEF BeginClaim
  <2>2. CASE ClaimRow(l)
    <3>1. PICK c \in Copies :
             /\ Due(c) /\ row' = [row EXCEPT ![c] = Claimed(@)]
             /\ \/ task' = [task EXCEPT ![l] = [copy |-> c, fence |-> Claimed(row[c]).fence]]
                \/ UNCHANGED task
      BY Zenon, <2>2 DEF ClaimRow
    <3> QED BY Zenon, <1>0, <3>1 DEF TaskStep
  <2>3. CASE ClaimNothing(l) BY <1>0, <2>3 DEF ClaimNothing
  <2>4. CASE ClaimFails(l) BY <1>0, <2>4 DEF ClaimFails
  <2>5. CASE ClaimReturns(l) BY <1>0, <2>5 DEF ClaimReturns, TaskStep
  <2>6. CASE Unpark(l) BY Zenon, <1>0, <2>6 DEF Unpark
  <2>7. CASE Settle(l) BY Zenon, <2>7 DEF Settle, TaskStep
  <2>8. CASE SettleFails(l) BY Zenon, <2>8 DEF SettleFails, TaskStep
  <2> QED BY Zenon, <1>3, <2>1, <2>2, <2>3, <2>4, <2>5, <2>6, <2>7, <2>8 DEF Steps
<1>4. ASSUME NEW m \in Msgs, Publish(m) \/ Ring(m) PROVE TaskStep(k)
  BY Zenon, <1>0, <1>4 DEF Publish, Ring, tasks
<1>5. ASSUME NEW p \in Procs, \/ Start(p) \/ Dispatch(p) \/ BellDrops(p) \/ BellReopens(p)
                              \/ StopBegins(p)
      PROVE TaskStep(k)
  BY Zenon, <1>0, <1>5 DEF Start, Dispatch, BellDrops, BellReopens, StopBegins, tasks
<1>6. ASSUME NEW p \in Procs, Ends(p) PROVE TaskStep(k) BY Zenon, <1>6 DEF Ends, TaskStep
<1>7. ASSUME NEW p \in Procs, NEW g \in Groups, Sweep(p, g) PROVE TaskStep(k)
  BY Zenon, <1>0, <1>7 DEF Sweep, tasks
<1> QED BY Zenon, <1>1, <1>2, <1>3, <1>4, <1>5, <1>6, <1>7 DEF Next

-----------------------------------------------------------------------------
(* What the statements do to the fence and to the state.                    *)
LEMMA FenceFields ==
    ASSUME NEW r \in Row
    PROVE  /\ Aged(r).fence = r.fence /\ Aged(r).state = r.state
           /\ Aged(r).attempts = r.attempts
           /\ Claimed(r).fence = r.fence + 1 /\ Claimed(r).state = "leased"
           /\ Claimed(r).attempts = r.attempts
           /\ Reclaimed(r).fence = r.fence + 1 /\ Reclaimed(r).state \in {"ready", "dead"}
           /\ \A o \in Outcomes(r) : /\ o.fence = r.fence
                                     /\ o.state \in {"done", "dead", "ready"}
<1>1. /\ Aged(r).fence = r.fence /\ Aged(r).state = r.state
      /\ Aged(r).attempts = r.attempts
  BY DEF Aged, Row
<1>2. /\ Claimed(r).fence = r.fence + 1 /\ Claimed(r).state = "leased"
      /\ Claimed(r).attempts = r.attempts
  BY DEF Claimed, Row
<1>3. Reclaimed(r).fence = r.fence + 1 /\ Reclaimed(r).state \in {"ready", "dead"}
  BY Zenon DEF Reclaimed, Row
<1>4. \A o \in Outcomes(r) : o.fence = r.fence /\ o.state \in {"done", "dead", "ready"}
  BY Zenon DEF Outcomes, Completed, DeadLettered, Retried, Row
<1> QED BY <1>1, <1>2, <1>3, <1>4

(* No consumer is ahead of a row's fence; one that is level with it holds   *)
(* the lease, and is the only one.                                          *)
Fencing ==
    /\ \A c \in Copies : row[c].state = "absent" => row[c].fence = 0
    /\ \A k \in Consumers, c \in Copies : task[k].copy = c => task[k].fence <= row[c].fence
    /\ \A k \in Consumers, c \in Copies : Holds(k, c) => row[c].state = "leased"
    /\ \A k, l \in Consumers, c \in Copies : Holds(k, c) /\ Holds(l, c) => k = l

(* The fence of a row never falls; it rises whenever the lease changes      *)
(* hands, and a row that keeps it under a lease keeps its lease.            *)
LEMMA RowsMoveForward ==
    ASSUME TypeOK, Fencing, [Next]_vars, NEW c \in Copies
    PROVE  /\ row'[c].fence >= row[c].fence
           /\ row'[c].state = "absent" => row'[c].fence = 0
<1>1. row[c] \in Row /\ RowStep(c) BY Zenon, EveryStepIsARowStep DEF TypeOK
<1>2. CASE row'[c] = row[c] BY <1>1, <1>2 DEF Fencing, Row
<1>3. CASE row'[c] = Aged(row[c])
  <2>1. row'[c].fence = row[c].fence /\ row'[c].state = row[c].state
    BY <1>1, <1>3, FenceFields
  <2> QED BY <1>1, <2>1 DEF Fencing, Row
<1>4. CASE row[c].state = "absent" /\ row'[c] = Inserted
  BY <1>4 DEF Fencing, NewRow, Inserted
<1>5. CASE row'[c] = Claimed(row[c]) BY <1>1, <1>5, FenceFields DEF Row
<1>6. CASE row'[c] \in Outcomes(row[c]) BY <1>1, <1>6, FenceFields DEF Row
<1>7. CASE row'[c] = Reclaimed(row[c]) BY <1>1, <1>7, FenceFields DEF Row
<1> QED BY Zenon, <1>1, <1>2, <1>3, <1>4, <1>5, <1>6, <1>7 DEF RowStep

(* A consumer that is level with the fence after a step was so before it,   *)
(* on a lease that is still the same, or has just claimed a ready row.      *)
LEMMA HoldersComeFromClaims ==
    ASSUME TypeOK, TypeOK', Fencing, [Next]_vars,
           NEW k \in Consumers, NEW c \in Copies, Holds(k, c)'
    PROVE  \/ /\ Holds(k, c) /\ task'[k] = task[k]
              /\ row'[c].state = "leased" /\ row[c].state = "leased"
           \/ /\ row[c].state = "ready" /\ row'[c].state = "leased"
              /\ \A l \in Consumers \ {k} : task'[l] = task[l]
<1>1. row[c] \in Row /\ row'[c] \in Row /\ RowStep(c) BY EveryStepIsARowStep DEF TypeOK
<1>2. task'[k] # NoTask BY BusAssumption DEF Holds, NoTask
<1>3. CASE task'[k] = task[k]
  <2>1. task[k].copy = c /\ task[k].fence <= row[c].fence /\ task[k].fence = row'[c].fence
    BY <1>3 DEF Holds, Fencing
  <2>2. row'[c].fence = row[c].fence /\ Holds(k, c)
    <3>1. row'[c].fence >= row[c].fence BY Zenon, RowsMoveForward
    <3>2. row'[c].fence \in Nat /\ row[c].fence \in Nat BY Zenon, <1>1 DEF Row
    <3>3. row'[c].fence = row[c].fence BY <2>1, <3>1, <3>2
    <3> QED BY Zenon, <2>1, <3>3 DEF Holds
  <2>3. row[c].state = "leased" BY Zenon, <2>2 DEF Fencing
  <2>4. CASE row'[c] = row[c] BY Zenon, <1>3, <2>2, <2>3, <2>4
  <2>5. CASE row'[c] = Aged(row[c]) BY <1>1, <1>3, <2>2, <2>3, <2>5, FenceFields
  <2>6. ASSUME NEW l \in Consumers, Holds(l, c), task' = [task EXCEPT ![l] = NoTask]
        PROVE  FALSE
    <3>1. l = k BY <2>2, <2>6 DEF Fencing
    <3> QED BY Zenon, <1>2, <2>6, <3>1 DEF TypeOK
  <2>7. ~Due(c) BY Zenon, <2>3 DEF Due
  <2>8. row'[c] # Reclaimed(row[c])
    <3>1. row[c].fence + 1 # row[c].fence BY <1>1 DEF Row
    <3> QED BY Zenon, <1>1, <2>2, <3>1, FenceFields
  <2> QED BY <1>1, <2>3, <2>4, <2>5, <2>6, <2>7, <2>8 DEF RowStep
<1>4. ASSUME NEW d \in Copies, Due(d), row'[d] = Claimed(row[d]),
             task'[k] = [copy |-> d, fence |-> Claimed(row[d]).fence],
             \A l \in Consumers \ {k} : task'[l] = task[l]
      PROVE  /\ row[c].state = "ready" /\ row'[c].state = "leased"
             /\ \A l \in Consumers \ {k} : task'[l] = task[l]
  <2>1. d = c BY <1>4 DEF Holds
  <2> QED BY <1>1, <1>4, <2>1, FenceFields DEF Due
<1> QED BY Zenon, <1>2, <1>3, <1>4, EveryStepIsATaskStep DEF TaskStep

LEMMA FencingHolds == Spec => []Fencing
<1>1. Init => Fencing
  BY BusAssumption DEF Init, Fencing, Holds, NoTask, NewRow
<1>2. TypeOK /\ TypeOK' /\ Fencing /\ [Next]_vars => Fencing'
  <2> SUFFICES ASSUME TypeOK, TypeOK', Fencing, [Next]_vars PROVE Fencing'
      OBVIOUS
  <2>1. \A c \in Copies : row'[c].state = "absent" => row'[c].fence = 0
    BY Zenon, RowsMoveForward
  <2>2. ASSUME NEW k \in Consumers, NEW c \in Copies, task'[k].copy = c
        PROVE  task'[k].fence <= row'[c].fence
    <3>0. row[c] \in Row /\ row'[c] \in Row /\ task[k].fence \in Nat BY DEF TypeOK
    <3>1. CASE task'[k] = task[k]
      <4>1. row'[c].fence >= row[c].fence BY RowsMoveForward
      <4>2. task[k].fence <= row[c].fence BY <2>2, <3>1 DEF Fencing
      <4> QED BY <3>0, <3>1, <4>1, <4>2 DEF Row
    <3>2. CASE task'[k] = NoTask BY <2>2, <3>2, BusAssumption DEF NoTask
    <3>3. ASSUME NEW d \in Copies, row'[d] = Claimed(row[d]),
                 task'[k] = [copy |-> d, fence |-> Claimed(row[d]).fence]
          PROVE  task'[k].fence <= row'[c].fence
      <4>1. d = c BY <2>2, <3>3
      <4> QED BY <3>0, <3>3, <4>1 DEF Row
    <3> QED BY Zenon, <3>1, <3>2, <3>3, EveryStepIsATaskStep DEF TaskStep
  <2>3. ASSUME NEW k \in Consumers, NEW c \in Copies, Holds(k, c)'
        PROVE  row'[c].state = "leased"
    BY Zenon, <2>3, HoldersComeFromClaims
  <2>4. ASSUME NEW k \in Consumers, NEW l \in Consumers, NEW c \in Copies,
               Holds(k, c)', Holds(l, c)'
        PROVE  k = l
    <3>1. CASE row[c].state = "leased"
      <4>1. Holds(k, c) /\ Holds(l, c) BY <2>4, <3>1, HoldersComeFromClaims
      <4> QED BY Zenon, <4>1 DEF Fencing
    <3>2. CASE row[c].state = "ready"
      <4>1. ~Holds(k, c) /\ ~Holds(l, c) BY Zenon, <3>2 DEF Fencing
      <4>2. /\ \A j \in Consumers \ {k} : task'[j] = task[j]
            /\ row'[c].fence = row[c].fence + 1
        <5>1. \A j \in Consumers \ {k} : task'[j] = task[j]
          BY Zenon, <2>4, <3>2, HoldersComeFromClaims
        <5>2. row[c] \in Row /\ row'[c].state = "leased" /\ RowStep(c)
          BY <2>4, HoldersComeFromClaims, EveryStepIsARowStep DEF TypeOK
        <5>3. row'[c] = Claimed(row[c])
          BY <3>2, <5>2, FenceFields DEF RowStep, Inserted, NewRow, Expired
        <5> QED BY <5>1, <5>2, <5>3, FenceFields
      <4>3. k # l => task'[l] = task[l] BY <4>2
      <4>4. ASSUME k # l PROVE FALSE
        <5>1. task[l].copy = c /\ task[l].fence = row[c].fence + 1
          BY Zenon, <2>4, <4>2, <4>3, <4>4 DEF Holds
        <5>2. task[l].fence <= row[c].fence BY Zenon, <5>1 DEF Fencing
        <5>3. row[c].fence \in Nat BY DEF TypeOK, Row
        <5> QED BY <5>1, <5>2, <5>3
      <4> QED BY Zenon, <4>4
    <3> QED BY Zenon, <2>4, <3>1, <3>2, HoldersComeFromClaims
  <2> QED BY <2>1, <2>2, <2>3, <2>4 DEF Fencing
<1> QED BY <1>1, <1>2, BusTypeCorrect, PTL DEF Spec

-----------------------------------------------------------------------------
(* Every claim has been charged, or is the one under way.                   *)
Charged(r, n) ==
    /\ r.state = "absent" => n = 0
    /\ r.state = "ready" => n = r.attempts /\ r.attempts < MaxAttempts
    /\ r.state = "leased" => n = r.attempts + 1 /\ r.attempts < MaxAttempts
    /\ r.state \in {"done", "dead"} => n <= r.attempts + 1 /\ n <= MaxAttempts
AllCharged == \A c \in Copies : Charged(row[c], claims[c])

(* A disposition and the sweeper charge the claim that was under way.       *)
LEMMA LeasesAreCharged ==
    ASSUME NEW r \in Row, NEW n \in Nat, r.state = "leased", Charged(r, n)
    PROVE  Charged(Reclaimed(r), n) /\ \A o \in Outcomes(r) : Charged(o, n)
<1>0. /\ n = r.attempts + 1 /\ r.attempts < MaxAttempts
      /\ r.attempts \in Nat /\ MaxAttempts \in Nat
  BY BusAssumption DEF Charged, Row
<1>1. Charged(Reclaimed(r), n)
  <2>1. /\ Reclaimed(r).attempts = r.attempts + 1
        /\ Reclaimed(r).state = IF r.attempts + 1 >= MaxAttempts THEN "dead" ELSE "ready"
    BY Zenon DEF Reclaimed, Row
  <2> QED BY <1>0, <2>1 DEF Charged
<1>2. Charged(Completed(r), n) /\ Charged(DeadLettered(r), n)
  <2>1. /\ Completed(r).attempts = r.attempts /\ Completed(r).state = "done"
        /\ DeadLettered(r).attempts = r.attempts /\ DeadLettered(r).state = "dead"
    BY Zenon DEF Completed, DeadLettered, Row
  <2> QED BY <1>0, <2>1 DEF Charged
<1>3. ASSUME NEW d \in 0 .. MaxWait PROVE Charged(Retried(r, d), n)
  <2>1. /\ Retried(r, d).attempts = r.attempts + 1
        /\ Retried(r, d).state = IF r.attempts + 1 >= Budget THEN "dead" ELSE "ready"
    BY DEF Retried, Row
  <2>2. Budget \in Nat /\ Budget <= MaxAttempts BY BusAssumption DEF Budget
  <2> QED BY <1>0, <2>1, <2>2 DEF Charged
<1> QED BY <1>1, <1>2, <1>3 DEF Outcomes

LEMMA ChargesHold == Spec => []AllCharged
<1>1. Init => AllCharged BY DEF Init, AllCharged, Charged, NewRow
<1>2. TypeOK /\ Fencing /\ AllCharged /\ [Next]_vars => AllCharged'
  <2> SUFFICES ASSUME TypeOK, Fencing, AllCharged, [Next]_vars, NEW c \in Copies
               PROVE  Charged(row'[c], claims'[c])
      BY Zenon DEF AllCharged
  <2>1. /\ row[c] \in Row /\ claims[c] \in Nat /\ Charged(row[c], claims[c])
        /\ RowStep(c)
    BY Zenon, EveryStepIsARowStep DEF TypeOK, AllCharged
  <2>2. CASE row'[c] = Aged(row[c]) /\ claims'[c] = claims[c]
    BY <2>1, <2>2, FenceFields DEF Charged
  <2>3. CASE row[c].state = "absent" /\ row'[c] = Inserted /\ claims'[c] = claims[c]
    <3>1. Inserted.state = "ready" /\ Inserted.attempts = 0 BY Zenon DEF Inserted, NewRow
    <3> QED BY <2>1, <2>3, <3>1, BusAssumption DEF Charged
  <2>4. CASE Due(c) /\ row'[c] = Claimed(row[c]) /\ claims'[c] = claims[c] + 1
    BY <2>1, <2>4, FenceFields DEF Charged, Due
  <2>5. ASSUME NEW k \in Consumers, Holds(k, c), row'[c] \in Outcomes(row[c]),
               claims'[c] = claims[c]
        PROVE  Charged(row'[c], claims'[c])
    BY Zenon, <2>1, <2>5, LeasesAreCharged DEF Fencing
  <2>6. CASE Expired(c) /\ row'[c] = Reclaimed(row[c]) /\ claims'[c] = claims[c]
    BY <2>1, <2>6, LeasesAreCharged DEF Expired
  <2> QED BY Zenon, <2>1, <2>2, <2>3, <2>4, <2>5, <2>6 DEF RowStep
<1> QED BY <1>1, <1>2, BusTypeCorrect, FencingHolds, PTL DEF Spec

(* A copy is given to a consumer at most max_attempts times: _retry and     *)
(* _reclaim_expired charge every claim that does not end the copy.          *)
THEOREM RedeliveryIsBounded == Spec => []DeliveriesAreBounded
<1>1. TypeOK /\ AllCharged /\ Fencing => DeliveriesAreBounded
  <2> SUFFICES ASSUME TypeOK, AllCharged, Fencing, NEW c \in Copies
               PROVE  /\ claims[c] <= row[c].attempts + 1 /\ claims[c] <= MaxAttempts
                      /\ row[c].state = "ready" => claims[c] = row[c].attempts
                      /\ row[c].state \in {"ready", "leased"} => row[c].attempts < MaxAttempts
      BY Zenon DEF DeliveriesAreBounded
  <2>1. /\ row[c].state \in States /\ row[c].attempts \in Nat /\ claims[c] \in Nat
        /\ Charged(row[c], claims[c]) /\ MaxAttempts \in Nat
    BY Zenon, BusAssumption DEF TypeOK, Row, AllCharged
  <2> QED BY <2>1 DEF Charged, States
<1> QED BY <1>1, BusTypeCorrect, FencingHolds, ChargesHold, PTL

-----------------------------------------------------------------------------
LEMMA EveryStepIsAPromisedStep ==
    ASSUME TypeOK, TypeOK', Fencing, Fencing', [Next]_vars, NEW c \in Copies
    PROVE  \/ Promise!Offer(c) \/ Promise!Take(c) \/ Promise!Settle(c) \/ Promise!Drop(c)
           \/ Promise!Revoke(c) \/ Promise!Forget(c) \/ Promise!Keep(c)
<1> DEFINE st == row[c].state
           stNext == row'[c].state
           hs == {k \in Consumers : Holds(k, c)}
           hsNext == {k \in Consumers : Holds(k, c)'}
<1>0. row[c] \in Row /\ row'[c] \in Row /\ RowStep(c)
  BY Zenon, EveryStepIsARowStep DEF TypeOK
<1>1. /\ hs # {} => st = "leased"
      /\ hsNext # {} => stNext = "leased"
      /\ hs = {} \/ \E h \in Consumers : hs = {h}
      /\ hsNext = {} \/ \E h \in Consumers : hsNext = {h}
  BY DEF Fencing
<1>2. st = "leased" => hsNext \subseteq hs
  <2> SUFFICES ASSUME st = "leased", NEW k \in Consumers, Holds(k, c)' PROVE Holds(k, c)
      OBVIOUS
  <2> QED BY Zenon, HoldersComeFromClaims
<1> HIDE DEF hs, hsNext
<1>3. \/ st = "absent" /\ stNext = "ready" /\ hsNext = {}
      \/ st = "ready" /\ stNext = "leased" /\ (hsNext = {} \/ \E h \in Consumers : hsNext = {h})
      \/ st = "leased" /\ hs # {} /\ stNext \in {"done", "dead", "ready"} /\ hsNext = {}
      \/ st = "leased" /\ stNext = "leased" /\ hsNext = {}
      \/ st \in {"ready", "leased"} /\ stNext \in {"ready", "dead"} /\ hsNext = {}
      \/ stNext = st /\ hsNext = hs
  <2>1. ASSUME stNext = st
        PROVE  \/ stNext = st /\ hsNext = hs
               \/ st = "leased" /\ stNext = "leased" /\ hsNext = {}
    <3>1. CASE st = "leased" BY Zenon, <1>1, <1>2, <2>1, <3>1
    <3>2. CASE st # "leased" BY Zenon, <1>1, <2>1, <3>2
    <3> QED BY Zenon, <3>1, <3>2
  <2>2. CASE row'[c] = row[c] BY Zenon, <2>1, <2>2
  <2>3. CASE row'[c] = Aged(row[c])
    <3>1. stNext = st BY <1>0, <2>3, FenceFields
    <3> QED BY Zenon, <2>1, <3>1
  <2>4. CASE st = "absent" /\ row'[c] = Inserted
    <3>1. stNext = "ready" BY Zenon, <2>4 DEF Inserted, NewRow
    <3> QED BY <1>1, <2>4, <3>1
  <2>5. CASE Due(c) /\ row'[c] = Claimed(row[c])
    <3>1. st = "ready" /\ stNext = "leased" BY <1>0, <2>5, FenceFields DEF Due
    <3> QED BY Zenon, <1>1, <3>1
  <2>6. ASSUME NEW k \in Consumers, Holds(k, c), row'[c] \in Outcomes(row[c])
        PROVE  st = "leased" /\ hs # {} /\ stNext \in {"done", "dead", "ready"} /\ hsNext = {}
    <3>1. hs # {} BY Zenon, <2>6 DEF hs
    <3>2. stNext \in {"done", "dead", "ready"} BY Zenon, <1>0, <2>6, FenceFields
    <3> QED BY Zenon, <1>1, <3>1, <3>2
  <2>7. CASE Expired(c) /\ row'[c] = Reclaimed(row[c])
    <3>1. st = "leased" /\ stNext \in {"ready", "dead"} BY <1>0, <2>7, FenceFields DEF Expired
    <3> QED BY Zenon, <1>1, <3>1
  <2> QED BY <1>0, <2>2, <2>3, <2>4, <2>5, <2>6, <2>7, ZenonT(40) DEF RowStep
<1> QED BY Zenon, <1>3 DEF hs, hsNext, Promise!Offer, Promise!Take, Promise!Settle, Promise!Drop,
                    Promise!Revoke, Promise!Forget, Promise!Keep, Promise!Terminal

(* The bus implements FencedWork: a copy is settled only by the one         *)
(* consumer that holds its lease (_complete, _dead and _retry compare the   *)
(* fence), is never done without one, and an ending is final.               *)
THEOREM BusIsFencedWork == Spec => ImplementsFencedWork
<1>1. Init => Promise!Init
  <2>1. ASSUME Init, NEW c \in Copies
        PROVE  row[c].state = "absent" /\ {k \in Consumers : Holds(k, c)} = {}
    BY Zenon, <2>1, BusAssumption DEF Init, Holds, NoTask, NewRow
  <2> QED BY Zenon, <2>1 DEF Promise!Init
<1>2. TypeOK /\ TypeOK' /\ Fencing /\ Fencing' /\ [Next]_vars
        => [Promise!Next]_(Promise!abstractVars)
  BY EveryStepIsAPromisedStep DEF Promise!Next
<1> QED BY <1>1, <1>2, BusTypeCorrect, FencingHolds, PTL
        DEF Spec, ImplementsFencedWork, Promise!Spec

-----------------------------------------------------------------------------
(* A copy nobody has claimed yet is due, and so is one that was announced.  *)
Fresh ==
    /\ \A c \in Copies : row[c].fence = 0 => /\ row[c].state \in {"absent", "ready"}
                                             /\ row[c].wait = 0
    /\ \A p \in Procs : \A c \in notes[p] : row[c].state # "absent"
    /\ \A p \in Procs : \A c \in heard[p] : Due(c) /\ row[c].fence = 0

LEMMA FreshFields ==
    ASSUME NEW r \in Row PROVE r.wait = 0 => Aged(r).wait = 0
BY DEF Aged, Row

(* A row that has never been claimed stays as it was inserted.              *)
LEMMA UnclaimedRowsStay ==
    ASSUME TypeOK, TypeOK', Fencing, Fresh, [Next]_vars, NEW c \in Copies, row'[c].fence = 0
    PROVE  /\ row[c].fence = 0 /\ row'[c].wait = 0
           /\ row'[c].state \in {"absent", "ready"}
           /\ row[c].state = "ready" => row'[c].state = "ready"
<1>1. row[c] \in Row /\ row'[c] \in Row /\ RowStep(c) BY Zenon, EveryStepIsARowStep DEF TypeOK
<1>2. row[c].fence = 0
  <2>1. row'[c].fence >= row[c].fence BY Zenon, RowsMoveForward
  <2> QED BY <1>1, <2>1 DEF Row
<1>3. row[c].state \in {"absent", "ready"} /\ row[c].wait = 0 BY Zenon, <1>2 DEF Fresh
<1>4. CASE row'[c] = row[c] BY Zenon, <1>2, <1>3, <1>4
<1>5. CASE row'[c] = Aged(row[c]) BY <1>1, <1>2, <1>3, <1>5, FenceFields, FreshFields
<1>6. CASE row[c].state = "absent" /\ row'[c] = Inserted BY Zenon, <1>2, <1>6 DEF Inserted, NewRow
<1>7. row'[c] # Claimed(row[c])
  <2>1. Claimed(row[c]).fence = 1 BY <1>1, <1>2, FenceFields
  <2> QED BY <2>1
<1>8. ~Expired(c) /\ \A k \in Consumers : ~Holds(k, c) BY Zenon, <1>3 DEF Expired, Fencing
<1> QED BY Zenon, <1>1, <1>4, <1>5, <1>6, <1>7, <1>8 DEF RowStep

(* What a process has heard, and what is on its way to it.                  *)
LEMMA HeardFromNotes ==
    ASSUME TypeOK, [Next]_vars, NEW p \in Procs
    PROVE  /\ \A c \in notes'[p] : c \in notes[p] \/ row'[c].state # "absent"
           /\ \A c \in heard'[p] :
                 \/ c \in heard[p]
                 \/ c \in notes[p] /\ row[c].fence = 0 /\ row' = row
<1> USE DEF TypeOK
<1>0. CASE UNCHANGED <<notes, heard>> BY Zenon, <1>0
<1>1. CASE UNCHANGED vars BY Zenon, <1>0, <1>1 DEF vars, wires
<1>2. CASE Tick BY Zenon, <1>0, <1>2 DEF Tick, wires
<1>3. ASSUME NEW k \in Consumers, Steps(k)
      PROVE  UNCHANGED notes /\ \A c \in heard'[p] : c \in heard[p]
  <2>1. CASE BeginClaim(k) BY Zenon, <2>1 DEF BeginClaim, wires
  <2>2. CASE ClaimRow(k) BY <2>2 DEF ClaimRow, wires
  <2>3. CASE ClaimNothing(k) \/ ClaimFails(k) \/ ClaimReturns(k)
    BY Zenon, <2>3 DEF ClaimNothing, ClaimFails, ClaimReturns, wires
  <2>4. CASE Unpark(k) BY Zenon, <2>4 DEF Unpark, wires
  <2>5. CASE Settle(k) \/ SettleFails(k) BY Zenon, <2>5 DEF Settle, SettleFails, wires
  <2> QED BY Zenon, <1>3, <2>1, <2>2, <2>3, <2>4, <2>5 DEF Steps
<1>4. ASSUME NEW m \in Msgs, Publish(m) PROVE UNCHANGED <<notes, heard>> BY Zenon, <1>4 DEF Publish
<1>5. ASSUME NEW m \in Msgs, Ring(m)
      PROVE  UNCHANGED heard /\ \A c \in notes'[p] : c \in notes[p] \/ row'[c].state # "absent"
  BY <1>5 DEF Ring, table
<1>6. ASSUME NEW q \in Procs, Dispatch(q)
      PROVE  /\ \A c \in notes'[p] : c \in notes[p]
             /\ \A c \in heard'[p] :
                   \/ c \in heard[p]
                   \/ c \in notes[p] /\ row[c].fence = 0 /\ row' = row
  BY <1>6 DEF Dispatch, table
<1>7. ASSUME NEW q \in Procs, Start(q) \/ BellReopens(q) \/ StopBegins(q)
      PROVE  UNCHANGED <<notes, heard>>
  BY Zenon, <1>7 DEF Start, BellReopens, StopBegins, wires
<1>8. ASSUME NEW q \in Procs, BellDrops(q) \/ Ends(q)
      PROVE  notes'[p] \subseteq notes[p] /\ heard'[p] \subseteq heard[p]
  BY Zenon, <1>8 DEF BellDrops, Ends
<1>9. ASSUME NEW q \in Procs, NEW g \in Groups, Sweep(q, g) PROVE UNCHANGED <<notes, heard>>
  BY <1>9 DEF Sweep, wires
<1> QED BY Zenon, <1>0, <1>1, <1>2, <1>3, <1>4, <1>5, <1>6, <1>7, <1>8, <1>9 DEF Next
(* A claimed copy is not among those that were heard of any more.           *)
LEMMA HeardAreUnclaimed ==
    ASSUME TypeOK, Fencing, Fresh, [Next]_vars, NEW p \in Procs, NEW c \in heard'[p],
           c \in heard[p]
    PROVE  row'[c].fence = 0
<1> USE DEF TypeOK
<1>1. c \in Copies /\ Due(c) /\ row[c].fence = 0 /\ row[c] \in Row BY DEF Fresh
<1>2. CASE UNCHANGED row BY Zenon, <1>1, <1>2
<1>3. CASE Tick BY Zenon, <1>1, <1>3, FenceFields DEF Tick
<1>4. ASSUME NEW m \in Msgs, Publish(m) PROVE row'[c].fence = 0
  BY Zenon, <1>1, <1>4 DEF Publish, Due
<1>5. ASSUME NEW k \in Consumers, ClaimRow(k) PROVE row'[c].fence = 0
  BY <1>1, <1>5 DEF ClaimRow
<1>6. ASSUME NEW k \in Consumers, Settle(k) PROVE row'[c].fence = 0
  <2>1. ~Holds(k, c) BY Zenon, <1>1 DEF Fencing, Due
  <2> QED BY Zenon, <1>1, <1>6, <2>1 DEF Settle, Holds
<1>7. ASSUME NEW q \in Procs, NEW g \in Groups, Sweep(q, g) PROVE row'[c].fence = 0
  BY Zenon, <1>1, <1>7 DEF Sweep, Expired, Due
<1>8. \/ UNCHANGED row \/ Tick \/ (\E m \in Msgs : Publish(m))
      \/ (\E k \in Consumers : ClaimRow(k) \/ Settle(k))
      \/ \E q \in Procs, g \in Groups : Sweep(q, g)
  BY Zenon DEF Next, Steps, BeginClaim, ClaimNothing, ClaimFails, ClaimReturns, Unpark, SettleFails,
         Ring, Start, Dispatch, BellDrops, BellReopens, StopBegins, Ends, table, vars
<1> QED BY <1>2, <1>3, <1>4, <1>5, <1>6, <1>7, <1>8

LEMMA FreshHolds == Spec => []Fresh
<1>1. Init => Fresh BY DEF Init, Fresh, NewRow
<1>2. TypeOK /\ TypeOK' /\ Fencing /\ Fresh /\ [Next]_vars => Fresh'
  <2> SUFFICES ASSUME TypeOK, TypeOK', Fencing, Fresh, [Next]_vars PROVE Fresh'
      BY Zenon
  <2>1. \A c \in Copies : row'[c].fence = 0 => /\ row'[c].state \in {"absent", "ready"}
                                               /\ row'[c].wait = 0
    BY Zenon, UnclaimedRowsStay
  <2>2. ASSUME NEW p \in Procs, NEW c \in notes'[p] PROVE row'[c].state # "absent"
    <3>1. c \in Copies BY Zenon DEF TypeOK
    <3>2. c \in notes[p] \/ row'[c].state # "absent" BY HeardFromNotes
    <3>3. ASSUME row[c].state # "absent" PROVE row'[c].state # "absent"
      <4>1. row[c] \in Row /\ RowStep(c) BY <3>1, EveryStepIsARowStep DEF TypeOK
      <4> QED BY <3>3, <4>1, FenceFields, ZenonT(30) DEF RowStep
    <3> QED BY Zenon, <3>2, <3>3 DEF Fresh
  <2>3. ASSUME NEW p \in Procs, NEW c \in heard'[p]
        PROVE  Due(c)' /\ row'[c].fence = 0
    <3>1. c \in Copies BY DEF TypeOK
    <3>2. /\ row[c].state = "ready"
          /\ row'[c].fence = 0
      <4>1. CASE c \in heard[p] BY <4>1, HeardAreUnclaimed DEF Fresh, Due
      <4>2. CASE c \in notes[p] /\ row[c].fence = 0 /\ row' = row BY <3>1, <4>2 DEF Fresh
      <4> QED BY <4>1, <4>2, HeardFromNotes
    <3> QED BY <3>1, <3>2, UnclaimedRowsStay DEF Due
  <2> QED BY Zenon, <2>1, <2>2, <2>3 DEF Fresh
<1> QED BY <1>1, <1>2, BusTypeCorrect, FencingHolds, PTL DEF Spec

-----------------------------------------------------------------------------
(* From the empty answer on, what was heard of has set the event.           *)
Idle(k) == pc[k] = "parked" \/ (pc[k] = "answered" /\ task[k] = NoTask)
Awake == \A k \in Consumers : Idle(k) /\ ~wake[k] =>
            \A c \in heard[Home[k]] : c[2] # GroupOf[k]

(* A consumer gets there only by an empty claim, when nothing it heard of   *)
(* is left for it; a notification that comes later sets its event.          *)
LEMMA WhoFallsAsleep ==
    ASSUME TypeOK, Fresh, [Next]_vars, NEW k \in Consumers, Idle(k)', ~wake'[k]
    PROVE  \/ Idle(k) /\ ~wake[k] /\ heard'[Home[k]] \subseteq heard[Home[k]]
           \/ heard' = heard /\ \A c \in Copies : c[2] = GroupOf[k] => ~Due(c)
<1> USE DEF TypeOK, Idle
<1>0. Home[k] \in Procs BY Zenon, BusAssumption
<1>1. CASE UNCHANGED <<pc, wake, task, heard>> BY Zenon, <1>1
<1>2. CASE UNCHANGED vars BY Zenon, <1>1, <1>2 DEF vars, tasks
<1>3. ASSUME NEW j \in Consumers, Steps(j)
      PROVE  \/ Idle(k) /\ ~wake[k] /\ heard'[Home[k]] \subseteq heard[Home[k]]
             \/ heard' = heard /\ \A c \in Copies : c[2] = GroupOf[k] => ~Due(c)
  <2>1. CASE BeginClaim(j) BY Zenon, <2>1 DEF BeginClaim, Goes
  <2>2. CASE ClaimRow(j)
    <3>1. PICK c \in Copies :
             /\ heard' = [p \in Procs |-> heard[p] \ {c}]
             /\ \/ /\ Goes(j, "answered")
                   /\ task' = [task EXCEPT ![j] = [copy |-> c, fence |-> Claimed(row[c]).fence]]
                \/ Goes(j, "resting") /\ UNCHANGED task
      BY Zenon, <2>2 DEF ClaimRow
    <3>2. j # k
      <4>1. SUFFICES ASSUME j = k PROVE FALSE BY Zenon
      <4>2. pc'[k] # "parked" BY Zenon, <3>1, <4>1 DEF Goes
      <4>3. pc'[k] = "answered" => task'[k].copy = c BY <3>1, <4>1 DEF Goes
      <4> QED BY <4>2, <4>3, BusAssumption DEF NoTask
    <3>3. pc'[k] = pc[k] /\ task'[k] = task[k] BY Zenon, <3>1, <3>2 DEF Goes
    <3>4. wake'[k] = wake[k] BY Zenon, <2>2, <3>2 DEF ClaimRow
    <3>5. heard'[Home[k]] \subseteq heard[Home[k]] BY Zenon, <3>1, BusAssumption
    <3> QED BY Zenon, <1>0, <3>3, <3>4, <3>5
  <2>3. CASE ClaimNothing(j) BY Zenon, <2>3 DEF ClaimNothing, Goes
  <2>4. CASE ClaimFails(j) BY Zenon, <2>4 DEF ClaimFails, Goes
  <2>5. CASE ClaimReturns(j) BY Zenon, <2>5 DEF ClaimReturns, Goes
  <2>6. CASE Unpark(j) BY Zenon, <2>6 DEF Unpark, Goes
  <2>7. CASE Settle(j) BY Zenon, <2>7 DEF Settle, Goes
  <2>8. CASE SettleFails(j) BY Zenon, <2>8 DEF SettleFails, Goes
  <2> QED BY Zenon, <1>3, <2>1, <2>2, <2>3, <2>4, <2>5, <2>6, <2>7, <2>8 DEF Steps
<1>4. CASE Tick \/ \E m \in Msgs : Publish(m) \/ Ring(m)
  BY Zenon, <1>1, <1>4 DEF Tick, Publish, Ring, tasks
<1>5. ASSUME NEW q \in Procs, Start(q) PROVE Idle(k) /\ ~wake[k] /\ heard' = heard
  BY Zenon, <1>5 DEF Start
<1>6. ASSUME NEW q \in Procs, Dispatch(q)
      PROVE  Idle(k) /\ ~wake[k] /\ heard'[Home[k]] = heard[Home[k]]
  BY Zenon, <1>0, <1>6 DEF Dispatch, WakeAll
<1>7. ASSUME NEW q \in Procs, BellDrops(q) \/ BellReopens(q) \/ StopBegins(q)
      PROVE  UNCHANGED <<pc, wake, task, heard>>
  BY <1>7 DEF BellDrops, BellReopens, StopBegins, tasks
<1>8. ASSUME NEW q \in Procs, Ends(q)
      PROVE  Idle(k) /\ ~wake[k] /\ heard'[Home[k]] \subseteq heard[Home[k]]
  BY <1>0, <1>8 DEF Ends
<1>9. ASSUME NEW q \in Procs, NEW g \in Groups, Sweep(q, g)
      PROVE  UNCHANGED <<pc, wake, task, heard>>
  BY <1>9 DEF Sweep, tasks
<1> QED BY Zenon, <1>1, <1>2, <1>3, <1>4, <1>5, <1>6, <1>7, <1>8, <1>9 DEF Next

(* No consumer parks on a notification: _consume clears its event before    *)
(* it claims, so whatever was dispatched since keeps it awake, and whatever *)
(* came before was there for the claim.                                     *)
THEOREM NoLostWakeup == Spec => []NothingHeardIsSleptThrough
<1>1. Init => Awake BY Zenon DEF Init, Awake, Idle
<1>2. TypeOK /\ Fresh /\ Awake /\ [Next]_vars => Awake'
  <2> SUFFICES ASSUME TypeOK, Fresh, Awake, [Next]_vars,
                      NEW k \in Consumers, Idle(k)', ~wake'[k], NEW c \in heard'[Home[k]]
               PROVE  c[2] # GroupOf[k]
      BY Zenon DEF Awake
  <2>1. CASE Idle(k) /\ ~wake[k] /\ heard'[Home[k]] \subseteq heard[Home[k]]
    BY Zenon, <2>1 DEF Awake
  <2>2. CASE heard' = heard /\ \A d \in Copies : d[2] = GroupOf[k] => ~Due(d)
    <3>1. Home[k] \in Procs BY Zenon, BusAssumption
    <3>2. c \in Copies /\ Due(c) BY Zenon, <2>2, <3>1 DEF Fresh, TypeOK
    <3> QED BY Zenon, <2>2, <3>2
  <2> QED BY Zenon, <2>1, <2>2, WhoFallsAsleep
<1>3. Awake => NothingHeardIsSleptThrough BY DEF Awake, Idle, NothingHeardIsSleptThrough
<1> QED BY <1>1, <1>2, <1>3, BusTypeCorrect, FreshHolds, PTL DEF Spec
=============================================================================
