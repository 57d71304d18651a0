----------------------------- MODULE PoolSteps ------------------------------
(***************************************************************************)
(* What a step of the pool does to its callers, its connections and its     *)
(* queue, for every number of each; from it the types, and that a caller    *)
(* waits only while there is nothing for it to take.  PoolLeases goes on    *)
(* from here to who has which connection.                                   *)
(***************************************************************************)
EXTENDS Pool, TLAPS

(* A caller that goes round the loop of acquire: it came in, or was woken.  *)
Trying(t) ==
    /\ \/ pc[t] = "idle" /\ started
       \/ pc[t] = "queued" /\ fut[t] = "woken"
    /\ UNCHANGED <<started, stopping, server>>
    /\ stopper' = stopper \/ (stopper = "draining" /\ stopper' = "drained")

(* What a caller may do.                                                    *)
Moves(t) ==
    \/ Trying(t) /\ (TakeIdle(t) \/ BeginOpen(t) \/ Enqueue(t) \/ Refuse(t))
    \/ pc[t] = "idle" /\ started /\ Join(t) /\ UNCHANGED <<life, server>>
    \/ Opened(t) \/ OpenFails(t)
    \/ DeadlinePasses(t) \/ Cancel(t) \/ ResumeFailed(t) \/ ResumeHanded(t)
    \/ ReleaseShare(t) \/ ReleaseUnknown(t) \/ ReleaseDrop(t) \/ ReleaseReuse(t)

LEMMA EveryStep ==
    ASSUME [Next]_vars
    PROVE  \/ UNCHANGED vars
           \/ Start \/ Stop \/ StopRaises \/ GraceEnds \/ FinishStop
           \/ \E c \in Conns : Break(c)
           \/ \E t \in Tasks : Moves(t)
<1>1. ASSUME NEW t \in Tasks, Acquire(t) PROVE Moves(t)
  BY <1>1 DEF Acquire, Attempt, Moves, Trying, life
<1>2. ASSUME NEW t \in Tasks, OpenEnds(t) PROVE Moves(t) BY <1>2 DEF OpenEnds, Moves
<1>3. ASSUME NEW t \in Tasks, Resume(t) PROVE Moves(t)
  <2>1. CASE ResumeWoken(t)
    <3>1. Trying(t) BY <2>1 DEF ResumeWoken, Trying
    <3> QED BY <2>1, <3>1 DEF ResumeWoken, Attempt, Moves
  <2> QED BY <1>3, <2>1 DEF Resume, Moves
<1>4. ASSUME NEW t \in Tasks, Release(t) PROVE Moves(t) BY <1>4 DEF Release, Moves
<1> QED BY <1>1, <1>2, <1>3, <1>4 DEF Next, Moves

-----------------------------------------------------------------------------
(* Where a caller is decides what it has and what its future is.            *)
Callers ==
    \A t \in Tasks :
        /\ pc[t] \in {"idle", "opening"} => lease[t] = NoConn /\ fut[t] = "none"
        /\ pc[t] = "holding" => lease[t] \in Conns /\ fut[t] = "none"
        /\ pc[t] = "queued" => fut[t] # "none" /\ (lease[t] \in Conns <=> fut[t] = "handed")

(* Whatever the pool or a caller has was opened.                            *)
Placed ==
    /\ available \subseteq opened /\ borrowed \subseteq opened /\ members \subseteq opened
    /\ \A t \in Tasks : lease[t] \in opened \cup {NoConn}
    /\ \A c \in Conns : shared[c] > 0 => c \in opened

(* Nothing happens before the pool is started, or to stop it before stop.   *)
Fresh ==
    /\ ~started /\ ~stopping =>
        /\ opened = {} /\ closed = {} /\ reserved = {}
        /\ \A t \in Tasks : pc[t] = "idle"
    /\ stopper # "no" => stopping
    /\ stopper = "done" => available = {}

Base == TypeOK /\ Callers /\ Placed /\ Fresh

(* The queue without its i-th entry.                                        *)
LEMMA WithoutOne ==
    ASSUME NEW T, NEW q \in Seq(T), NEW i \in 1 .. Len(q)
    PROVE  LET r == SubSeq(q, 1, i - 1) \o SubSeq(q, i + 1, Len(q))
           IN  /\ r \in Seq(T) /\ Len(r) = Len(q) - 1
               /\ \A j \in 1 .. Len(q) - 1 : r[j] = IF j < i THEN q[j] ELSE q[j + 1]
<1> DEFINE a == SubSeq(q, 1, i - 1)
           b == SubSeq(q, i + 1, Len(q))
<1>1. a \in Seq(T) /\ Len(a) = i - 1 /\ \A j \in 1 .. i - 1 : a[j] = q[j]
  OBVIOUS
<1>2. b \in Seq(T) /\ Len(b) = Len(q) - i /\ \A j \in 1 .. Len(q) - i : b[j] = q[i + j]
  <2>1. b \in Seq(T) OBVIOUS
  <2>2. Len(b) = Len(q) - i OBVIOUS
  <2>3. \A j \in 1 .. Len(q) - i : b[j] = q[i + j] OBVIOUS
  <2> QED BY <2>1, <2>2, <2>3
<1> HIDE DEF a, b
<1>3. a \o b \in Seq(T) /\ Len(a \o b) = Len(a) + Len(b)
  <2>1. a \in Seq(T) /\ b \in Seq(T) BY <1>1, <1>2
  <2> QED BY <2>1
<1>4. ASSUME NEW j \in 1 .. Len(q) - 1
      PROVE  (a \o b)[j] = IF j < i THEN q[j] ELSE q[j + 1]
  <2>1. CASE j < i BY <1>1, <1>2, <2>1
  <2>2. CASE ~(j < i)
    <3>1. j - (i - 1) \in 1 .. Len(q) - i BY <2>2
    <3>2. (a \o b)[j] = b[j - (i - 1)] BY <1>1, <1>2, <2>2, <3>1
    <3>3. b[j - (i - 1)] = q[i + (j - (i - 1))] BY Zenon, <1>2, <3>1
    <3>4. i + (j - (i - 1)) = j + 1 OBVIOUS
    <3> QED BY <2>2, <3>2, <3>3, <3>4
  <2> QED BY Zenon, <2>1, <2>2
<1>5. Len(a \o b) = Len(q) - 1 BY <1>1, <1>2, <1>3
<1> QED BY Zenon, <1>3, <1>4, <1>5 DEF a, b

(* What is behind a place of a sequence is in the rest of it.               *)
LEMMA RestOfSeq ==
    ASSUME NEW S, NEW q \in Seq(S), NEW k \in 1 .. Len(q), NEW i \in 1 .. Len(q), i > k
    PROVE  /\ i - k \in 1 .. Len(SubSeq(q, k + 1, Len(q)))
           /\ SubSeq(q, k + 1, Len(q))[i - k] = q[i]
<1> DEFINE b == SubSeq(q, k + 1, Len(q))
<1>1. Len(b) = Len(q) - k OBVIOUS
<1>2. \A j \in 1 .. Len(q) - k : b[j] = q[k + j] OBVIOUS
<1> HIDE DEF b
<1>3. i - k \in 1 .. Len(q) - k /\ k + (i - k) = i OBVIOUS
<1>4. b[i - k] = q[i] BY Zenon, <1>2, <1>3
<1> QED BY Zenon, <1>1, <1>3, <1>4 DEF b

LEMMA UnqueueOne ==
    ASSUME queue \in Seq(Tasks), NEW t \in Tasks, Unqueue(t)
    PROVE  /\ queue' \in Seq(Tasks)
           /\ \/ UNCHANGED queue /\ \A i \in 1 .. Len(queue) : queue[i] # t
              \/ \E i \in 1 .. Len(queue) :
                    /\ queue[i] = t /\ Len(queue') = Len(queue) - 1
                    /\ \A j \in 1 .. Len(queue) - 1 :
                          queue'[j] = IF j < i THEN queue[j] ELSE queue[j + 1]
<1>1. CASE UNCHANGED queue /\ \A i \in 1 .. Len(queue) : queue[i] # t BY <1>1
<1>2. ASSUME NEW i \in 1 .. Len(queue), queue[i] = t,
             queue' = SubSeq(queue, 1, i - 1) \o SubSeq(queue, i + 1, Len(queue))
      PROVE  /\ queue' \in Seq(Tasks) /\ Len(queue') = Len(queue) - 1
             /\ \A j \in 1 .. Len(queue) - 1 :
                    queue'[j] = IF j < i THEN queue[j] ELSE queue[j + 1]
  <2> DEFINE r == SubSeq(queue, 1, i - 1) \o SubSeq(queue, i + 1, Len(queue))
  <2>1. /\ r \in Seq(Tasks) /\ Len(r) = Len(queue) - 1
        /\ \A j \in 1 .. Len(queue) - 1 : r[j] = IF j < i THEN queue[j] ELSE queue[j + 1]
    BY Zenon, WithoutOne
  <2>2. queue' = r BY <1>2
  <2> HIDE DEF r
  <2> QED BY <2>1, <2>2
<1> QED BY Zenon, <1>1, <1>2 DEF Unqueue

(* _wake_one resolves at most one future, of a caller that waits.           *)
LEMMA WakeOneTypes ==
    ASSUME Base, WakeOne
    PROVE  /\ queue' \in Seq(Tasks) /\ fut' \in [Tasks -> Futures] /\ slipped' \in BOOLEAN
           /\ \A u \in Tasks : \/ fut'[u] = fut[u]
                               \/ fut[u] = "pending" /\ fut'[u] = "woken" /\ pc[u] = "queued"
<1> USE DEF Base, TypeOK
<1>1. CASE queue = <<>> BY <1>1 DEF WakeOne, waiting
<1>2. CASE queue # <<>>
  <2>1. Head(queue) \in Tasks /\ Tail(queue) \in Seq(Tasks) BY <1>2
  <2>2. queue' \in Seq(Tasks) BY Zenon, <1>2, <2>1 DEF WakeOne
  <2>3. slipped' \in BOOLEAN BY <1>2 DEF WakeOne, Raises
  <2>4. \/ fut' = fut
        \/ fut[Head(queue)] = "pending" /\ fut' = [fut EXCEPT ![Head(queue)] = "woken"]
    BY <1>2 DEF WakeOne, Raises, Waits
  <2>5. fut[Head(queue)] = "pending" => pc[Head(queue)] = "queued" BY <2>1 DEF Callers
  <2>6. fut' \in [Tasks -> Futures] BY Zenon, <2>1, <2>4 DEF Futures
  <2> QED BY <2>1, <2>2, <2>3, <2>4, <2>5, <2>6
<1> QED BY <1>1, <1>2

(* What stop does at its end.                                               *)
LEMMA CloseAllTypes ==
    ASSUME Base, CloseAll, stopping', UNCHANGED lease
    PROVE  /\ available' = {} /\ borrowed' = {} /\ members' = {} /\ reserved' = {}
           /\ stopper' = "done" /\ started' = FALSE /\ shared' = shared /\ opened' = opened
           /\ closed' \subseteq opened' /\ Placed' /\ Fresh'
<1>1. closed' \subseteq opened' BY DEF CloseAll, Base, TypeOK, Placed
<1> QED BY <1>1 DEF CloseAll, Base, Placed, Fresh

LEMMA BaseHolds == Spec => []Base
<1>1. Init => Base
  <2> SUFFICES ASSUME Init PROVE Base
      OBVIOUS
  <2>1. queue \in Seq(Tasks) /\ shared \in [Conns -> Nat] BY DEF Init
  <2>2. /\ pc \in [Tasks -> {"idle", "opening", "queued", "holding"}]
        /\ lease \in [Tasks -> Conns \cup {NoConn}] /\ fut \in [Tasks -> Futures]
        /\ late \in [Tasks -> BOOLEAN]
    BY DEF Init, Futures
  <2>3. TypeOK BY Zenon, <2>1, <2>2 DEF Init, TypeOK
  <2> QED BY <2>3, PoolAssumption DEF Init, Base, Callers, Placed, Fresh
<1>2. Base /\ [Next]_vars => Base'
  <2> SUFFICES ASSUME Base, [Next]_vars PROVE Base'
      OBVIOUS
  <2>1. CASE UNCHANGED vars
    BY <2>1, PoolAssumption
       DEF Base, TypeOK, Callers, Placed, Fresh, vars, leases, callers, life, server, waiting
  <2>2. CASE Start
    BY <2>2, PoolAssumption DEF Base, TypeOK, Callers, Placed, Fresh, Start, callers, waiting
  <2>3. CASE Stop
    <3>1. /\ fut' \in [Tasks -> Futures] /\ queue' \in Seq(Tasks)
          /\ \A u \in Tasks : fut'[u] = IF fut[u] = "pending" THEN "refused" ELSE fut[u]
      BY <2>3 DEF Stop, Futures, Waits, Base, TypeOK
    <3>2. Callers' BY <2>3, <3>1 DEF Stop, Base, Callers
    <3>3. CASE CloseAll
      <4>1. /\ available' = {} /\ borrowed' = {} /\ members' = {} /\ reserved' = {}
            /\ stopper' = "done" /\ started' = FALSE /\ shared' = shared /\ opened' = opened
            /\ closed' \subseteq opened' /\ Placed' /\ Fresh'
        BY <2>3, <3>3, CloseAllTypes DEF Stop
      <4>2. TypeOK' BY Zenon, <2>3, <3>1, <4>1 DEF Stop, Base, TypeOK
      <4> QED BY <3>2, <4>1, <4>2 DEF Base
    <3>4. CASE stopper' = "draining" /\ UNCHANGED <<leases, started, server>>
      BY <2>3, <3>1, <3>2, <3>4 DEF Stop, leases, server, Base, TypeOK, Placed, Fresh
    <3> QED BY Zenon, <2>3, <3>3, <3>4 DEF Stop
  <2>4. CASE StopRaises
    <3>1. PICK k \in 1 .. Len(queue) :
             /\ \A i \in 1 .. k - 1 : Waits(queue[i])
             /\ fut' = [u \in Tasks |-> IF \E i \in 1 .. k - 1 : queue[i] = u
                                        THEN "refused" ELSE fut[u]]
             /\ queue' = SubSeq(queue, k + 1, Len(queue))
      BY Zenon, <2>4 DEF StopRaises
    <3>2. queue' \in Seq(Tasks) BY <3>1 DEF Base, TypeOK
    <3>3. /\ fut' \in [Tasks -> Futures]
          /\ \A u \in Tasks : fut'[u] = fut[u] \/ (fut[u] = "pending" /\ fut'[u] = "refused")
      BY <3>1 DEF Futures, Waits, Base, TypeOK
    <3> QED
      BY Zenon, <2>4, <3>2, <3>3
         DEF StopRaises, leases, server, Base, TypeOK, Callers, Placed, Fresh
  <2>5. CASE GraceEnds
    BY <2>5, PoolAssumption
       DEF Base, TypeOK, Callers, Placed, Fresh, GraceEnds, leases, callers, server, waiting
  <2>6. CASE FinishStop
    <3>1. stopping BY <2>6 DEF FinishStop, Base, Fresh
    <3> QED
      BY Zenon, <2>6, <3>1, CloseAllTypes DEF FinishStop, waiting, callers, Base, TypeOK, Callers
  <2>7. ASSUME NEW c \in Conns, Break(c) PROVE Base'
    BY <2>7, PoolAssumption
       DEF Base, TypeOK, Callers, Placed, Fresh, Break, leases, waiting, callers, life, Live
  <2>8. ASSUME NEW t \in Tasks, Moves(t) PROVE Base'
    <3>1. CASE Trying(t) /\ TakeIdle(t)
      BY <3>1, PoolAssumption
         DEF Base, TypeOK, Callers, Placed, Fresh, Trying, TakeIdle, Leased, waiting, server,
         Futures
    <3>2. CASE Trying(t) /\ BeginOpen(t)
      BY Zenon, <3>2, PoolAssumption
         DEF Base, TypeOK, Callers, Placed, Fresh, Trying, BeginOpen, waiting, server, Futures
    <3>3. CASE Trying(t) /\ Enqueue(t)
      BY <3>3, PoolAssumption
         DEF Base, TypeOK, Callers, Placed, Fresh, Trying, Enqueue, leases, server, Futures
    <3>4. CASE Trying(t) /\ Refuse(t)
      BY <3>4, PoolAssumption
         DEF Base, TypeOK, Callers, Placed, Fresh, Trying, Refuse, Fail, leases, waiting, server,
         Futures
    <3>5. CASE pc[t] = "idle" /\ started /\ Join(t) /\ UNCHANGED <<life, server>>
      BY <3>5, PoolAssumption DEF Base, TypeOK, Callers, Placed, Fresh, Join, waiting, life, server
    <3>6. CASE Opened(t)
      BY <3>6, PoolAssumption
         DEF Base, TypeOK, Callers, Placed, Fresh, Opened, Leased, waiting, life, Futures
    <3>7. CASE OpenFails(t)
      BY <3>7, WakeOneTypes, PoolAssumption
         DEF Base, TypeOK, Callers, Placed, Fresh, OpenFails, life, server
    <3>8. CASE DeadlinePasses(t)
      BY Zenon, <3>8, PoolAssumption
         DEF Base, TypeOK, Callers, Placed, Fresh, DeadlinePasses, leases, waiting, life, server,
         Futures, Waits
    <3>9. CASE Cancel(t)
      BY Zenon, <3>9, PoolAssumption
         DEF Base, TypeOK, Callers, Placed, Fresh, Cancel, leases, life, server, Futures,
         Failures, Waits
    <3>10. CASE ResumeFailed(t)
      <4>1. queue' \in Seq(Tasks) BY Zenon, <3>10, UnqueueOne DEF ResumeFailed, Base, TypeOK
      <4> QED BY <3>10, <4>1, PoolAssumption
              DEF ResumeFailed, Fail, SettleDrain, leases, server, Futures, Failures,
                  Base, TypeOK, Callers, Placed, Fresh
    <3>11. CASE ResumeHanded(t)
      BY <3>11, PoolAssumption
         DEF Base, TypeOK, Callers, Placed, Fresh, ResumeHanded, Leased, waiting, life, server,
         Futures
    <3>12. CASE ReleaseShare(t)
      BY <3>12, PoolAssumption
         DEF Base, TypeOK, Callers, Placed, Fresh, ReleaseShare, GaveBack, waiting, life, server
    <3>13. CASE ReleaseUnknown(t)
      BY <3>13, PoolAssumption
         DEF Base, TypeOK, Callers, Placed, Fresh, ReleaseUnknown, GaveBack, leases, waiting,
         life, server
    <3>14. CASE ReleaseDrop(t)
      <4>1. lease[t] \in opened /\ lease[t] \in Conns
        BY <3>14, PoolAssumption DEF ReleaseDrop, LastOut, Base, TypeOK, Callers, Placed
      <4>2. closed' \subseteq opened /\ (stopper' # stopper => stopper = "draining" /\ stopper' = "drained")
        BY Zenon, <3>14, <4>1 DEF ReleaseDrop, SettleDrain, Base, TypeOK
      <4>3. /\ lease' \in [Tasks -> Conns \cup {NoConn}] /\ lease'[t] = NoConn
            /\ \A u \in Tasks \ {t} : lease'[u] = lease[u]
        BY Zenon, <3>14 DEF ReleaseDrop, Base, TypeOK
      <4>4. /\ queue' \in Seq(Tasks) /\ fut' \in [Tasks -> Futures] /\ slipped' \in BOOLEAN
            /\ \A u \in Tasks : \/ fut'[u] = fut[u]
                                \/ fut[u] = "pending" /\ fut'[u] = "woken" /\ pc[u] = "queued"
        BY Zenon, <3>14, WakeOneTypes DEF ReleaseDrop
      <4>5. Callers'
        BY <3>14, <4>1, <4>3, <4>4 DEF ReleaseDrop, LastOut, GaveBack, Base, TypeOK, Callers
      <4>6. /\ available' = available /\ borrowed' = borrowed \ {lease[t]}
            /\ members' = members \ {lease[t]} /\ shared' = [shared EXCEPT ![lease[t]] = 0]
            /\ reserved' = reserved /\ started' = started /\ stopping' = stopping
            /\ opened' = opened /\ pc' = [pc EXCEPT ![t] = "idle"]
            /\ late' = [late EXCEPT ![t] = FALSE] /\ pc[t] = "holding"
        BY Zenon, <3>14 DEF ReleaseDrop, LastOut, GaveBack
      <4>7. TypeOK' BY Zenon, <4>2, <4>3, <4>4, <4>6 DEF Base, TypeOK
      <4>8. Placed' BY <4>1, <4>3, <4>6 DEF Base, TypeOK, Placed
      <4>9. Fresh' BY <4>2, <4>6 DEF Base, Fresh
      <4> QED BY Zenon, <4>5, <4>7, <4>8, <4>9 DEF Base
    <3>15. CASE ReleaseReuse(t)
      <4>1. lease[t] \in opened /\ lease[t] \in Conns
        BY <3>15, PoolAssumption DEF ReleaseReuse, LastOut, Base, TypeOK, Callers, Placed
      <4>2. stopper' # stopper => stopper = "draining" /\ stopper' = "drained"
        BY <3>15 DEF ReleaseReuse, SettleDrain
      <4>3. /\ shared' = [shared EXCEPT ![lease[t]] = 0] /\ members' = members
            /\ reserved' = reserved /\ started' = started /\ stopping' = stopping
            /\ opened' = opened /\ closed' = closed /\ pc' = [pc EXCEPT ![t] = "idle"]
            /\ late' = [late EXCEPT ![t] = FALSE] /\ pc[t] = "holding"
        BY Zenon, <3>15 DEF ReleaseReuse, LastOut, GaveBack, server
      <4>4. Fresh' BY <3>15, <4>2, <4>3 DEF ReleaseReuse, Base, Fresh
      <4>5. /\ available' \subseteq available \cup {lease[t]}
            /\ borrowed' \subseteq borrowed \cup {lease[t]}
        BY <3>15 DEF ReleaseReuse
      <4>6. CASE queue = <<>> \/ Raises
        <5>1. lease' = [lease EXCEPT ![t] = NoConn] /\ fut' = fut
          BY <3>15, <4>6 DEF ReleaseReuse, Raises, waiting
        <5>2. queue' \in Seq(Tasks) /\ slipped' \in BOOLEAN
          <6>1. CASE queue = <<>> BY Zenon, <3>15, <6>1 DEF ReleaseReuse, waiting, Base, TypeOK
          <6>2. CASE queue # <<>>
            <7>1. queue' = Tail(queue) /\ slipped' = (slipped \/ Raises)
              BY <3>15, <6>2 DEF ReleaseReuse
            <7>2. slipped' = TRUE BY Zenon, <4>6, <6>2, <7>1
            <7> QED BY <6>2, <7>1, <7>2 DEF Base, TypeOK
          <6> QED BY Zenon, <6>1, <6>2
        <5>3. TypeOK' BY <4>1, <4>2, <4>3, <4>5, <5>1, <5>2 DEF Base, TypeOK
        <5>4. Callers' BY <4>3, <5>1 DEF Base, TypeOK, Callers
        <5>5. Placed' BY <4>1, <4>3, <4>5, <5>1 DEF Base, TypeOK, Placed
        <5> QED BY Zenon, <4>4, <5>3, <5>4, <5>5 DEF Base
      <4>7. CASE queue # <<>> /\ ~Raises
        <5> DEFINE w == Head(queue)
        <5>1. w \in Tasks /\ Tail(queue) \in Seq(Tasks) /\ fut[w] = "pending"
          BY <4>7 DEF Raises, Waits, Base, TypeOK
        <5> HIDE DEF w
        <5>2. pc[w] = "queued" /\ w # t BY Zenon, <4>3, <5>1 DEF Base, TypeOK, Callers
        <5>3. /\ fut' = [fut EXCEPT ![w] = "handed"]
              /\ lease' = [lease EXCEPT ![t] = NoConn, ![w] = lease[t]]
              /\ queue' = Tail(queue) /\ slipped' = (slipped \/ Raises)
          BY Zenon, <3>15, <4>7 DEF ReleaseReuse, w
        <5>4. fut' \in [Tasks -> Futures] /\ lease' \in [Tasks -> Conns \cup {NoConn}]
          BY Zenon, <4>1, <5>1, <5>3 DEF Futures, Base, TypeOK
        <5>5. slipped' \in BOOLEAN BY Zenon, <4>7, <5>3 DEF Base, TypeOK
        <5>6. TypeOK' BY Zenon, <4>1, <4>2, <4>3, <4>5, <5>1, <5>3, <5>4, <5>5 DEF Base, TypeOK
        <5>7. Callers' BY <4>1, <4>3, <5>1, <5>2, <5>3 DEF Base, TypeOK, Callers
        <5>8. Placed' BY <4>1, <4>3, <4>5, <5>1, <5>3 DEF Base, TypeOK, Placed
        <5> QED BY <4>4, <5>6, <5>7, <5>8 DEF Base
      <4> QED BY <4>6, <4>7
    <3> QED BY <2>8, <3>1, <3>2, <3>3, <3>4, <3>5, <3>6, <3>7, <3>8, <3>9, <3>10, <3>11, <3>12,
               <3>13, <3>14, <3>15 DEF Moves
  <2> QED BY <2>1, <2>2, <2>3, <2>4, <2>5, <2>6, <2>7, <2>8, EveryStep
<1> QED BY <1>1, <1>2, PTL DEF Spec

(* The pool's variables always have their types.                            *)
THEOREM PoolTypeCorrect == Spec => []TypeOK
BY BaseHolds, PTL DEF Base

-----------------------------------------------------------------------------
(* What one step may do to one connection.                                  *)

(* It is where it was, except that it may have been closed.                 *)
Kept(c) == /\ c \in available' <=> c \in available
           /\ c \in borrowed' <=> c \in borrowed
           /\ c \in opened' <=> c \in opened
           /\ shared'[c] = shared[c]
           /\ Holders(c)' = Holders(c)

(* An idle or a new connection is leased.                                   *)
Lent(t, c) == /\ c \in available \/ c \notin opened
              /\ c \notin available' /\ Holders(c)' = Holders(c) \cup {t} /\ fut'[t] = "none"
              /\ \/ c \in borrowed' /\ shared'[c] = shared[c]
                 \/ c \notin borrowed' /\ shared'[c] = 1 /\ Shares(t)

(* One more caller shares it.                                               *)
Joined(t, c) == /\ Shares(t) /\ shared[c] > 0 /\ shared[c] < Depth /\ shared'[c] = shared[c] + 1
                /\ c \notin available' /\ (c \in borrowed' <=> c \in borrowed)
                /\ t \notin Holders(c) /\ Holders(c)' = Holders(c) \cup {t}

(* One caller fewer shares it.                                              *)
Left(t, c) == /\ shared[c] > 1 /\ shared'[c] = shared[c] - 1
              /\ c \in available' <=> c \in available
              /\ c \in borrowed' <=> c \in borrowed
              /\ t \in Holders(c) /\ Holders(c)' = Holders(c) \ {t}

(* Its last caller returns it: it idles, leaves the pool, goes to the next  *)
(* caller, or is booked as borrowed for a waiter that has failed.           *)
Returned(t, c) ==
    /\ t \in Holders(c) /\ (c \in borrowed \/ shared[c] = 1)
    /\ shared'[c] = 0
    /\ \/ /\ c \in available' /\ c \notin borrowed'
          /\ Holders(c)' = Holders(c) \ {t}
       \/ /\ c \notin borrowed' /\ (c \in available' <=> c \in available)
          /\ c \in closed' \/ slipped'
          /\ Holders(c)' = Holders(c) \ {t}
       \/ /\ c \in borrowed' /\ (c \in available' <=> c \in available)
          /\ \E w \in Tasks : Holders(c)' = (Holders(c) \ {t}) \cup {w}
       \/ /\ c \in borrowed' /\ (c \in available' <=> c \in available) /\ slipped'
          /\ Holders(c)' = Holders(c) \ {t}

(* The caller it was handed to shares it from now on.                       *)
BecameShared(t, c) == /\ fut[t] = "handed" /\ t \in Holders(c) /\ Holders(c)' = Holders(c)
                      /\ c \in available' <=> c \in available
                      /\ c \notin borrowed' /\ shared'[c] = 1 /\ fut'[t] = "none" /\ Shares(t)

(* A caller is gone and the pool does not know, or has closed it already.   *)
Gone(t, c) == /\ t \in Holders(c) /\ Holders(c)' = Holders(c) \ {t}
              /\ c \in available' <=> c \in available
              /\ c \in borrowed' <=> c \in borrowed
              /\ shared[c] = 0 /\ shared'[c] = shared[c]
              /\ slipped' \/ c \notin borrowed

(* stop is over.                                                            *)
Shut(c) == /\ c \notin available' /\ c \notin borrowed'
           /\ c \in available \cup borrowed => c \in closed'
           /\ c \in opened' <=> c \in opened
           /\ shared'[c] = shared[c] /\ Holders(c)' = Holders(c)

(* start opened it.                                                         *)
Begun(c) == /\ c \in available' /\ c \notin borrowed' /\ shared'[c] = 0 /\ Holders(c)' = {}

ConnStep(c) ==
    \/ Kept(c) \/ Shut(c) \/ Begun(c)
    \/ \E t \in Tasks : \/ Lent(t, c) \/ Joined(t, c) \/ Left(t, c) \/ Returned(t, c)
                        \/ BecameShared(t, c) \/ Gone(t, c)

LEMMA Rebound ==
    ASSUME TypeOK, NEW t \in Tasks, NEW d, lease' = [lease EXCEPT ![t] = d], NEW c \in Conns
    PROVE  Holders(c)' = IF d = c THEN Holders(c) \cup {t} ELSE Holders(c) \ {t}
BY DEF TypeOK, Holders

LEMMA Unbound ==
    ASSUME TypeOK, NEW t \in Tasks, lease' = [lease EXCEPT ![t] = NoConn], NEW c \in Conns
    PROVE  Holders(c)' = Holders(c) \ {t}
BY Zenon, PoolAssumption DEF TypeOK, Holders

(* What was handed over and not yet taken is not shared.                    *)
Handed == \A t \in Tasks : fut[t] = "handed" => shared[lease[t]] = 0

LEMMA HandOffs ==
    ASSUME Base, [Next]_vars, NEW u \in Tasks, fut'[u] = "handed"
    PROVE  (fut[u] = "handed" /\ lease'[u] = lease[u]) \/ shared'[lease'[u]] = 0
<1> DEFINE G == (fut[u] = "handed" /\ lease'[u] = lease[u]) \/ shared'[lease'[u]] = 0
<1>0. TypeOK /\ Callers BY DEF Base
<1>1. CASE fut'[u] = fut[u] /\ lease'[u] = lease[u] BY Zenon, <1>1
<1>2. CASE UNCHANGED vars BY Zenon, <1>1, <1>2 DEF vars, callers
<1>3. CASE Start \/ GraceEnds \/ FinishStop
  BY Zenon, <1>1, <1>3 DEF Start, GraceEnds, FinishStop, callers
<1>4. CASE Stop BY Zenon, <1>0, <1>4 DEF Stop, TypeOK
<1>5. CASE StopRaises BY Zenon, <1>0, <1>5 DEF StopRaises, TypeOK
<1>6. ASSUME NEW c \in Conns, Break(c) PROVE G BY Zenon, <1>1, <1>6 DEF Break, callers
<1>7. ASSUME NEW t \in Tasks, Moves(t) PROVE G
  <2>1. CASE TakeIdle(t) BY Zenon, <1>0, <2>1 DEF TakeIdle, Leased, TypeOK
  <2>2. CASE BeginOpen(t) \/ Enqueue(t) \/ Refuse(t)
    BY Zenon, <1>0, <2>2 DEF BeginOpen, Enqueue, Refuse, Fail, TypeOK
  <2>3. CASE pc[t] = "idle" /\ Join(t) BY Zenon, <1>0, <2>3 DEF Join, TypeOK, Callers
  <2>4. CASE Opened(t) BY Zenon, <1>0, <2>4 DEF Opened, Leased, TypeOK
  <2>5. CASE OpenFails(t) BY Zenon, <1>0, <2>5, WakeOneTypes DEF OpenFails
  <2>6. CASE DeadlinePasses(t) \/ Cancel(t)
    BY Zenon, <1>0, <2>6 DEF DeadlinePasses, Cancel, TypeOK
  <2>7. CASE ResumeFailed(t) \/ ResumeHanded(t)
    BY Zenon, <1>0, <2>7 DEF ResumeFailed, ResumeHanded, Fail, Leased, TypeOK
  <2>8. CASE ReleaseShare(t) \/ ReleaseUnknown(t)
    BY Zenon, <1>0, <2>8 DEF ReleaseShare, ReleaseUnknown, TypeOK, Callers
  <2>9. CASE ReleaseDrop(t)
    <3>1. fut'[u] = fut[u] BY Zenon, <2>9, WakeOneTypes DEF ReleaseDrop
    <3>2. u # t BY Zenon, <1>0, <2>9, <3>1 DEF ReleaseDrop, LastOut, Callers
    <3> QED BY Zenon, <1>0, <1>1, <2>9, <3>1, <3>2 DEF ReleaseDrop, TypeOK
  <2>10. CASE ReleaseReuse(t)
    <3>1. pc[t] = "holding" /\ lease[t] \in Conns /\ shared'[lease[t]] = 0
      BY Zenon, <1>0, <2>10 DEF ReleaseReuse, LastOut, Callers, TypeOK
    <3>2. CASE queue = <<>> \/ Raises
      BY Zenon, <1>0, <2>10, <3>1, <3>2 DEF ReleaseReuse, TypeOK, Callers, Raises
    <3>3. CASE queue # <<>> /\ ~Raises
      <4>1. /\ Head(queue) \in Tasks
            /\ lease' = [lease EXCEPT ![t] = NoConn, ![Head(queue)] = lease[t]]
            /\ fut' = [fut EXCEPT ![Head(queue)] = "handed"]
        BY <1>0, <2>10, <3>3 DEF ReleaseReuse, TypeOK
      <4>2. CASE u = Head(queue) BY Zenon, <1>0, <3>1, <4>1, <4>2 DEF TypeOK
      <4>3. CASE u # Head(queue)
        <5>1. fut'[u] = fut[u] BY Zenon, <1>0, <4>1, <4>3 DEF TypeOK
        <5>2. u # t BY Zenon, <1>0, <3>1, <5>1 DEF Callers
        <5> QED BY Zenon, <1>0, <4>1, <4>3, <5>1, <5>2 DEF TypeOK
      <4> QED BY Zenon, <4>2, <4>3
    <3> QED BY Zenon, <3>2, <3>3
  <2> QED BY Zenon, <1>7, <2>1, <2>2, <2>3, <2>4, <2>5, <2>6, <2>7, <2>8, <2>9, <2>10 DEF Moves
<1> QED BY Zenon, <1>2, <1>3, <1>4, <1>5, <1>6, <1>7, EveryStep

LEMMA EveryStepIsAConnStep ==
    ASSUME Base, Handed, [Next]_vars, NEW c \in Conns PROVE ConnStep(c)
<1>0. TypeOK /\ Callers /\ Placed BY Zenon DEF Base
<1>1. CASE UNCHANGED <<available, borrowed, shared, lease, opened>>
  BY Zenon, <1>1 DEF ConnStep, Kept, Holders
<1>2. CASE UNCHANGED vars BY Zenon, <1>1, <1>2 DEF vars, leases, callers, server
<1>3. CASE Start
  <2>1. /\ borrowed = {} /\ lease'[c] = lease[c] /\ shared' = shared
        /\ \A t \in Tasks : lease'[t] = NoConn
        /\ shared[c] = 0 /\ borrowed' = {} /\ lease' = lease /\ available = {} /\ opened = {}
    BY <1>0, <1>3 DEF Start, Base, Fresh, Placed, Callers, TypeOK, callers
  <2>2. Holders(c) = {} /\ Holders(c)' = {} BY Zenon, <2>1, PoolAssumption DEF Holders
  <2>3. available' = opened' BY Zenon, <1>3 DEF Start
  <2> QED BY Zenon, <2>1, <2>2, <2>3 DEF ConnStep, Kept, Begun
<1>4. CASE CloseAll /\ UNCHANGED lease
  <2>1. Holders(c)' = Holders(c) BY Zenon, <1>4 DEF Holders
  <2> QED BY <1>4, <2>1 DEF CloseAll, ConnStep, Shut
<1>5. CASE Stop BY Zenon, <1>1, <1>4, <1>5 DEF Stop, leases, server
<1>6. CASE StopRaises \/ GraceEnds BY <1>1, <1>6 DEF StopRaises, GraceEnds, leases, server, callers
<1>7. CASE FinishStop BY <1>4, <1>7 DEF FinishStop, callers
<1>8. ASSUME NEW d \in Conns, Break(d) PROVE ConnStep(c)
  BY <1>1, <1>8 DEF Break, leases, callers
<1>9. ASSUME NEW t \in Tasks, Moves(t) PROVE ConnStep(c)
  <2>1. ASSUME NEW d \in Conns, d \in available \/ d \notin opened, lease[t] = NoConn,
               available' = available \ {d}, Leased(t, d, borrowed \cup {d}),
               opened' = opened \cup {d}
        PROVE  ConnStep(c)
    <3>1. Holders(c)' = IF d = c THEN Holders(c) \cup {t} ELSE Holders(c) \ {t}
      BY Zenon, <1>0, <2>1, Rebound DEF Leased
    <3>2. fut'[t] = "none" BY <1>0, <2>1 DEF Leased, TypeOK
    <3>3. CASE d = c
      BY <1>0, <2>1, <3>1, <3>2, <3>3 DEF ConnStep, Lent, Leased, TypeOK
    <3>4. CASE d # c
      <4>1. Holders(c)' = Holders(c) BY Zenon, <2>1, <3>1, <3>4, PoolAssumption DEF Holders
      <4> QED BY <1>0, <2>1, <3>4, <4>1 DEF ConnStep, Kept, Leased, TypeOK
    <3> QED BY <3>3, <3>4
  <2>2. CASE Trying(t) /\ TakeIdle(t)
    <3>1. lease[t] = NoConn /\ opened' = opened
      BY Zenon, <1>0, <2>2, PoolAssumption DEF Trying, Callers, TypeOK, server
    <3>2. PICK d \in available : available' = available \ {d} /\ Leased(t, d, borrowed \cup {d})
      BY Zenon, <2>2 DEF TakeIdle
    <3>3. d \in Conns /\ opened' = opened \cup {d} BY <1>0, <3>1, <3>2 DEF TypeOK, Placed
    <3> QED BY Zenon, <2>1, <3>1, <3>2, <3>3
  <2>3. CASE Trying(t) /\ (BeginOpen(t) \/ Enqueue(t))
    BY Zenon, <1>1, <2>3 DEF Trying, BeginOpen, Enqueue, leases, server
  <2>4. CASE Trying(t) /\ Refuse(t)
    <3>1. lease[t] = NoConn BY Zenon, <1>0, <2>4, PoolAssumption DEF Trying, Callers, TypeOK
    <3>2. lease' = lease BY Zenon, <1>0, <2>4, <3>1 DEF Refuse, Fail, TypeOK
    <3> QED BY Zenon, <1>1, <2>4, <3>2 DEF Trying, Refuse, leases, server
  <2>5. CASE pc[t] = "idle" /\ Join(t) /\ UNCHANGED <<life, server>>
    <3>1. lease[t] = NoConn /\ Shares(t) BY Zenon, <1>0, <2>5 DEF Callers, Join
    <3>2. PICK d \in Conns : /\ shared[d] > 0 /\ shared[d] < Depth
                             /\ shared' = [shared EXCEPT ![d] = @ + 1]
                             /\ lease' = [lease EXCEPT ![t] = d]
      BY Zenon, <2>5 DEF Join
    <3>3. Holders(c)' = IF d = c THEN Holders(c) \cup {t} ELSE Holders(c) \ {t}
      BY Zenon, <1>0, <3>2, Rebound
    <3>4. available = {} /\ available' = {} /\ borrowed' = borrowed /\ opened' = opened
      BY <2>5 DEF Join, server
    <3>5. t \notin Holders(c) BY Zenon, <3>1, PoolAssumption DEF Holders
    <3>6. CASE d = c
      BY Zenon, <1>0, <3>1, <3>2, <3>3, <3>4, <3>5, <3>6 DEF ConnStep, Joined, TypeOK
    <3>7. CASE d # c
      <4>1. Holders(c)' = Holders(c) BY Zenon, <3>3, <3>5, <3>7
      <4> QED BY Zenon, <1>0, <3>2, <3>4, <3>7, <4>1 DEF ConnStep, Kept, TypeOK
    <3> QED BY <3>6, <3>7
  <2>6. CASE Opened(t)
    <3>1. lease[t] = NoConn BY Zenon, <1>0, <2>6 DEF Opened, Callers
    <3>2. PICK d \in Conns \ opened : opened' = opened \cup {d} /\ Leased(t, d, borrowed \cup {d})
      BY Zenon, <2>6 DEF Opened
    <3>3. available' = available \ {d} BY <1>0, <2>6, <3>2 DEF Opened, Placed
    <3> QED BY Zenon, <2>1, <3>1, <3>2, <3>3
  <2>7. CASE OpenFails(t) BY <1>1, <2>7 DEF OpenFails, server
  <2>8. CASE DeadlinePasses(t) BY <1>1, <2>8 DEF DeadlinePasses, leases, server
  <2>9. CASE Cancel(t)
    <3>1. Holders(c)' = Holders(c) \ {t}
      BY Zenon, <1>0, <2>9, Unbound DEF Cancel
    <3>2. /\ available' = available /\ borrowed' = borrowed /\ shared' = shared
          /\ opened' = opened
      BY <2>9 DEF Cancel, leases, server
    <3>3. CASE t \in Holders(c)
      <4>1. fut[t] = "handed" /\ lease[t] = c
        BY Zenon, <1>0, <2>9, <3>3 DEF Cancel, Callers, Holders
      <4>2. slipped' BY Zenon, <2>9, <4>1 DEF Cancel, Waits
      <4> QED BY <3>1, <3>2, <3>3, <4>1, <4>2 DEF Handed, ConnStep, Gone
    <3>4. CASE t \notin Holders(c) BY <3>1, <3>2, <3>4 DEF ConnStep, Kept
    <3> QED BY Zenon, <3>3, <3>4
  <2>10. CASE ResumeFailed(t)
    <3>1. lease[t] = NoConn BY Zenon, <1>0, <2>10 DEF ResumeFailed, Callers, TypeOK, Failures
    <3>2. lease' = lease BY Zenon, <1>0, <2>10, <3>1 DEF ResumeFailed, Fail, TypeOK
    <3> QED BY <1>1, <2>10, <3>2 DEF ResumeFailed, leases, server
  <2>11. CASE ResumeHanded(t)
    <3>1. lease[t] \in Conns BY Zenon, <1>0, <2>11 DEF ResumeHanded, Callers
    <3>2. Holders(c)' = Holders(c) BY Zenon, <1>0, <2>11 DEF ResumeHanded, Leased, TypeOK, Holders
    <3>3. available' = available /\ opened' = opened BY Zenon, <2>11 DEF ResumeHanded, server
    <3>4. CASE lease[t] = c /\ Shares(t)
      <4>1. fut[t] = "handed" /\ fut'[t] = "none" /\ t \in Holders(c)
        BY Zenon, <1>0, <2>11, <3>4 DEF ResumeHanded, Leased, TypeOK, Holders
      <4>2. c \notin borrowed' /\ shared'[c] = 1
        BY Zenon, <1>0, <2>11, <3>4 DEF ResumeHanded, Leased, TypeOK
      <4> QED BY Zenon, <3>2, <3>3, <3>4, <4>1, <4>2 DEF ConnStep, BecameShared
    <3>5. CASE ~(lease[t] = c /\ Shares(t))
      <4>1. (c \in borrowed' <=> c \in borrowed) /\ shared'[c] = shared[c]
        BY Zenon, <1>0, <2>11, <3>5 DEF ResumeHanded, Leased, TypeOK
      <4> QED BY Zenon, <3>2, <3>3, <4>1 DEF ConnStep, Kept
    <3> QED BY Zenon, <3>4, <3>5
  <2>12. ASSUME pc[t] = "holding", lease' = [lease EXCEPT ![t] = NoConn], opened' = opened
         PROVE  /\ lease[t] \in Conns /\ Holders(c)' = Holders(c) \ {t}
                /\ (lease[t] = c <=> t \in Holders(c))
                /\ lease[t] # c => Holders(c)' = Holders(c)
    <3>1. Holders(c)' = Holders(c) \ {t} BY Zenon, <1>0, <2>12, Unbound
    <3> QED BY Zenon, <1>0, <2>12, <3>1 DEF Callers, Holders
  <2>13. CASE ReleaseShare(t)
    <3>1. CASE lease[t] = c
      BY <1>0, <2>12, <2>13, <3>1 DEF ReleaseShare, server, ConnStep, Left, TypeOK
    <3>2. CASE lease[t] # c
      BY <1>0, <2>12, <2>13, <3>2 DEF ReleaseShare, server, ConnStep, Kept, TypeOK
    <3> QED BY <3>1, <3>2
  <2>14. CASE ReleaseUnknown(t)
    <3>1. CASE lease[t] = c
      BY Zenon, <2>12, <2>14, <3>1 DEF ReleaseUnknown, leases, server, ConnStep, Gone
    <3>2. CASE lease[t] # c
      BY Zenon, <2>12, <2>14, <3>2 DEF ReleaseUnknown, leases, server, ConnStep, Kept
    <3> QED BY <3>1, <3>2
  <2>15. CASE ReleaseDrop(t)
    <3>1. /\ available' = available /\ borrowed' = borrowed \ {lease[t]} /\ opened' = opened
          /\ shared' = [shared EXCEPT ![lease[t]] = 0] /\ LastOut(t)
          /\ lease' = [lease EXCEPT ![t] = NoConn] /\ pc[t] = "holding"
      BY Zenon, <2>15 DEF ReleaseDrop, LastOut
    <3>2. /\ lease[t] \in Conns /\ Holders(c)' = Holders(c) \ {t}
          /\ (lease[t] = c <=> t \in Holders(c))
          /\ lease[t] # c => Holders(c)' = Holders(c)
      BY Zenon, <2>12, <3>1
    <3>3. CASE lease[t] = c
      <4>1. c \in closed' \/ slipped'
        BY Zenon, <2>15, <3>3 DEF ReleaseDrop, WakeOne, Raises
      <4> QED BY Zenon, <1>0, <3>1, <3>2, <3>3, <4>1 DEF ConnStep, Returned, LastOut, TypeOK
    <3>4. CASE lease[t] # c BY <1>0, <3>1, <3>2, <3>4 DEF ConnStep, Kept, TypeOK
    <3> QED BY <3>3, <3>4
  <2>16. CASE ReleaseReuse(t)
    <3>1. /\ shared' = [shared EXCEPT ![lease[t]] = 0] /\ LastOut(t) /\ pc[t] = "holding"
          /\ opened' = opened
      BY <2>16 DEF ReleaseReuse, LastOut, server
    <3>2. CASE queue = <<>> \/ Raises
      <4>1. lease' = [lease EXCEPT ![t] = NoConn] BY Zenon, <2>16, <3>2 DEF ReleaseReuse, Raises
      <4>2. /\ lease[t] \in Conns /\ Holders(c)' = Holders(c) \ {t}
            /\ (lease[t] = c <=> t \in Holders(c))
            /\ lease[t] # c => Holders(c)' = Holders(c)
        BY Zenon, <2>12, <3>1, <4>1
      <4>3. \/ available' = available \cup {lease[t]} /\ borrowed' = borrowed \ {lease[t]}
            \/ available' = available /\ borrowed' = borrowed \cup {lease[t]} /\ slipped'
        BY Zenon, <2>16, <3>2 DEF ReleaseReuse
      <4>4. CASE lease[t] = c
        BY <1>0, <3>1, <4>2, <4>3, <4>4 DEF ConnStep, Returned, LastOut, TypeOK
      <4>5. CASE lease[t] # c BY <1>0, <3>1, <4>2, <4>3, <4>5 DEF ConnStep, Kept, TypeOK
      <4> QED BY <4>4, <4>5
    <3>3. CASE queue # <<>> /\ ~Raises
      <4> DEFINE w == Head(queue)
      <4>1. w \in Tasks /\ fut[w] = "pending" BY <1>0, <3>3 DEF Raises, Waits, TypeOK
      <4>2. /\ lease' = [lease EXCEPT ![t] = NoConn, ![w] = lease[t]]
            /\ available' = available /\ borrowed' = borrowed \cup {lease[t]}
        BY Zenon, <2>16, <3>3 DEF ReleaseReuse
      <4> HIDE DEF w
      <4>3. lease[t] \in Conns /\ lease[w] = NoConn /\ w # t
        BY Zenon, <1>0, <3>1, <4>1 DEF Callers, TypeOK
      <4>4. CASE lease[t] = c
        <5>1. t \in Holders(c) /\ Holders(c)' = (Holders(c) \ {t}) \cup {w}
          BY Zenon, <1>0, <4>1, <4>2, <4>3, <4>4, PoolAssumption DEF Holders, TypeOK
        <5> QED BY Zenon, <1>0, <3>1, <4>1, <4>2, <4>4, <5>1 DEF ConnStep, Returned, LastOut, TypeOK
      <4>5. CASE lease[t] # c
        <5>1. Holders(c)' = Holders(c)
          BY Zenon, <1>0, <4>1, <4>2, <4>3, <4>5, PoolAssumption DEF Holders, TypeOK
        <5> QED BY Zenon, <1>0, <3>1, <4>2, <4>5, <5>1 DEF ConnStep, Kept, TypeOK
      <4> QED BY <4>4, <4>5
    <3> QED BY <3>2, <3>3
  <2> QED BY <1>9, <2>2, <2>3, <2>4, <2>5, <2>6, <2>7, <2>8, <2>9, <2>10, <2>11, <2>13, <2>14,
             <2>15, <2>16 DEF Moves
<1> QED BY Zenon, <1>2, <1>3, <1>5, <1>6, <1>7, <1>8, <1>9, EveryStep

(* Nothing is ever reopened, and what was lost stays lost.                  *)
LEMMA OnlyForward ==
    ASSUME Base, [Next]_vars PROVE closed \subseteq closed' /\ (slipped => slipped')
<1>1. CASE UNCHANGED <<closed, slipped>> BY Zenon, <1>1
<1>2. CASE UNCHANGED vars BY Zenon, <1>1, <1>2 DEF vars, waiting, server
<1>3. CASE Start \/ StopRaises \/ GraceEnds
  BY Zenon, <1>1, <1>3 DEF Start, StopRaises, GraceEnds, waiting, server
<1>4. CASE Stop \/ FinishStop BY <1>1, <1>4 DEF Stop, FinishStop, CloseAll, waiting, server
<1>5. ASSUME NEW c \in Conns, Break(c) PROVE closed \subseteq closed' /\ (slipped => slipped')
  BY Zenon, <1>5 DEF Break, waiting
<1>6. ASSUME NEW t \in Tasks, Moves(t) PROVE closed \subseteq closed' /\ (slipped => slipped')
  <2>1. CASE Trying(t) /\ (TakeIdle(t) \/ BeginOpen(t) \/ Enqueue(t) \/ Refuse(t))
    <3>1. UNCHANGED slipped BY Zenon, <2>1 DEF TakeIdle, BeginOpen, Enqueue, Refuse, waiting
    <3>2. UNCHANGED closed BY <2>1 DEF Trying, server
    <3> QED BY Zenon, <1>1, <3>1, <3>2
  <2>2. CASE Join(t) /\ UNCHANGED <<life, server>> BY <2>2 DEF Join, waiting, server
  <2>3. CASE Opened(t) \/ OpenFails(t)
    BY Zenon, <2>3 DEF Opened, OpenFails, WakeOne, waiting, server
  <2>4. CASE DeadlinePasses(t) \/ Cancel(t) \/ ResumeFailed(t) \/ ResumeHanded(t)
    <3>1. CASE Cancel(t) BY Zenon, <3>1 DEF Cancel, server
    <3>2. CASE DeadlinePasses(t) BY <1>1, <3>2 DEF DeadlinePasses, waiting, server
    <3>3. CASE ResumeFailed(t) BY <1>1, <3>3 DEF ResumeFailed, server
    <3>4. CASE ResumeHanded(t) BY Zenon, <1>1, <3>4 DEF ResumeHanded, waiting, server
    <3> QED BY <2>4, <3>1, <3>2, <3>3, <3>4
  <2>5. CASE ReleaseShare(t) \/ ReleaseUnknown(t)
    BY <2>5 DEF ReleaseShare, ReleaseUnknown, waiting, server
  <2>6. CASE ReleaseDrop(t) BY Zenon, <2>6 DEF ReleaseDrop, WakeOne, waiting
  <2>7. CASE ReleaseReuse(t) BY Zenon, <2>7 DEF ReleaseReuse, waiting, server
  <2> QED BY Zenon, <1>6, <2>1, <2>2, <2>3, <2>4, <2>5, <2>6, <2>7 DEF Moves
<1> QED BY Zenon, <1>2, <1>3, <1>4, <1>5, <1>6, EveryStep

-----------------------------------------------------------------------------
(* A caller whose future is pending can be found by those who wake.         *)
WaitersAreQueued ==
    \A u \in Tasks : Waits(u) => \E i \in 1 .. Len(queue) : queue[i] = u

LEMMA StillQueued ==
    ASSUME NEW q \in Seq(Tasks), q # <<>>, NEW i \in 1 .. Len(q), q[i] # Head(q)
    PROVE  \E j \in 1 .. Len(Tail(q)) : Tail(q)[j] = q[i]
<1>1. i # 1 OBVIOUS
<1>2. i - 1 \in 1 .. Len(Tail(q)) /\ Tail(q)[i - 1] = q[i] BY <1>1
<1> QED BY Zenon, <1>2

(* Somebody who waits after a step did so before, beside no connection that *)
(* idles since then, or has just queued beside none; and is in the queue.   *)
LEMMA WaitingStep ==
    ASSUME Base, WaitersAreQueued, [Next]_vars, NEW u \in Tasks, fut'[u] = "pending"
    PROVE  /\ \E i \in 1 .. Len(queue') : queue'[i] = u
           /\ \/ fut[u] = "pending" /\ available' \subseteq available
              \/ available' = {}
<1> DEFINE Q == \E i \in 1 .. Len(queue') : queue'[i] = u
           A == \/ fut[u] = "pending" /\ available' \subseteq available
                \/ available' = {}
<1>0. TypeOK /\ Callers /\ Fresh BY Zenon DEF Base
<1>1. CASE fut[u] = "pending" /\ UNCHANGED queue /\ available' \subseteq available
  BY Zenon, <1>1 DEF WaitersAreQueued, Waits
<1>2. CASE UNCHANGED vars BY Zenon, <1>1, <1>2 DEF vars, leases, waiting, callers
<1>3. CASE Start BY Zenon, <1>0, <1>3 DEF Start, Fresh, Callers, callers
<1>4. CASE Stop BY Zenon, <1>0, <1>4 DEF Stop, TypeOK, Waits
<1>5. CASE StopRaises
  <2>1. PICK k \in 1 .. Len(queue) :
           /\ ~Waits(queue[k])
           /\ fut' = [t \in Tasks |-> IF \E i \in 1 .. k - 1 : queue[i] = t
                                      THEN "refused" ELSE fut[t]]
           /\ queue' = SubSeq(queue, k + 1, Len(queue))
    BY Zenon, <1>5 DEF StopRaises
  <2>2. fut[u] = "pending" /\ ~\E i \in 1 .. k - 1 : queue[i] = u BY <2>1
  <2>3. PICK i \in 1 .. Len(queue) : queue[i] = u BY Zenon, <2>2 DEF WaitersAreQueued, Waits
  <2>4. i > k BY <2>1, <2>2, <2>3 DEF Waits
  <2>5. queue \in Seq(Tasks) BY Zenon, <1>0 DEF TypeOK
  <2>6. i - k \in 1 .. Len(queue') /\ queue'[i - k] = queue[i]
    BY Zenon, <2>1, <2>4, <2>5, RestOfSeq
  <2> QED BY Zenon, <1>5, <2>2, <2>3, <2>6 DEF StopRaises, leases
<1>6. CASE GraceEnds \/ FinishStop
  BY Zenon, <1>1, <1>6 DEF GraceEnds, FinishStop, CloseAll, leases, waiting, callers
<1>7. ASSUME NEW c \in Conns, Break(c) PROVE Q /\ A
  BY Zenon, <1>1, <1>7 DEF Break, leases, waiting, callers
<1>8. ASSUME NEW t \in Tasks, Moves(t) PROVE Q /\ A
  <2>1. CASE TakeIdle(t) BY Zenon, <1>0, <1>1, <2>1 DEF TakeIdle, Leased, TypeOK, waiting
  <2>2. CASE BeginOpen(t) BY Zenon, <1>0, <1>1, <2>2 DEF BeginOpen, TypeOK, waiting
  <2>3. CASE Enqueue(t)
    <3>1. available' = {} BY Zenon, <2>3 DEF Enqueue, leases
    <3>2. /\ queue' = Append(queue, t) /\ queue \in Seq(Tasks)
          /\ fut' = [fut EXCEPT ![t] = "pending"]
      BY Zenon, <1>0, <2>3 DEF Enqueue, TypeOK
    <3>3. /\ Len(queue') = Len(queue) + 1 /\ queue'[Len(queue) + 1] = t /\ Len(queue) \in Nat
          /\ \A i \in 1 .. Len(queue) : queue'[i] = queue[i]
      BY <3>2
    <3>4. CASE u = t BY <3>1, <3>3, <3>4
    <3>5. CASE u # t
      <4>1. fut[u] = "pending" BY Zenon, <1>0, <3>2, <3>5 DEF TypeOK
      <4>2. PICK i \in 1 .. Len(queue) : queue[i] = u BY Zenon, <4>1 DEF WaitersAreQueued, Waits
      <4>3. i \in 1 .. Len(queue') /\ queue'[i] = u BY <3>3, <4>2
      <4> QED BY Zenon, <3>1, <4>3
    <3> QED BY Zenon, <3>4, <3>5
  <2>4. CASE Refuse(t) BY Zenon, <1>0, <1>1, <2>4 DEF Refuse, Fail, TypeOK, leases, waiting
  <2>5. CASE Join(t) BY Zenon, <1>1, <2>5 DEF Join, waiting
  <2>6. CASE Opened(t) BY Zenon, <1>0, <1>1, <2>6 DEF Opened, Leased, TypeOK, waiting
  <2>7. ASSUME WakeOne, available' = available PROVE Q /\ A
    <3>1. fut[u] = "pending" BY Zenon, <2>7, WakeOneTypes
    <3>2. CASE queue = <<>> BY Zenon, <1>1, <2>7, <3>1, <3>2 DEF WakeOne, waiting
    <3>3. CASE queue # <<>>
      <4>1. u # Head(queue)
        BY <1>0, <2>7, <3>1, <3>3 DEF WakeOne, Raises, Waits, TypeOK
      <4>2. PICK i \in 1 .. Len(queue) : queue[i] = u BY <3>1 DEF WaitersAreQueued, Waits
      <4>3. queue' = Tail(queue) BY <2>7, <3>3 DEF WakeOne
      <4> QED BY Zenon, <1>0, <2>7, <3>1, <3>3, <4>1, <4>2, <4>3, StillQueued DEF TypeOK
    <3> QED BY Zenon, <3>2, <3>3
  <2>8. CASE OpenFails(t) BY Zenon, <2>7, <2>8 DEF OpenFails
  <2>9. CASE DeadlinePasses(t)
    BY Zenon, <1>0, <1>1, <2>9 DEF DeadlinePasses, TypeOK, leases, waiting
  <2>10. CASE Cancel(t) BY Zenon, <1>0, <1>1, <2>10 DEF Cancel, TypeOK, leases
  <2>11. CASE ResumeFailed(t)
    <3>1. fut[u] = "pending" /\ u # t
      BY Zenon, <1>0, <2>11 DEF ResumeFailed, Fail, TypeOK
    <3>2. PICK i \in 1 .. Len(queue) : queue[i] = u BY Zenon, <3>1 DEF WaitersAreQueued, Waits
    <3>3. Q
      <4>1. CASE UNCHANGED queue BY Zenon, <3>2, <4>1
      <4>2. ASSUME NEW k \in 1 .. Len(queue), queue[k] = t, Len(queue') = Len(queue) - 1,
                   \A j \in 1 .. Len(queue) - 1 :
                       queue'[j] = IF j < k THEN queue[j] ELSE queue[j + 1]
            PROVE  Q
        <5>0. Len(queue) \in Nat /\ i # k
          <6>1. queue \in Seq(Tasks) BY Zenon, <1>0 DEF TypeOK
          <6> QED BY <3>1, <3>2, <4>2, <6>1
        <5>1. CASE i < k
          <6>1. i \in 1 .. Len(queue) - 1 BY <5>0, <5>1
          <6> QED BY Zenon, <3>2, <4>2, <5>1, <6>1
        <5>2. CASE i > k
          <6>1. i - 1 \in 1 .. Len(queue) - 1 /\ ~(i - 1 < k) /\ (i - 1) + 1 = i BY <5>0, <5>2
          <6>2. queue'[i - 1] = queue[i] BY Zenon, <4>2, <6>1
          <6> QED BY Zenon, <3>2, <4>2, <6>1, <6>2
        <5> QED BY <5>0, <5>1, <5>2
      <4> QED BY Zenon, <1>0, <2>11, <4>1, <4>2, UnqueueOne DEF ResumeFailed, TypeOK
    <3> QED BY Zenon, <2>11, <3>1, <3>3 DEF ResumeFailed, leases
  <2>12. CASE ResumeHanded(t) BY Zenon, <1>0, <1>1, <2>12 DEF ResumeHanded, Leased, TypeOK, waiting
  <2>13. CASE ReleaseShare(t) \/ ReleaseUnknown(t)
    BY Zenon, <1>1, <2>13 DEF ReleaseShare, ReleaseUnknown, leases, waiting
  <2>14. CASE ReleaseDrop(t) BY Zenon, <2>7, <2>14 DEF ReleaseDrop
  <2>15. CASE ReleaseReuse(t)
    <3>1. fut[u] = "pending"
      BY Zenon, <1>0, <2>15 DEF ReleaseReuse, TypeOK
    <3>2. PICK i \in 1 .. Len(queue) : queue[i] = u BY <3>1 DEF WaitersAreQueued, Waits
    <3>3. queue # <<>> BY <3>2
    <3>4. queue' = Tail(queue) /\ available' = available BY Zenon, <2>15, <3>3 DEF ReleaseReuse
    <3>5. u # Head(queue) BY Zenon, <1>0, <2>15, <3>1, <3>3 DEF ReleaseReuse, Raises, Waits, TypeOK
    <3> QED BY Zenon, <1>0, <3>1, <3>2, <3>3, <3>4, <3>5, StillQueued DEF TypeOK
  <2> QED
    BY Zenon, <1>8, <2>1, <2>2, <2>3, <2>4, <2>5, <2>6, <2>8, <2>9, <2>10, <2>11, <2>12, <2>13,
             <2>14, <2>15 DEF Moves
<1> QED BY <1>2, <1>3, <1>4, <1>5, <1>6, <1>7, <1>8, EveryStep

Waiting == WaitersAreQueued /\ NobodyWaitsForAnIdleConnection

LEMMA WaitingHolds == Spec => []Waiting
<1>1. Init => Waiting
  BY Zenon DEF Init, Waiting, WaitersAreQueued, NobodyWaitsForAnIdleConnection, Waits
<1>2. Base /\ Base' /\ Waiting /\ [Next]_vars => Waiting'
  <2> SUFFICES ASSUME Base, Base', Waiting, [Next]_vars PROVE Waiting'
      BY Zenon
  <2>1. ASSUME NEW u \in Tasks, fut'[u] = "pending"
        PROVE  available' = {} /\ \E i \in 1 .. Len(queue') : queue'[i] = u
    <3>1. /\ \E i \in 1 .. Len(queue') : queue'[i] = u
          /\ \/ fut[u] = "pending" /\ available' \subseteq available
             \/ available' = {}
      BY <2>1, WaitingStep DEF Waiting
    <3> QED BY Zenon, <3>1 DEF Waiting, NobodyWaitsForAnIdleConnection, Waits
  <2> QED BY <2>1 DEF Waiting, WaitersAreQueued, NobodyWaitsForAnIdleConnection, Waits
<1> QED BY <1>1, <1>2, BaseHolds, PTL DEF Spec

(* release hands a connection straight to a waiter and acquire queues only  *)
(* when nothing is idle: whatever else runs in between, no caller waits     *)
(* while a connection sits unused.                                          *)
THEOREM NobodyWaitsInVain == Spec => []NobodyWaitsForAnIdleConnection
BY WaitingHolds, PTL DEF Waiting
=============================================================================
