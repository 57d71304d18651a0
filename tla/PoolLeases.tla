----------------------------- MODULE PoolLeases -----------------------------
(***************************************************************************)
(* Who has which connection, for any number of callers, connections and     *)
(* places in the queue: a connection serves one caller, or as many as it is *)
(* counted for; every borrowed one has a caller that will give it back; and *)
(* what is open or being opened fits in max_size, with a waiter woken for   *)
(* what is left.                                                            *)
(***************************************************************************)
EXTENDS PoolSteps, FiniteSetTheorems

-----------------------------------------------------------------------------
(* A connection that is idle is nobody's; one that is counted as shared has *)
(* as many callers as are counted; any other has one at most, and the pool  *)
(* has it in _borrowed, or has closed it.                                   *)
InUse(c) ==
    /\ c \in available => Holders(c) = {} /\ shared[c] = 0 /\ c \notin borrowed
    /\ c \in borrowed => shared[c] = 0
    /\ shared[c] > 0 => /\ shared[c] <= Depth
                        /\ IsFiniteSet(Holders(c)) /\ Cardinality(Holders(c)) = shared[c]
                        /\ \A t \in Holders(c) : Shares(t)
    /\ shared[c] = 0 => /\ \A t, u \in Holders(c) : t = u
                        /\ Holders(c) # {} => c \in borrowed \cup closed

(* Until a hand-off is lost, a borrowed connection is somebody's, and an    *)
(* open one is idle or somebody's.                                          *)
Accounted(c) ==
    ~slipped => /\ c \in borrowed => Holders(c) # {}
                /\ c \in Live => c \in available \/ Holders(c) # {}

Leases == Handed /\ \A c \in Conns : InUse(c) /\ Accounted(c)

(* The last one out was alone.                                              *)
LEMMA LastOneOut ==
    ASSUME TypeOK, NEW c \in Conns, InUse(c), NEW t \in Holders(c),
           c \in borrowed \/ shared[c] = 1
    PROVE  Holders(c) = {t} /\ c \notin available
<1>1. CASE c \in borrowed BY Zenon, <1>1 DEF InUse
<1>2. CASE shared[c] = 1
  <2>1. IsFiniteSet(Holders(c)) /\ Cardinality(Holders(c)) = 1 BY <1>2 DEF InUse
  <2>2. \E x : Holders(c) = {x} BY Zenon, <2>1, FS_Singleton
  <2> QED BY Zenon, <1>2, <2>2 DEF InUse
<1> QED BY Zenon, <1>1, <1>2

LEMMA InUseStep ==
    ASSUME Base, Base', Handed, NEW c \in Conns, InUse(c), Accounted(c),
           ConnStep(c), closed \subseteq closed', slipped => slipped'
    PROVE  InUse(c)' /\ Accounted(c)'
<1>0. /\ shared[c] \in Nat /\ shared'[c] \in Nat /\ Depth \in Nat \ {0}
      /\ slipped \in BOOLEAN /\ slipped' \in BOOLEAN
  BY Zenon, PoolAssumption DEF Base, TypeOK
<1>1. CASE Kept(c) BY Zenon, <1>1 DEF Kept, InUse, Accounted, Live
<1>2. CASE Shut(c) BY Zenon, <1>2 DEF Shut, InUse, Accounted, Live
<1>3. CASE Begun(c) BY <1>0, <1>3 DEF Begun, InUse, Accounted, Live
<1>4. ASSUME NEW t \in Tasks, Lent(t, c) PROVE InUse(c)' /\ Accounted(c)'
  <2>1. Holders(c) = {} /\ shared[c] = 0
    <3>1. CASE c \in available BY Zenon, <3>1 DEF InUse
    <3>2. CASE c \notin opened
      BY <1>0, <3>2, PoolAssumption DEF Base, Placed, Holders
    <3> QED BY Zenon, <1>4, <3>1, <3>2 DEF Lent
  <2>2. Holders(c)' = {t} BY Zenon, <1>4, <2>1 DEF Lent
  <2>3. IsFiniteSet({t}) /\ Cardinality({t}) = 1 BY Zenon, FS_Singleton
  <2> QED BY <1>0, <1>4, <2>1, <2>2, <2>3 DEF Lent, InUse, Accounted, Live
<1>5. ASSUME NEW t \in Tasks, Joined(t, c) PROVE InUse(c)' /\ Accounted(c)'
  <2>1. IsFiniteSet(Holders(c)) /\ Cardinality(Holders(c)) = shared[c] /\ c \notin borrowed
    BY <1>5 DEF Joined, InUse
  <2>2. IsFiniteSet(Holders(c)') /\ Cardinality(Holders(c)') = shared[c] + 1
    BY <1>5, <2>1, FS_AddElement DEF Joined
  <2> QED BY <1>0, <1>5, <2>1, <2>2 DEF Joined, InUse, Accounted, Live
<1>6. ASSUME NEW t \in Tasks, Left(t, c) PROVE InUse(c)' /\ Accounted(c)'
  <2>1. /\ IsFiniteSet(Holders(c)) /\ Cardinality(Holders(c)) = shared[c]
        /\ c \notin borrowed /\ c \notin available /\ shared[c] <= Depth
    BY <1>0, <1>6 DEF Left, InUse
  <2>2. IsFiniteSet(Holders(c)') /\ Cardinality(Holders(c)') = shared[c] - 1
    BY Zenon, <1>6, <2>1, FS_RemoveElement DEF Left
  <2>3. Holders(c)' # {} BY <1>0, <1>6, <2>2, FS_EmptySet DEF Left
  <2> QED BY <1>0, <1>6, <2>1, <2>2, <2>3 DEF Left, InUse, Accounted, Live
<1>7. ASSUME NEW t \in Tasks, Returned(t, c) PROVE InUse(c)' /\ Accounted(c)'
  <2>1. Holders(c) = {t} /\ c \notin available BY Zenon, <1>7, LastOneOut DEF Returned, Base
  <2> QED BY <1>0, <1>7, <2>1 DEF Returned, InUse, Accounted, Live
<1>8. ASSUME NEW t \in Tasks, BecameShared(t, c) PROVE InUse(c)' /\ Accounted(c)'
  <2>1. t \in Holders(c) /\ shared[c] = 0 BY Zenon, <1>8 DEF BecameShared, Handed, Holders
  <2>2. Holders(c)' = {t} /\ c \notin available' BY Zenon, <1>8, <2>1 DEF BecameShared, InUse
  <2>3. IsFiniteSet({t}) /\ Cardinality({t}) = 1 BY Zenon, FS_Singleton
  <2> QED BY <1>0, <1>8, <2>2, <2>3 DEF BecameShared, InUse, Accounted, Live
<1>9. ASSUME NEW t \in Tasks, Gone(t, c) PROVE InUse(c)' /\ Accounted(c)'
  BY <1>0, <1>9 DEF Gone, InUse, Accounted, Live
<1> QED BY Zenon, <1>1, <1>2, <1>3, <1>4, <1>5, <1>6, <1>7, <1>8, <1>9 DEF ConnStep

LEMMA LeasesHold == Spec => []Leases
<1>1. Init => Leases
  <2> SUFFICES ASSUME Init PROVE Leases
      OBVIOUS
  <2>1. \A c \in Conns : Holders(c) = {} /\ shared[c] = 0 BY Zenon, PoolAssumption DEF Init, Holders
  <2> QED BY <2>1, PoolAssumption DEF Init, Leases, Handed, InUse, Accounted, Live
<1>2. Base /\ Base' /\ Leases /\ [Next]_vars => Leases'
  <2> SUFFICES ASSUME Base, Base', Leases, [Next]_vars PROVE Leases'
      OBVIOUS
  <2>1. \A c \in Conns : ConnStep(c) BY Zenon, EveryStepIsAConnStep DEF Leases
  <2>2. closed \subseteq closed' /\ (slipped => slipped') BY Zenon, OnlyForward
  <2>3. \A c \in Conns : InUse(c)' /\ Accounted(c)' BY Zenon, <2>1, <2>2, InUseStep DEF Leases
  <2>4. ASSUME NEW u \in Tasks, fut'[u] = "handed" PROVE shared'[lease'[u]] = 0
    <3>1. CASE shared'[lease'[u]] = 0 BY Zenon, <3>1
    <3>2. CASE fut[u] = "handed" /\ lease'[u] = lease[u]
      <4> DEFINE c == lease[u]
      <4>1. /\ c \in Conns /\ u \in Holders(c)' /\ u \in Holders(c) /\ shared[c] = 0
            /\ shared'[c] \in Nat
        BY Zenon, <3>2 DEF Base, TypeOK, Callers, Leases, Handed, Holders
      <4>2. InUse(c) /\ ConnStep(c) BY <2>1, <4>1 DEF Leases
      <4> HIDE DEF c
      <4>3. ASSUME Kept(c) \/ Shut(c) PROVE shared'[c] = 0 BY <4>1, <4>3 DEF Kept, Shut
      <4>4. ASSUME Begun(c) PROVE shared'[c] = 0 BY Zenon, <4>1, <4>4 DEF Begun
      <4>5. ASSUME NEW t \in Tasks, Lent(t, c) PROVE FALSE
        <5>1. CASE c \in available BY Zenon, <4>1, <4>2, <5>1 DEF InUse
        <5>2. CASE c \notin opened
          BY Zenon, <4>1, <5>2, PoolAssumption DEF Base, Placed, Holders
        <5> QED BY Zenon, <4>5, <5>1, <5>2 DEF Lent
      <4>6. ASSUME NEW t \in Tasks, Joined(t, c) \/ Left(t, c) PROVE FALSE
        BY <4>1, <4>6 DEF Joined, Left
      <4>7. ASSUME NEW t \in Tasks, Returned(t, c) \/ Gone(t, c) PROVE shared'[c] = 0
        BY Zenon, <4>1, <4>7 DEF Returned, Gone
      <4>8. ASSUME NEW t \in Tasks, BecameShared(t, c) PROVE FALSE
        <5>1. t = u BY Zenon, <4>1, <4>2, <4>8 DEF BecameShared, InUse
        <5> QED BY Zenon, <2>4, <4>8, <5>1 DEF BecameShared
      <4>9. shared'[c] = 0 BY Zenon, <4>2, <4>3, <4>4, <4>5, <4>6, <4>7, <4>8 DEF ConnStep
      <4> QED BY Zenon, <3>2, <4>9 DEF c
    <3> QED BY Zenon, <2>4, <3>1, <3>2, HandOffs
  <2> QED BY Zenon, <2>3, <2>4 DEF Leases, Handed
<1> QED BY <1>1, <1>2, BaseHolds, PTL DEF Spec

(* A connection is idle, or has one exclusive holder, or is shared by as    *)
(* many callers of single statements as the pool counts and no more than    *)
(* pipeline_depth, through every hand-off, expiry, cancellation, break and  *)
(* shutdown, for any number of callers and connections.                     *)
THEOREM ConnectionsAreExclusive == Spec => []LeasesAreExclusive
<1>1. Base /\ Leases => LeasesAreExclusive
  <2> SUFFICES ASSUME Base, Leases, NEW c \in Conns
               PROVE  /\ c \in available => Holders(c) = {} /\ shared[c] = 0 /\ c \notin borrowed
                      /\ shared[c] <= Depth
                      /\ shared[c] > 0 => /\ Cardinality(Holders(c)) = shared[c]
                                          /\ \A t \in Holders(c) : Shares(t)
                      /\ shared[c] = 0 => Cardinality(Holders(c)) <= 1
      BY DEF LeasesAreExclusive
  <2>1. InUse(c) /\ shared[c] \in Nat BY DEF Leases, Base, TypeOK
  <2>2. ASSUME shared[c] = 0 PROVE Cardinality(Holders(c)) <= 1
    <3>1. CASE Holders(c) = {} BY <3>1, FS_EmptySet
    <3>2. ASSUME NEW t \in Holders(c) PROVE Cardinality(Holders(c)) <= 1
      <4>1. Holders(c) = {t} BY Zenon, <2>1, <2>2 DEF InUse
      <4> QED BY <4>1, FS_Singleton
    <3> QED BY Zenon, <3>1, <3>2
  <2> QED BY <2>1, <2>2, PoolAssumption DEF InUse
<1> QED BY <1>1, BaseHolds, LeasesHold, PTL

(* stop reaches its end by closing what it found.                           *)
LEMMA ClosingEndsStop ==
    ASSUME [Next]_vars, stopper # "done", stopper' = "done" PROVE CloseAll
<1>1. CASE UNCHANGED vars BY <1>1 DEF vars, life
<1>2. CASE Start \/ StopRaises \/ GraceEnds \/ \E c \in Conns : Break(c)
  BY Zenon, <1>2 DEF Start, StopRaises, GraceEnds, Break, life
<1>3. CASE Stop \/ FinishStop BY Zenon, <1>3 DEF Stop, FinishStop
<1>4. ASSUME NEW t \in Tasks, Acquire(t) \/ OpenEnds(t) \/ DeadlinePasses(t) \/ Cancel(t)
      PROVE  FALSE
  BY Zenon, <1>4 DEF Acquire, OpenEnds, Opened, OpenFails, DeadlinePasses, Cancel, life
<1>5. ASSUME NEW t \in Tasks, Resume(t) PROVE FALSE
  BY <1>5 DEF Resume, ResumeFailed, ResumeHanded, ResumeWoken, SettleDrain, life
<1>6. ASSUME NEW t \in Tasks, Release(t) PROVE FALSE
  BY <1>6 DEF Release, ReleaseShare, ReleaseUnknown, ReleaseDrop, ReleaseReuse, SettleDrain, life
<1> QED BY Zenon, <1>1, <1>2, <1>3, <1>4, <1>5, <1>6 DEF Next

(* As long as no hand-off, wake-up or stop meets a waiter that has failed   *)
(* and does not know it yet, every connection in _borrowed is somebody's,   *)
(* and what is open after stop has returned is in _shared or in _borrowed   *)
(* and has a holder.                                                        *)
THEOREM BorrowedConnectionsHaveHolders == Spec => []LeasesAreAccountedFor
<1>1. Base /\ Leases => LeasesAreAccountedFor
  <2> SUFFICES ASSUME Base, Leases PROVE LeasesAreAccountedFor
      OBVIOUS
  <2>1. \A c \in Conns : Accounted(c) BY DEF Leases
  <2>2. borrowed \subseteq Conns /\ opened \subseteq Conns BY DEF Base, TypeOK
  <2>3. stopper = "done" => available = {} BY Zenon DEF Base, Fresh
  <2>4. ASSUME NEW c \in Live, Holders(c) # {} PROVE shared[c] > 0 \/ c \in borrowed
    <3>1. InUse(c) /\ shared[c] \in Nat BY <2>2 DEF Leases, Base, TypeOK, Live
    <3>2. CASE shared[c] = 0 BY Zenon, <2>4, <3>1, <3>2 DEF InUse, Live
    <3> QED BY <3>1, <3>2
  <2> QED BY Zenon, <2>1, <2>2, <2>3, <2>4 DEF LeasesAreAccountedFor, Accounted, Live
<1> QED BY <1>1, BaseHolds, LeasesHold, PTL

(* Without sharing (pipeline_depth 1) stop does close everything, as it     *)
(* says, unless a hand-off or a wake-up was lost before: only shared leases *)
(* escape it.                                                               *)
THEOREM StopClosesExclusiveLeases ==
    ASSUME Depth = 1
    PROVE  Spec => [][~slipped /\ stopper # "done" /\ stopper' = "done" => Live' = {}]_vars
<1>1. Base /\ Leases /\ [Next]_vars
        => (~slipped /\ stopper # "done" /\ stopper' = "done" => Live' = {})
  <2> SUFFICES ASSUME Base, Leases, [Next]_vars,
                      ~slipped, stopper # "done", stopper' = "done"
               PROVE  Live' = {}
      OBVIOUS
  <2>1. CloseAll BY ClosingEndsStop
  <2>2. ASSUME NEW c \in Live PROVE c \in available \cup borrowed
    <3>1. c \in Conns /\ InUse(c) /\ Accounted(c) /\ shared[c] \in Nat
      BY Zenon DEF Leases, Base, TypeOK, Live
    <3>2. shared[c] = 0
      <4>1. ASSUME shared[c] > 0 PROVE FALSE
        <5>1. Holders(c) # {} BY <4>1, <3>1, FS_EmptySet DEF InUse
        <5> QED BY <4>1, <3>1, <5>1 DEF InUse, Shares
      <4> QED BY <3>1, <4>1
    <3> QED BY Zenon, <3>1, <3>2 DEF InUse, Accounted, Live
  <2> QED BY Zenon, <2>1, <2>2 DEF CloseAll, Live
<1> QED BY <1>1, BaseHolds, LeasesHold, PTL DEF Spec

-----------------------------------------------------------------------------
(* While the pool runs, what is open is a member, the placeholders are the  *)
(* callers that open one, and both together are max_size at most.           *)
Opening == {t \in Tasks : pc[t] = "opening"}

Counted ==
    ~stopping => /\ Live \subseteq members /\ reserved = Opening
                 /\ IsFiniteSet(members) /\ IsFiniteSet(reserved)
                 /\ Cardinality(members) + Cardinality(reserved) <= MaxSize

(* Whoever waits does so because all the capacity is taken, or because as   *)
(* many callers as could use what is free have been woken and are about to. *)
Woken == {t \in Tasks : fut[t] = "woken"}

PassedOn ==
    ~slipped /\ ~stopping /\ (\E t \in Tasks : Waits(t)) =>
        Cardinality(Woken) + Cardinality(members) + Cardinality(reserved) >= MaxSize

Capacity == Counted /\ IsFiniteSet(Woken) /\ PassedOn

(* Who has been woken after _wake_one.                                      *)
LEMMA WokenByOne ==
    ASSUME Base, Waiting, WakeOne, IsFiniteSet(Woken)
    PROVE  /\ IsFiniteSet(Woken')
           /\ \/ slipped'
              \/ \A t \in Tasks : ~Waits(t)'
              \/ Cardinality(Woken') = Cardinality(Woken) + 1
<1>1. CASE queue = <<>>
  <2>1. fut' = fut /\ Woken' = Woken BY Zenon, <1>1 DEF WakeOne, Woken
  <2>2. \A t \in Tasks : ~Waits(t) BY <1>1 DEF Waiting, WaitersAreQueued
  <2> QED BY Zenon, <2>1, <2>2 DEF Waits
<1>2. CASE queue # <<>> /\ Raises
  <2>1. fut' = fut /\ Woken' = Woken /\ slipped' BY Zenon, <1>2 DEF WakeOne, Woken
  <2> QED BY Zenon, <2>1
<1>3. CASE queue # <<>> /\ ~Raises
  <2> DEFINE w == Head(queue)
  <2>1. /\ w \in Tasks /\ fut[w] = "pending" /\ fut' = [fut EXCEPT ![w] = "woken"]
    BY <1>3 DEF WakeOne, Raises, Waits, Base, TypeOK
  <2> HIDE DEF w
  <2>2. Woken' = Woken \cup {w} /\ w \notin Woken BY <2>1 DEF Woken, Base, TypeOK
  <2> QED BY <2>2, FS_AddElement
<1> QED BY Zenon, <1>1, <1>2, <1>3

(* A step that leaves the capacity alone, wakes nobody and lets nobody new  *)
(* wait.                                                                    *)
Even == /\ UNCHANGED <<members, reserved>> /\ Opening' = Opening /\ Live' \subseteq Live
        /\ Woken' = Woken
        /\ stopping => stopping'
        /\ slipped => slipped'
        /\ (\E t \in Tasks : Waits(t)') => (\E t \in Tasks : Waits(t))

LEMMA EvenStep == ASSUME Capacity, Even PROVE Capacity'
BY DEF Capacity, Counted, PassedOn, Even

LEMMA CapacityHolds == Spec => []Capacity
<1>1. Init => Capacity
  <2> SUFFICES ASSUME Init PROVE Capacity
      OBVIOUS
  <2>1. Opening = {} /\ Woken = {} /\ Live = {} /\ members = {} /\ reserved = {}
    BY Zenon DEF Init, Opening, Woken, Live
  <2>2. \A t \in Tasks : ~Waits(t) BY DEF Init, Waits
  <2>3. IsFiniteSet({}) /\ Cardinality({}) = 0 BY Zenon, FS_EmptySet
  <2> QED BY <2>1, <2>2, <2>3, PoolAssumption DEF Capacity, Counted, PassedOn
<1>2. Base /\ Base' /\ Waiting /\ Waiting' /\ Capacity /\ [Next]_vars => Capacity'
  <2> SUFFICES ASSUME Base, Base', Waiting, Waiting', Capacity, [Next]_vars PROVE Capacity'
      BY Zenon
  <2>0. /\ TypeOK /\ Callers /\ Placed /\ Fresh /\ MaxSize \in Nat /\ IsFiniteSet(Woken)
        /\ Cardinality(Woken) \in Nat
        /\ ~stopping => /\ Cardinality(members) \in Nat /\ Cardinality(reserved) \in Nat
                        /\ Live \subseteq members /\ reserved = Opening
                        /\ IsFiniteSet(members) /\ IsFiniteSet(reserved)
                        /\ Cardinality(members) + Cardinality(reserved) <= MaxSize
    BY Zenon, FS_CardinalityType, PoolAssumption DEF Base, Capacity, Counted
  <2>1. CASE UNCHANGED vars
    BY Zenon, <2>1, EvenStep
       DEF vars, leases, waiting, callers, life, server, Even, Opening, Woken, Live, Waits
  <2>2. CASE Start
    <3>1. PICK S \in SUBSET Conns : /\ IsFiniteSet(S) /\ Cardinality(S) = MinSize
                                    /\ members' = S /\ opened' = S
      BY Zenon, <2>2 DEF Start
    <3>2. /\ reserved' = {} /\ pc' = pc /\ fut' = fut /\ \A t \in Tasks : pc[t] = "idle"
      BY Zenon, <2>0, <2>2 DEF Start, Fresh, callers
    <3>3. Opening' = {} /\ Woken' = Woken /\ \A t \in Tasks : ~Waits(t)'
      BY Zenon, <2>0, <3>2 DEF Opening, Woken, Waits, Callers
    <3>4. Live' \subseteq members' BY Zenon, <3>1 DEF Live
    <3>5. IsFiniteSet({}) /\ Cardinality({}) = 0 BY Zenon, FS_EmptySet
    <3>6. Cardinality(members') + Cardinality(reserved') <= MaxSize
      BY <3>1, <3>2, <3>5, PoolAssumption
    <3> QED BY Zenon, <2>0, <3>1, <3>2, <3>3, <3>4, <3>5, <3>6 DEF Capacity, Counted, PassedOn
  <2>3. CASE Stop \/ StopRaises
    <3>1. stopping' BY <2>3 DEF Stop, StopRaises
    <3>2. Woken' = Woken
      <4>1. CASE Stop BY Zenon, <2>0, <4>1 DEF Stop, Woken, Waits, TypeOK
      <4>2. CASE StopRaises
        BY <2>0, <4>2 DEF StopRaises, Woken, Waits, TypeOK
      <4> QED BY Zenon, <2>3, <4>1, <4>2
    <3> QED BY Zenon, <2>0, <3>1, <3>2 DEF Capacity, Counted, PassedOn
  <2>4. CASE GraceEnds \/ FinishStop
    <3>1. stopping' BY Zenon, <2>0, <2>4 DEF GraceEnds, FinishStop, Fresh
    <3>2. Woken' = Woken BY Zenon, <2>4 DEF GraceEnds, FinishStop, callers, Woken
    <3> QED BY <2>0, <3>1, <3>2 DEF Capacity, Counted, PassedOn
  <2>5. ASSUME NEW c \in Conns, Break(c) PROVE Capacity'
    BY Zenon, <2>5, EvenStep
       DEF Break, leases, waiting, callers, life, Even, Opening, Woken, Live, Waits
  <2>6. ASSUME NEW t \in Tasks, Moves(t) PROVE Capacity'
    <3> DEFINE m == Cardinality(members)
               r == Cardinality(reserved)
               k == Cardinality(Woken)
    <3>1. ASSUME Trying(t), fut'[t] # "woken", \A u \in Tasks \ {t} : fut'[u] = fut[u]
          PROVE  /\ Woken' = Woken \ {t} /\ IsFiniteSet(Woken') /\ Live' = Live
                 /\ stopping' = stopping /\ Cardinality(Woken') \in Nat /\ t \notin Opening
                 /\ Cardinality(Woken') >= k - 1
      <4>1. Woken' = Woken \ {t} BY Zenon, <3>1 DEF Woken
      <4>2. IsFiniteSet(Woken') /\ Cardinality(Woken') \in {k, k - 1}
        BY Zenon, <2>0, <4>1, FS_RemoveElement
      <4>3. Live' = Live /\ stopping' = stopping /\ t \notin Opening
        BY Zenon, <3>1 DEF Trying, server, Live, Opening
      <4> QED BY <2>0, <4>1, <4>2, <4>3, FS_CardinalityType
    <3>2. CASE Trying(t) /\ TakeIdle(t)
      <4>1. /\ fut' = [fut EXCEPT ![t] = "none"] /\ pc' = [pc EXCEPT ![t] = "holding"]
            /\ members' = members /\ reserved' = reserved /\ available # {}
        BY Zenon, <3>2 DEF TakeIdle, Leased
      <4>2. fut'[t] # "woken" /\ \A u \in Tasks \ {t} : fut'[u] = fut[u]
        BY Zenon, <2>0, <4>1 DEF TypeOK
      <4>3. \A u \in Tasks : ~Waits(u)'
        BY Zenon, <2>0, <4>1 DEF Waiting, NobodyWaitsForAnIdleConnection, Waits, TypeOK
      <4>4. Opening' = Opening BY Zenon, <2>0, <3>1, <3>2, <4>1, <4>2 DEF Opening, TypeOK
      <4> QED BY Zenon, <2>0, <3>1, <3>2, <4>1, <4>2, <4>3, <4>4 DEF Capacity, Counted, PassedOn
    <3>3. CASE Trying(t) /\ BeginOpen(t)
      <4>1. /\ fut' = [fut EXCEPT ![t] = "none"] /\ pc' = [pc EXCEPT ![t] = "opening"]
            /\ members' = members /\ reserved' = reserved \cup {t} /\ m + r < MaxSize
            /\ slipped' = slipped
        BY Zenon, <3>3 DEF BeginOpen, Room, waiting
      <4>2. fut'[t] # "woken" /\ \A u \in Tasks \ {t} : fut'[u] = fut[u]
        BY Zenon, <2>0, <4>1 DEF TypeOK
      <4>3. \A u \in Tasks : Waits(u)' => Waits(u) BY Zenon, <2>0, <4>1 DEF Waits, TypeOK
      <4>4. Opening' = Opening \cup {t} BY Zenon, <2>0, <4>1 DEF Opening, TypeOK
      <4>5. ASSUME ~stopping PROVE IsFiniteSet(reserved') /\ Cardinality(reserved') = r + 1
        BY Zenon, <2>0, <3>1, <3>3, <4>1, <4>2, <4>5, FS_AddElement
      <4> HIDE DEF m, r, k
      <4>6. Counted'
        BY <2>0, <3>1, <3>3, <4>1, <4>2, <4>4, <4>5 DEF Counted, m, r
      <4>7. PassedOn'
        <5>1. ASSUME ~slipped, ~stopping, \E u \in Tasks : Waits(u)
              PROVE  Cardinality(Woken') + m + (r + 1) >= MaxSize
          <6>1. k + m + r >= MaxSize BY Zenon, <5>1 DEF Capacity, PassedOn, k, m, r
          <6>2. m \in Nat /\ r \in Nat /\ k \in Nat BY Zenon, <2>0, <5>1 DEF m, r, k
          <6> QED BY <2>0, <3>1, <3>3, <4>2, <6>1, <6>2
        <5> QED BY <3>1, <3>3, <4>1, <4>2, <4>3, <4>5, <5>1 DEF PassedOn, m, r
      <4> QED BY Zenon, <3>1, <3>3, <4>2, <4>6, <4>7 DEF Capacity
    <3>4. CASE Trying(t) /\ (Enqueue(t) \/ Refuse(t))
      <4>1. /\ \/ fut' = [fut EXCEPT ![t] = "none"] /\ pc' = [pc EXCEPT ![t] = "idle"]
               \/ fut' = [fut EXCEPT ![t] = "pending"] /\ pc' = [pc EXCEPT ![t] = "queued"]
            /\ members' = members /\ reserved' = reserved /\ ~(m + r < MaxSize)
        BY Zenon, <3>4 DEF Enqueue, Refuse, Fail, Room, leases
      <4>2. fut'[t] # "woken" /\ \A u \in Tasks \ {t} : fut'[u] = fut[u]
        BY Zenon, <2>0, <4>1 DEF TypeOK
      <4>3. Opening' = Opening BY Zenon, <2>0, <3>1, <3>4, <4>1, <4>2 DEF Opening, TypeOK
      <4> QED BY <2>0, <3>1, <3>4, <4>1, <4>2, <4>3 DEF Capacity, Counted, PassedOn
    <3>5. CASE pc[t] = "idle" /\ Join(t) /\ UNCHANGED <<life, server>>
      <4>1. Opening' = Opening BY Zenon, <2>0, <3>5 DEF Join, Opening, TypeOK
      <4> QED
        BY Zenon, <3>5, <4>1, EvenStep DEF Join, waiting, life, server, Even, Woken, Live, Waits
    <3>6. CASE Opened(t)
      <4>1. PICK d \in Conns \ opened : /\ opened' = opened \cup {d} /\ members' = members \cup {d}
                                        /\ fut' = [fut EXCEPT ![t] = "none"]
                                        /\ pc' = [pc EXCEPT ![t] = "holding"]
        BY Zenon, <3>6 DEF Opened, Leased
      <4>2. /\ reserved' = reserved \ {t} /\ slipped' = slipped /\ closed' = closed
            /\ stopping' = stopping /\ pc[t] = "opening" /\ t \in Opening
        BY Zenon, <3>6 DEF Opened, waiting, life, Opening
      <4>3. fut' = fut BY Zenon, <2>0, <4>1, <4>2 DEF Callers, TypeOK
      <4>4. /\ Woken' = Woken /\ Opening' = Opening \ {t}
            /\ \A u \in Tasks : Waits(u)' <=> Waits(u)
        BY Zenon, <2>0, <4>1, <4>3 DEF Woken, Opening, Waits, TypeOK
      <4>5. Live' \subseteq Live \cup {d} /\ d \notin members
        BY Zenon, <2>0, <4>1, <4>2 DEF Live, Placed
      <4>6. ASSUME ~stopping
            PROVE  /\ IsFiniteSet(members') /\ Cardinality(members') = m + 1
                   /\ IsFiniteSet(reserved') /\ Cardinality(reserved') = r - 1
        BY Zenon, <2>0, <4>1, <4>2, <4>5, <4>6, FS_AddElement, FS_RemoveElement
      <4> HIDE DEF m, r, k
      <4>7. Counted'
        <5> SUFFICES ASSUME ~stopping PROVE Counted'
            BY Zenon, <4>2 DEF Counted
        <5>1. m \in Nat /\ r \in Nat /\ m + r <= MaxSize BY Zenon, <2>0 DEF m, r
        <5>2. Cardinality(members') + Cardinality(reserved') <= MaxSize BY <2>0, <4>6, <5>1
        <5>3. Live' \subseteq members' /\ reserved' = Opening'
          BY Zenon, <2>0, <4>1, <4>2, <4>4, <4>5
        <5> QED BY Zenon, <4>6, <5>2, <5>3 DEF Counted
      <4>8. PassedOn'
        <5> SUFFICES ASSUME ~slipped, ~stopping, \E u \in Tasks : Waits(u)
                     PROVE  Cardinality(Woken') + Cardinality(members') + Cardinality(reserved')
                               >= MaxSize
            BY Zenon, <4>2, <4>4 DEF PassedOn
        <5>1. k + m + r >= MaxSize BY Zenon DEF Capacity, PassedOn, k, m, r
        <5>2. m \in Nat /\ r \in Nat /\ k \in Nat BY Zenon, <2>0 DEF m, r, k
        <5>3. Cardinality(Woken') = k BY Zenon, <4>4 DEF k
        <5> QED BY <2>0, <4>6, <5>1, <5>2, <5>3
      <4> QED BY Zenon, <2>0, <4>4, <4>7, <4>8 DEF Capacity
    <3> HIDE DEF m, r, k
    <3>7. CASE OpenFails(t)
      <4>1. /\ reserved' = reserved \ {t} /\ members' = members /\ WakeOne
            /\ stopping' = stopping /\ Live' = Live /\ t \in Opening
            /\ pc' = [pc EXCEPT ![t] = "idle"]
        BY Zenon, <3>7 DEF OpenFails, life, server, Opening, Live
      <4>2. /\ IsFiniteSet(Woken')
            /\ slipped' \/ (\A u \in Tasks : ~Waits(u)') \/ Cardinality(Woken') = k + 1
        BY Zenon, <2>0, <4>1, WokenByOne DEF k
      <4>3. Opening' = Opening \ {t} BY Zenon, <2>0, <4>1 DEF Opening, TypeOK
      <4>4. ASSUME ~stopping PROVE IsFiniteSet(reserved') /\ Cardinality(reserved') = r - 1
        BY Zenon, <2>0, <4>1, <4>4, FS_RemoveElement DEF r
      <4>5. Counted'
        BY <2>0, <4>1, <4>3, <4>4 DEF Counted, r
      <4>6. PassedOn'
        <5> SUFFICES ASSUME ~slipped', ~stopping, NEW u \in Tasks, Waits(u)'
                     PROVE  Cardinality(Woken') + Cardinality(members') + Cardinality(reserved')
                               >= MaxSize
            BY Zenon, <4>1 DEF PassedOn
        <5>1. ~slipped /\ fut[u] = "pending"
          BY Zenon, <4>1, WakeOneTypes DEF WakeOne, waiting, Waits
        <5>2. k + m + r >= MaxSize BY Zenon, <5>1 DEF Capacity, PassedOn, k, m, r, Waits
        <5>3. m \in Nat /\ r \in Nat /\ k \in Nat /\ Cardinality(members') = m
          BY Zenon, <2>0, <4>1 DEF m, r, k
        <5>4. Cardinality(Woken') = k + 1 BY Zenon, <4>2
        <5> QED BY <2>0, <4>4, <5>2, <5>3, <5>4
      <4> QED BY Zenon, <4>2, <4>5, <4>6 DEF Capacity
    <3>8. CASE DeadlinePasses(t)
      <4>1. /\ Woken' = Woken /\ \A u \in Tasks : Waits(u)' => Waits(u)
        BY Zenon, <2>0, <3>8 DEF DeadlinePasses, Woken, Waits, TypeOK
      <4> QED BY Zenon, <3>8, <4>1, EvenStep
              DEF DeadlinePasses, leases, waiting, life, server, Even, Opening, Live
    <3>9. CASE Cancel(t)
      <4>1. /\ members' = members /\ reserved' = reserved /\ Opening' = Opening
            /\ Live' = Live /\ stopping' = stopping
            /\ fut' = [fut EXCEPT ![t] = "cancelled"] /\ slipped' = (slipped \/ ~Waits(t))
        BY Zenon, <3>9 DEF Cancel, leases, life, server, Opening, Live
      <4>2. Woken' = Woken \ {t} /\ \A u \in Tasks : Waits(u)' => Waits(u)
        BY Zenon, <2>0, <4>1 DEF Woken, Waits, TypeOK
      <4>3. CASE t \in Woken
        <5>1. slipped' BY Zenon, <4>1, <4>3 DEF Woken, Waits
        <5>2. IsFiniteSet(Woken') BY <2>0, <4>2, FS_RemoveElement
        <5> QED BY Zenon, <2>0, <4>1, <5>1, <5>2 DEF Capacity, Counted, PassedOn
      <4>4. CASE t \notin Woken BY Zenon, <4>1, <4>2, <4>4, EvenStep DEF Even
      <4> QED BY Zenon, <4>3, <4>4
    <3>10. CASE ResumeFailed(t) \/ ResumeHanded(t)
      <4>1. /\ fut' = [fut EXCEPT ![t] = "none"] /\ pc[t] = "queued" /\ fut[t] # "woken"
            /\ pc' = [pc EXCEPT ![t] = "idle"] \/ pc' = [pc EXCEPT ![t] = "holding"]
        BY <3>10 DEF ResumeFailed, ResumeHanded, Fail, Leased, Failures
      <4>2. /\ Woken' = Woken /\ Opening' = Opening /\ \A u \in Tasks : Waits(u)' => Waits(u)
        BY Zenon, <2>0, <4>1 DEF Woken, Opening, Waits, TypeOK
      <4>3. /\ members' = members /\ reserved' = reserved /\ stopping' = stopping
            /\ slipped' = slipped /\ Live' = Live
        BY Zenon, <3>10 DEF ResumeFailed, ResumeHanded, leases, waiting, life, server, Live
      <4> QED BY <4>2, <4>3, EvenStep DEF Even
    <3>11. CASE ReleaseShare(t) \/ ReleaseUnknown(t)
      <4>1. /\ pc[t] = "holding" /\ pc' = [pc EXCEPT ![t] = "idle"] /\ fut' = fut
            /\ members' = members /\ reserved' = reserved /\ stopping' = stopping
            /\ slipped' = slipped /\ Live' = Live
        BY Zenon, <3>11
           DEF ReleaseShare, ReleaseUnknown, GaveBack, leases, waiting, life, server, Live
      <4>2. Opening' = Opening BY Zenon, <2>0, <4>1 DEF Opening, TypeOK
      <4> QED BY Zenon, <4>1, <4>2, EvenStep DEF Even, Woken, Waits
    <3>12. CASE ReleaseDrop(t)
      <4> DEFINE c == lease[t]
      <4>1. /\ members' = members \ {c} /\ reserved' = reserved /\ WakeOne
            /\ stopping' = stopping /\ opened' = opened /\ closed \subseteq closed'
            /\ pc[t] = "holding" /\ pc' = [pc EXCEPT ![t] = "idle"]
            /\ stopping \/ c \in closed
        BY Zenon, <3>12 DEF ReleaseDrop, LastOut, GaveBack
      <4> HIDE DEF c
      <4>2. /\ IsFiniteSet(Woken')
            /\ slipped' \/ (\A u \in Tasks : ~Waits(u)') \/ Cardinality(Woken') = k + 1
        BY Zenon, <2>0, <4>1, WokenByOne DEF k
      <4>3. Opening' = Opening BY Zenon, <2>0, <4>1 DEF Opening, TypeOK
      <4>4. ASSUME ~stopping
            PROVE  /\ IsFiniteSet(members') /\ Cardinality(members') \in {m, m - 1}
                   /\ Live' \subseteq members'
        <5>1. IsFiniteSet(members') /\ Cardinality(members') \in {m, m - 1}
          BY Zenon, <2>0, <4>1, <4>4, FS_RemoveElement DEF m
        <5> QED BY Zenon, <2>0, <4>1, <4>4, <5>1 DEF Live
      <4>5. Counted'
        <5> SUFFICES ASSUME ~stopping PROVE Counted'
            BY Zenon, <4>1 DEF Counted
        <5>1. m \in Nat /\ r \in Nat /\ m + r <= MaxSize /\ Cardinality(reserved') = r
          BY Zenon, <2>0, <4>1 DEF m, r
        <5>2. Cardinality(members') + Cardinality(reserved') <= MaxSize BY <2>0, <4>4, <5>1
        <5> QED BY Zenon, <2>0, <4>1, <4>3, <4>4, <5>2 DEF Counted
      <4>6. PassedOn'
        <5> SUFFICES ASSUME ~slipped', ~stopping, NEW u \in Tasks, Waits(u)'
                     PROVE  Cardinality(Woken') + Cardinality(members') + Cardinality(reserved')
                               >= MaxSize
            BY Zenon, <4>1 DEF PassedOn
        <5>1. ~slipped /\ fut[u] = "pending"
          BY Zenon, <4>1, WakeOneTypes DEF WakeOne, waiting, Waits
        <5>2. k + m + r >= MaxSize BY <5>1 DEF Capacity, PassedOn, k, m, r, Waits
        <5>3. m \in Nat /\ r \in Nat /\ k \in Nat /\ Cardinality(reserved') = r
          BY Zenon, <2>0, <4>1 DEF m, r, k
        <5>4. Cardinality(Woken') = k + 1 BY <4>2
        <5> QED BY <2>0, <4>4, <5>2, <5>3, <5>4
      <4> QED BY <4>2, <4>5, <4>6 DEF Capacity
    <3>13. CASE ReleaseReuse(t)
      <4>1. /\ pc[t] = "holding" /\ pc' = [pc EXCEPT ![t] = "idle"]
            /\ members' = members /\ reserved' = reserved /\ stopping' = stopping
            /\ Live' = Live /\ (slipped => slipped')
        BY Zenon, <3>13 DEF ReleaseReuse, LastOut, GaveBack, waiting, server, Live
      <4>2. \/ fut' = fut
            \/ fut[Head(queue)] = "pending" /\ fut' = [fut EXCEPT ![Head(queue)] = "handed"]
        BY <3>13 DEF ReleaseReuse, Raises, Waits
      <4>3. /\ Woken' = Woken /\ Opening' = Opening /\ \A u \in Tasks : Waits(u)' => Waits(u)
        BY <2>0, <4>1, <4>2 DEF Woken, Opening, Waits, TypeOK
      <4> QED BY Zenon, <4>1, <4>3, EvenStep DEF Even
    <3> QED BY <2>6, <3>2, <3>3, <3>4, <3>5, <3>6, <3>7, <3>8, <3>9, <3>10, <3>11, <3>12, <3>13
            DEF Moves
  <2> QED BY Zenon, <2>1, <2>2, <2>3, <2>4, <2>5, <2>6, EveryStep
<1> QED BY <1>1, <1>2, BaseHolds, WaitingHolds, PTL DEF Spec

(* max_size bounds what a running pool has open at the server, connections  *)
(* on their way included, however opens, failures and replacements          *)
(* interleave.                                                              *)
THEOREM MaxSizeBoundsTheServer == Spec => []ServerLoadIsBounded
<1>1. Base /\ Capacity => ServerLoadIsBounded
  <2> SUFFICES ASSUME Base, Capacity, ~stopping
               PROVE  Cardinality(Live) + Cardinality(Opening) <= MaxSize
      BY DEF ServerLoadIsBounded, Opening
  <2>1. /\ Live \subseteq members /\ reserved = Opening /\ IsFiniteSet(members)
        /\ IsFiniteSet(reserved) /\ Cardinality(members) + Cardinality(reserved) <= MaxSize
    BY DEF Capacity, Counted
  <2>2. IsFiniteSet(Live) /\ Cardinality(Live) <= Cardinality(members) BY Zenon, <2>1, FS_Subset
  <2>3. Cardinality(Live) \in Nat /\ Cardinality(members) \in Nat /\ Cardinality(reserved) \in Nat
    BY Zenon, <2>1, <2>2, FS_CardinalityType
  <2> QED BY <2>1, <2>2, <2>3, PoolAssumption
<1> QED BY <1>1, BaseHolds, CapacityHolds, PTL

(* Capacity that frees up wakes a caller to use it: as long as no hand-off  *)
(* or wake-up is lost on a waiter that has failed, nobody waits for the     *)
(* deadline beside a running pool that could open a connection, unless      *)
(* somebody has been woken to open it.                                      *)
THEOREM FreedCapacityIsPassedOn == Spec => []FreedCapacityIsUsed
<1>1. Base /\ Capacity => FreedCapacityIsUsed
  <2> SUFFICES ASSUME Base, Capacity, ~slipped, ~stopping, Room, \E t \in Tasks : Waits(t)
               PROVE  \E t \in Tasks : fut[t] = "woken"
      BY Zenon DEF FreedCapacityIsUsed
  <2>1. /\ Cardinality(Woken) + Cardinality(members) + Cardinality(reserved) >= MaxSize
        /\ Cardinality(members) + Cardinality(reserved) < MaxSize
    BY Zenon DEF Capacity, PassedOn, Room
  <2>2. Cardinality(members) \in Nat /\ Cardinality(reserved) \in Nat
    BY Zenon, FS_CardinalityType DEF Capacity, Counted
  <2>3. Cardinality(Woken) # 0 BY <2>1, <2>2, PoolAssumption
  <2>4. Woken # {} BY <2>3, FS_EmptySet
  <2> QED BY Zenon, <2>4 DEF Woken
<1> QED BY <1>1, BaseHolds, CapacityHolds, PTL
=============================================================================
