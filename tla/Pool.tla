-------------------------------- MODULE Pool --------------------------------
(***************************************************************************)
(* The connection pool of postgres.py: callers lease connections one at a   *)
(* time or, for single statements, up to Depth on one connection; when all  *)
(* are out they queue, each on a future of its own with a timer on it.      *)
(*                                                                         *)
(* One event loop runs everything, so a step is what happens between two    *)
(* awaits.  A future is resolved in one step and its caller resumes in a    *)
(* later one: whatever the loop runs in between sees a future that is done  *)
(* and a caller that does not know it yet.  Closing a connection is one     *)
(* step with the decision to close it.  The owner (Database) starts a pool  *)
(* once and stops it once.                                                  *)
(***************************************************************************)
EXTENDS Integers, Sequences, FiniteSets

CONSTANTS Tasks,       \* callers of acquire, any number of times each
          Statements,  \* those that lease with shared=True
          Conns,       \* connections; each is opened at most once
          NoConn,
          MinSize, MaxSize, MaxQueue,   \* PoolConfig
          Depth        \* pipeline_depth

ASSUME PoolAssumption ==
    /\ Statements \subseteq Tasks
    /\ NoConn \notin Conns
    /\ MinSize \in Nat /\ MaxSize \in Nat \ {0} /\ MinSize <= MaxSize
    /\ MaxQueue \in Nat
    /\ Depth \in Nat \ {0}

VARIABLES started, stopping,   \* _started, _stopping
          available,           \* _available
          borrowed,            \* _borrowed
          shared,              \* _shared: borrowers of each shared connection
          members,             \* the connections in _connections
          reserved,            \* the placeholders in _connections, by caller
          queue,               \* _waiters that are still in _active_waiters
          pc,                  \* where each caller is
          lease,               \* the connection it has, or was just handed
          fut,                 \* the future it waits on
          late,                \* its acquire_timeout has passed
          stopper,             \* where the call of stop is
          opened, closed,      \* connections so far, at the server
          slipped              \* history: a hand-off or wake-up met a waiter
                               \* that had failed and did not know it yet

leases == <<available, borrowed, shared, members, reserved>>
callers == <<pc, lease, fut, late>>
life == <<started, stopping, stopper>>
server == <<opened, closed>>
waiting == <<queue, slipped>>
vars == <<leases, waiting, callers, life, server>>

Futures == {"none", "pending", "handed", "woken", "timedout", "cancelled", "refused"}
Failures == {"timedout", "cancelled", "refused"}
Live == opened \ closed
Shares(t) == t \in Statements /\ Depth > 1
Waits(w) == fut[w] = "pending"

Init == /\ started = FALSE /\ stopping = FALSE /\ stopper = "no"
        /\ available = {} /\ borrowed = {} /\ members = {} /\ reserved = {}
        /\ shared = [c \in Conns |-> 0]
        /\ queue = <<>> /\ slipped = FALSE
        /\ pc = [t \in Tasks |-> "idle"]
        /\ lease = [t \in Tasks |-> NoConn]
        /\ fut = [t \in Tasks |-> "none"]
        /\ late = [t \in Tasks |-> FALSE]
        /\ opened = {} /\ closed = {}

(* start: every connection, or none and an exception.                       *)
Start ==
    /\ ~started /\ ~stopping
    /\ \E S \in SUBSET Conns :
          /\ IsFiniteSet(S) /\ Cardinality(S) = MinSize
          /\ available' = S /\ members' = S /\ opened' = S
    /\ started' = TRUE
    /\ UNCHANGED <<borrowed, shared, reserved, waiting, callers, stopping, stopper, closed>>

-----------------------------------------------------------------------------
(* acquire.                                                                 *)

(* The caller has c: alone, or as the first of those who share it.  B are   *)
(* the connections borrowed once it has been entered there.                 *)
Leased(t, c, B) ==
    /\ borrowed' = IF Shares(t) THEN B \ {c} ELSE B
    /\ shared' = IF Shares(t) THEN [shared EXCEPT ![c] = 1] ELSE shared
    /\ lease' = [lease EXCEPT ![t] = c]
    /\ pc' = [pc EXCEPT ![t] = "holding"]
    /\ fut' = [fut EXCEPT ![t] = "none"]

TakeIdle(t) ==
    \E c \in available :
        /\ available' = available \ {c}
        /\ Leased(t, c, borrowed \cup {c})
        /\ UNCHANGED <<members, reserved, waiting, late>>

(* A slip: connections on their way are not counted.                        *)
RoomForAll == Cardinality(members) < MaxSize

Room == Cardinality(members) + Cardinality(reserved) < MaxSize

BeginOpen(t) ==
    /\ available = {} /\ Room
    /\ reserved' = reserved \cup {t}
    /\ pc' = [pc EXCEPT ![t] = "opening"]
    /\ fut' = [fut EXCEPT ![t] = "none"]
    /\ UNCHANGED <<available, borrowed, shared, members, waiting, lease, late>>

Enqueue(t) ==
    /\ available = {} /\ ~Room
    /\ Len(queue) < MaxQueue /\ ~late[t]
    /\ queue' = Append(queue, t)
    /\ pc' = [pc EXCEPT ![t] = "queued"]
    /\ fut' = [fut EXCEPT ![t] = "pending"]
    /\ UNCHANGED <<leases, lease, late, slipped>>

(* The call raises.                                                         *)
Fail(t) ==
    /\ pc' = [pc EXCEPT ![t] = "idle"]
    /\ lease' = [lease EXCEPT ![t] = NoConn]
    /\ fut' = [fut EXCEPT ![t] = "none"]
    /\ late' = [late EXCEPT ![t] = FALSE]

(* The queue is full, or the deadline passed before this time round.        *)
Refuse(t) ==
    /\ available = {} /\ ~Room
    /\ Len(queue) >= MaxQueue \/ late[t]
    /\ Fail(t)
    /\ UNCHANGED <<leases, waiting>>

(* One time round the loop of acquire.                                      *)
Attempt(t) == TakeIdle(t) \/ BeginOpen(t) \/ Enqueue(t) \/ Refuse(t)

(* try_acquire_shared with nothing idle: the least loaded shared connection *)
(* that has room.                                                           *)
Join(t) ==
    /\ Shares(t) /\ available = {}
    /\ \E c \in Conns :
          /\ shared[c] > 0 /\ shared[c] < Depth
          /\ \A d \in Conns : shared[d] > 0 => shared[c] <= shared[d]
          /\ shared' = [shared EXCEPT ![c] = @ + 1]
          /\ lease' = [lease EXCEPT ![t] = c]
    /\ pc' = [pc EXCEPT ![t] = "holding"]
    /\ UNCHANGED <<available, borrowed, members, reserved, waiting, fut, late>>

CanJoin(t) == Shares(t) /\ \E c \in Conns : shared[c] > 0 /\ shared[c] < Depth

Acquire(t) ==
    /\ pc[t] = "idle"
    /\ started /\ ~stopping
    /\ IF available = {} /\ CanJoin(t) THEN Join(t) ELSE Attempt(t)
    /\ UNCHANGED <<life, server>>

-----------------------------------------------------------------------------
(* Waking others.                                                           *)

(* _settle_drain, once borrowed' is known.                                  *)
SettleDrain ==
    stopper' = IF stopper = "draining" /\ borrowed' = {} THEN "drained" ELSE stopper

(* _wake_one and _hand_off take the first waiter off the queue and resolve  *)
(* its future.  One that is done already raises InvalidStateError out of    *)
(* the caller's call, after the waiter and the lease have been booked.      *)
Raises == queue # <<>> /\ ~Waits(Head(queue))

WakeOne ==
    IF queue = <<>> THEN UNCHANGED <<waiting, fut>>
    ELSE /\ queue' = Tail(queue)
         /\ fut' = IF Raises THEN fut ELSE [fut EXCEPT ![Head(queue)] = "woken"]
         /\ slipped' = (slipped \/ Raises)

(* The await of _open ends: the connection is the caller's...               *)
Opened(t) ==
    /\ pc[t] = "opening"
    /\ \E c \in Conns \ opened :
          /\ opened' = opened \cup {c}
          /\ members' = members \cup {c}
          /\ Leased(t, c, borrowed \cup {c})
    /\ reserved' = reserved \ {t}
    /\ UNCHANGED <<available, waiting, late, life, closed>>

(* A slip: nobody hears that the capacity is free again.                    *)
OpenFailsSilently(t) ==
    /\ pc[t] = "opening"
    /\ reserved' = reserved \ {t}
    /\ Fail(t)
    /\ UNCHANGED <<available, borrowed, shared, members, waiting, life, server>>

(* ... or it failed or was cancelled, and the capacity is free again.       *)
OpenFails(t) ==
    /\ pc[t] = "opening"
    /\ reserved' = reserved \ {t}
    /\ WakeOne
    /\ pc' = [pc EXCEPT ![t] = "idle"]
    /\ late' = [late EXCEPT ![t] = FALSE]
    /\ UNCHANGED <<available, borrowed, shared, members, lease, life, server>>

-----------------------------------------------------------------------------
(* A queued caller.                                                         *)

(* A slip: the timer fires and fails nobody.                                *)
DeadlineUnheard(t) ==
    /\ pc[t] = "queued" /\ ~late[t]
    /\ late' = [late EXCEPT ![t] = TRUE]
    /\ UNCHANGED <<leases, waiting, pc, lease, fut, life, server>>

(* _expire, at the deadline.                                                *)
DeadlinePasses(t) ==
    /\ pc[t] = "queued" /\ ~late[t]
    /\ late' = [late EXCEPT ![t] = TRUE]
    /\ fut' = IF Waits(t) THEN [fut EXCEPT ![t] = "timedout"] ELSE fut
    /\ UNCHANGED <<leases, waiting, pc, lease, life, server>>

(* task.cancel(): the await will raise CancelledError whatever the future   *)
(* was resolved to in the meantime.                                         *)
Cancel(t) ==
    /\ pc[t] = "queued" /\ fut[t] \notin Failures
    /\ fut' = [fut EXCEPT ![t] = "cancelled"]
    /\ lease' = [lease EXCEPT ![t] = NoConn]
    /\ slipped' = (slipped \/ ~Waits(t))
    /\ UNCHANGED <<leases, queue, pc, late, life, server>>

(* _unqueue: a waiter nobody has taken off the queue is no longer active.   *)
(* The tombstone it leaves in the deque is passed over by every popleft.    *)
Unqueue(t) ==
    \/ \E i \in 1 .. Len(queue) :
          /\ queue[i] = t
          /\ queue' = SubSeq(queue, 1, i - 1) \o SubSeq(queue, i + 1, Len(queue))
    \/ (\A i \in 1 .. Len(queue) : queue[i] # t) /\ UNCHANGED queue

(* The caller goes on after its await: raising, with the connection it was  *)
(* handed, or round the loop once more.                                     *)
ResumeFailed(t) ==
    /\ pc[t] = "queued" /\ fut[t] \in Failures
    /\ Unqueue(t)
    /\ Fail(t)
    /\ UNCHANGED <<leases, started, stopping, server, slipped>>
    /\ SettleDrain

ResumeHanded(t) ==
    /\ pc[t] = "queued" /\ fut[t] = "handed"
    /\ Leased(t, lease[t], borrowed)
    /\ UNCHANGED <<available, members, reserved, waiting, late, life, server>>

ResumeWoken(t) ==
    /\ pc[t] = "queued" /\ fut[t] = "woken"
    /\ Attempt(t)
    /\ stopper' = IF stopper = "draining" /\ borrowed = {} THEN "drained" ELSE stopper
    /\ UNCHANGED <<started, stopping, server>>

Resume(t) == ResumeFailed(t) \/ ResumeHanded(t) \/ ResumeWoken(t)

-----------------------------------------------------------------------------
(* release.                                                                 *)

(* The caller's own part: it no longer has the connection.                  *)
GaveBack(t) == /\ pc' = [pc EXCEPT ![t] = "idle"]
               /\ late' = [late EXCEPT ![t] = FALSE]

(* A slip: the share count is taken down without looking at it.             *)
ReleaseBlindly(t) ==
    /\ pc[t] = "holding"
    /\ shared' = [shared EXCEPT ![lease[t]] = @ - 1]
    /\ lease' = [lease EXCEPT ![t] = NoConn]
    /\ GaveBack(t)
    /\ UNCHANGED <<available, borrowed, members, reserved, waiting, fut, life, server>>

(* One of several that share the connection.                                *)
ReleaseShare(t) ==
    /\ pc[t] = "holding" /\ shared[lease[t]] > 1
    /\ shared' = [shared EXCEPT ![lease[t]] = @ - 1]
    /\ lease' = [lease EXCEPT ![t] = NoConn]
    /\ GaveBack(t)
    /\ UNCHANGED <<available, borrowed, members, reserved, waiting, fut, life, server>>

(* A slip: the first one out of a shared connection returns it.             *)
FirstOut(t) == /\ pc[t] = "holding"
               /\ lease[t] \in borrowed \/ shared[lease[t]] >= 1

(* The last one out of a shared connection, or the holder of a borrowed one.*)
LastOut(t) == /\ pc[t] = "holding"
              /\ lease[t] \in borrowed \/ shared[lease[t]] = 1

(* After stop took the connection away: InterfaceError.                     *)
ReleaseUnknown(t) ==
    /\ pc[t] = "holding" /\ lease[t] \notin borrowed /\ shared[lease[t]] = 0
    /\ lease' = [lease EXCEPT ![t] = NoConn]
    /\ GaveBack(t)
    /\ UNCHANGED <<leases, waiting, fut, life, server>>

(* Shutting down, or the connection is closed: it leaves the pool.          *)
ReleaseDrop(t) ==
    /\ LastOut(t)
    /\ stopping \/ lease[t] \in closed
    /\ borrowed' = borrowed \ {lease[t]}
    /\ shared' = [shared EXCEPT ![lease[t]] = 0]
    /\ members' = members \ {lease[t]}
    /\ WakeOne
    /\ IF Raises THEN UNCHANGED <<stopper, closed>>
       ELSE SettleDrain /\ closed' = closed \cup {lease[t]}
    /\ lease' = [lease EXCEPT ![t] = NoConn]
    /\ GaveBack(t)
    /\ UNCHANGED <<available, reserved, started, stopping, opened>>

(* A slip: the connection is put aside although callers wait.               *)
ReleaseIdles(t) ==
    /\ LastOut(t) /\ ~stopping /\ lease[t] \notin closed
    /\ borrowed' = borrowed \ {lease[t]}
    /\ shared' = [shared EXCEPT ![lease[t]] = 0]
    /\ available' = available \cup {lease[t]}
    /\ SettleDrain
    /\ lease' = [lease EXCEPT ![t] = NoConn]
    /\ GaveBack(t)
    /\ UNCHANGED <<members, reserved, waiting, fut, started, stopping, server>>

(* Handed to the first waiter, or idle when there is none.                  *)
ReleaseReuse(t) ==
    LET c == lease[t] IN
    /\ LastOut(t) /\ ~stopping /\ c \notin closed
    /\ shared' = [shared EXCEPT ![c] = 0]
    /\ IF queue = <<>>
       THEN /\ available' = available \cup {c}
            /\ borrowed' = borrowed \ {c}
            /\ lease' = [lease EXCEPT ![t] = NoConn]
            /\ UNCHANGED <<waiting, fut>>
       ELSE /\ borrowed' = borrowed \cup {c}
            /\ queue' = Tail(queue)
            /\ fut' = IF Raises THEN fut ELSE [fut EXCEPT ![Head(queue)] = "handed"]
            /\ lease' = IF Raises THEN [lease EXCEPT ![t] = NoConn]
                        ELSE [lease EXCEPT ![t] = NoConn, ![Head(queue)] = c]
            /\ slipped' = (slipped \/ Raises)
            /\ UNCHANGED available
    /\ IF Raises THEN UNCHANGED stopper ELSE SettleDrain
    /\ GaveBack(t)
    /\ UNCHANGED <<members, reserved, started, stopping, server>>

Release(t) == ReleaseShare(t) \/ ReleaseUnknown(t) \/ ReleaseDrop(t) \/ ReleaseReuse(t)

(* The server or the network closes a connection under the pool.            *)
Break(c) ==
    /\ c \in Live
    /\ closed' = closed \cup {c}
    /\ UNCHANGED <<leases, waiting, callers, life, opened>>

-----------------------------------------------------------------------------
(* stop.                                                                    *)

(* A slip: what is still borrowed stays open.                               *)
CloseIdle ==
    /\ stopper' = "done" /\ started' = FALSE
    /\ available' = {} /\ borrowed' = {} /\ members' = {} /\ reserved' = {}
    /\ closed' = closed \cup available
    /\ UNCHANGED <<shared, opened>>

(* The end of stop: whatever is idle or still borrowed is closed.           *)
CloseAll ==
    /\ stopper' = "done" /\ started' = FALSE
    /\ available' = {} /\ borrowed' = {} /\ members' = {} /\ reserved' = {}
    /\ closed' = closed \cup available \cup borrowed
    /\ UNCHANGED <<shared, opened>>

(* Every waiter is refused; then stop drains, or closes at once if nothing  *)
(* is borrowed or no grace was given.                                       *)
Stop ==
    /\ started /\ ~stopping
    /\ \A i \in 1 .. Len(queue) : Waits(queue[i])
    /\ stopping' = TRUE
    /\ fut' = [t \in Tasks |-> IF Waits(t) THEN "refused" ELSE fut[t]]
    /\ queue' = <<>>
    /\ \/ borrowed # {} /\ stopper' = "draining" /\ UNCHANGED <<leases, started, server>>
       \/ CloseAll
    /\ UNCHANGED <<pc, lease, late, slipped>>

(* A waiter whose future was done already ends stop with an exception.      *)
StopRaises ==
    /\ started /\ ~stopping
    /\ \E k \in 1 .. Len(queue) :
          /\ ~Waits(queue[k]) /\ \A i \in 1 .. k - 1 : Waits(queue[i])
          /\ fut' = [t \in Tasks |-> IF \E i \in 1 .. k - 1 : queue[i] = t
                                     THEN "refused" ELSE fut[t]]
          /\ queue' = SubSeq(queue, k + 1, Len(queue))
    /\ stopping' = TRUE /\ stopper' = "failed" /\ slipped' = TRUE
    /\ UNCHANGED <<leases, pc, lease, late, started, server>>

(* A slip: the grace period does not end the wait.                          *)
GraceWaits ==
    /\ stopper = "draining" /\ borrowed = {}
    /\ stopper' = "drained"
    /\ UNCHANGED <<leases, waiting, callers, started, stopping, server>>

(* _settle_drain_now, the timer of stop.                                    *)
GraceEnds ==
    /\ stopper = "draining"
    /\ stopper' = "drained"
    /\ UNCHANGED <<leases, waiting, callers, started, stopping, server>>

FinishStop ==
    /\ stopper = "drained"
    /\ CloseAll
    /\ UNCHANGED <<stopping, waiting, callers>>

-----------------------------------------------------------------------------
OpenEnds(t) == Opened(t) \/ OpenFails(t)
Next ==
    \/ Start \/ Stop \/ StopRaises \/ GraceEnds \/ FinishStop
    \/ \E c \in Conns : Break(c)
    \/ \E t \in Tasks : \/ Acquire(t) \/ OpenEnds(t) \/ DeadlinePasses(t)
                        \/ Cancel(t) \/ Resume(t) \/ Release(t)

(* The loop runs what is ready, timers fire, and connecting ends.  Nobody   *)
(* is obliged to acquire or to release.                                     *)
Fairness == /\ WF_vars(GraceEnds) /\ WF_vars(FinishStop)
            /\ \A t \in Tasks : /\ WF_vars(OpenEnds(t))
                                /\ WF_vars(DeadlinePasses(t))
                                /\ WF_vars(Resume(t))

Spec == Init /\ [][Next]_vars /\ Fairness

-----------------------------------------------------------------------------
(* Properties.                                                              *)

Holders(c) == {t \in Tasks : lease[t] = c}

TypeOK ==
    /\ started \in BOOLEAN /\ stopping \in BOOLEAN
    /\ stopper \in {"no", "draining", "drained", "done", "failed"}
    /\ available \subseteq Conns /\ borrowed \subseteq Conns /\ members \subseteq Conns
    /\ reserved \subseteq Tasks
    /\ shared \in [Conns -> Nat]
    /\ queue \in Seq(Tasks)
    /\ pc \in [Tasks -> {"idle", "opening", "queued", "holding"}]
    /\ lease \in [Tasks -> Conns \cup {NoConn}]
    /\ fut \in [Tasks -> Futures]
    /\ late \in [Tasks -> BOOLEAN]
    /\ opened \subseteq Conns /\ closed \subseteq opened
    /\ slipped \in BOOLEAN

(* A connection is idle, or has one exclusive holder, or is shared by as    *)
(* many callers of single statements as the pool counts, no more than       *)
(* pipeline_depth: a transaction never meets another caller's statements on *)
(* its connection, through every hand-off, expiry, cancellation and         *)
(* shutdown.                                                                *)
LeasesAreExclusive ==
    \A c \in Conns :
        /\ c \in available => Holders(c) = {} /\ shared[c] = 0 /\ c \notin borrowed
        /\ shared[c] <= Depth
        /\ shared[c] > 0 => /\ Cardinality(Holders(c)) = shared[c]
                            /\ \A t \in Holders(c) : Shares(t)
        /\ shared[c] = 0 => Cardinality(Holders(c)) <= 1

(* release hands a connection straight to a waiter and acquire queues only  *)
(* when nothing is idle, so nobody waits while a connection sits unused.    *)
NobodyWaitsForAnIdleConnection ==
    available # {} => \A t \in Tasks : ~Waits(t)

(* max_size bounds what a running pool has open at the server, connections  *)
(* on their way included, however opens, failures and replacements          *)
(* interleave.                                                              *)
ServerLoadIsBounded ==
    ~stopping => Cardinality(Live) + Cardinality({t \in Tasks : pc[t] = "opening"}) <= MaxSize

(* What the pool counts as borrowed somebody has or is about to have.  Once *)
(* stop has returned, what is still open was out under a shared lease, or   *)
(* was opened for a caller afterwards; the pool has it in _shared or in     *)
(* _borrowed and it has a holder, whose release closes it.  Both hold until *)
(* a hand-off, a wake-up or stop itself meets a waiter that timed out or    *)
(* was cancelled and has not resumed yet.  That stop leaves shared leases   *)
(* open at all is not what it says of itself: see StopClosesEverything.     *)
LeasesAreAccountedFor ==
    ~slipped => /\ \A c \in borrowed : Holders(c) # {}
                /\ stopper = "done" =>
                     \A c \in Live : Holders(c) # {} /\ (shared[c] > 0 \/ c \in borrowed)

(* What stop says it does: "drain for `grace_period`, then close            *)
(* everything", and of the leases that did not come back, "closes what is   *)
(* still out anyway".  When it returns nothing the pool opened is open.     *)
StopClosesEverything ==
    [][stopper # "done" /\ stopper' = "done" => Live' = {}]_vars

(* Capacity that frees up (a failed open, a dead connection) wakes a caller *)
(* to use it: nobody times out beside a running pool that could open one.   *)
(* It holds until a wake-up is lost on a waiter that had failed before it,  *)
(* or that is cancelled after it and before it resumes: such a waiter keeps *)
(* the wake-up to itself.                                                   *)
FreedCapacityIsUsed ==
    ~slipped /\ ~stopping /\ Room /\ (\E t \in Tasks : Waits(t))
        => \E t \in Tasks : fut[t] = "woken"

(* "a waiter that has already timed out must not be handed a lease nobody   *)
(* will release" (_hand_off): what the pool counts as borrowed, somebody    *)
(* has or is about to have.                                                 *)
NoLeaseIsLost == \A c \in borrowed : Holders(c) # {}

(* Every acquire returns: acquire_timeout ends the wait of a caller that    *)
(* nobody serves, also of one that is woken again and again in vain.        *)
AcquireReturns ==
    \A t \in Tasks : pc[t] \in {"queued", "opening"} ~> pc[t] \in {"idle", "holding"}

(* stop comes to its end whether or not the borrowers ever return.          *)
StopReturns == stopping ~> stopper \in {"done", "failed"}
=============================================================================
