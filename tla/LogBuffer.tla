----------------------------- MODULE LogBuffer -----------------------------
(***************************************************************************)
(* The write buffer of log.py (_Buffer) in front of the log: rows offered   *)
(* one at a time, written by append_many as multi-row inserts, each rung in *)
(* a transaction of its own.  A buffer belongs to one task, so nothing is   *)
(* offered while that task awaits a flush.                                  *)
(***************************************************************************)
EXTENDS Log

CONSTANTS Produced,    \* the buffer's stream
          Capacity,    \* rows the buffer holds
          Rungs,       \* sizes of the prepared multi-row inserts
          MaxOffers,   \* bound: rows offered
          Failures     \* how an awaited insert may fail: "error", "cancelled"

ASSUME BufferAssumption ==
    /\ Produced \in Streams
    /\ Capacity \in Nat \ {0}
    /\ Rungs \subseteq Nat \ {0} /\ 1 \in Rungs
    /\ MaxOffers \in Nat
    /\ Failures \subseteq {"error", "cancelled"}

VARIABLES pending,     \* rows in the buffer
          batch,       \* rows drained by the flush under way; 0 if none is
          left,        \* rows of it not known to be written
          rung,        \* xid of the insert awaited; 0 if none is
          owed,        \* rows of the buffer each transaction carries
          offered,     \* rows offered so far
          landed,      \* rows of the buffer committed so far
          dropped      \* PostgresLog.dropped

bufVars == <<pending, batch, left, rung, owed, offered, landed, dropped>>
allVars == <<vars, bufVars>>

BufInit == /\ Init
           /\ pending = 0 /\ batch = 0 /\ left = 0 /\ rung = 0
           /\ owed = [x \in 1 .. MaxXid |-> 0]
           /\ offered = 0 /\ landed = 0 /\ dropped = 0

(* offer: a full buffer drops the row and counts it.                        *)
Offer ==
    /\ batch = 0 /\ offered < MaxOffers
    /\ offered' = offered + 1
    /\ IF pending < Capacity
       THEN pending' = pending + 1 /\ UNCHANGED dropped
       ELSE dropped' = dropped + 1 /\ UNCHANGED pending
    /\ UNCHANGED <<vars, batch, left, rung, owed, landed>>

(* flush drains the buffer before it writes anything.                       *)
FlushBegins ==
    /\ batch = 0 /\ pending > 0
    /\ batch' = pending /\ left' = pending /\ pending' = 0
    /\ UNCHANGED <<vars, rung, owed, offered, landed, dropped>>

(* _rung_for: the largest insert that fits.                                 *)
IsRungFor(m, n) == m \in Rungs /\ m <= n /\ \A l \in Rungs : l <= n => l <= m

SendRung(m) ==
    /\ rung = 0 /\ left > 0 /\ IsRungFor(m, left)
    /\ nextXid <= MaxXid /\ nextSeq + m - 1 <= MaxSeq
    /\ nextXid' = nextXid + 1 /\ nextSeq' = nextSeq + m
    /\ open' = open \cup {nextXid}
    /\ table' = table \cup {[xid |-> nextXid, seq |-> q, stream |-> Produced, key |-> NoKey] :
                               q \in nextSeq .. nextSeq + m - 1}
    /\ rung' = nextXid
    /\ owed' = [owed EXCEPT ![nextXid] = m]
    /\ UNCHANGED <<committed, readVars, pending, batch, left, offered, landed, dropped>>

(* The awaited insert is answered with its command tag.                     *)
RungLands ==
    /\ rung # 0 /\ rung \in committed
    /\ rung' = 0
    /\ left' = left - owed[rung]
    /\ batch' = IF left = owed[rung] THEN 0 ELSE batch
    /\ UNCHANGED <<vars, pending, owed, offered, landed, dropped>>

(* A slip: the batch is not counted.                                        *)
FlushFailsUncounted(why) ==
    /\ batch > 0
    /\ batch' = 0 /\ left' = 0 /\ rung' = 0
    /\ UNCHANGED <<vars, pending, owed, offered, landed, dropped>>

(* An awaited insert fails, executed or not, before or after its commit.    *)
(* An error the except clause names counts the whole batch as dropped; the  *)
(* CancelledError of a cancelled task is none of those, and passes.         *)
FlushFails(why) ==
    /\ batch > 0
    /\ dropped' = IF why = "error" THEN dropped + batch ELSE dropped
    /\ batch' = 0 /\ left' = 0 /\ rung' = 0
    /\ UNCHANGED <<vars, pending, owed, offered, landed>>

(* abandon: what is still in the buffer is given up and counted.            *)
Abandon ==
    /\ batch = 0 /\ pending > 0
    /\ dropped' = dropped + pending
    /\ pending' = 0
    /\ UNCHANGED <<vars, batch, left, rung, owed, offered, landed>>

(* The database and its readers go on meanwhile.                            *)
RungCommits(x) ==
    /\ Commit(x)
    /\ landed' = landed + owed[x]
    /\ UNCHANGED <<pending, batch, left, rung, owed, offered, dropped>>

(* Other writers leave the buffer's own transactions alone.                 *)
Elsewhere ==
    /\ \/ Begin
       \/ \E x \in open : Abort(x) \/ \E s \in Streams : owed[x] = 0 /\ Append(x, s)
       \/ \E s \in Streams : DropStream(s) \/ \E k \in Keys : AppendOnce(s, k)
       \/ \E S \in SUBSET Visible : Purge(S)
       \/ ReadStep
    /\ UNCHANGED bufVars

BufNext ==
    \/ Offer \/ FlushBegins \/ RungLands \/ Abandon
    \/ \E m \in Rungs : SendRung(m)
    \/ \E why \in Failures : FlushFails(why)
    \/ \E x \in open : RungCommits(x)
    \/ Elsewhere

(* As in Log: every transaction ends, and every reader goes on asking.      *)
BufFairness ==
    /\ \A x \in 1 .. MaxXid : WF_allVars(RungCommits(x) \/ (Abort(x) /\ UNCHANGED bufVars))
    /\ \A r \in Readers : WF_allVars(Read(r) /\ UNCHANGED bufVars)

BufSpec == BufInit /\ [][BufNext]_allVars /\ BufFairness

-----------------------------------------------------------------------------
(* "`dropped` bounds what may be missing": every row offered is in the      *)
(* buffer, in the log, under way in a flush, or counted as dropped,         *)
(* whichever of the statements of a flush fails.                            *)
LossIsCounted == offered - pending - landed <= dropped + left
=============================================================================
