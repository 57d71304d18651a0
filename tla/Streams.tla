------------------------------ MODULE Streams ------------------------------
(***************************************************************************)
(* One durable stream (streams.py): attempts of a job write chunks, each    *)
(* under its own fence; a client follows them over a connection that may    *)
(* drop and be resumed with the id of the last event it saw; somebody may   *)
(* cancel the stream meanwhile.                                             *)
(*                                                                         *)
(* The rows are a log (module Log): a flush inserts in a transaction of its *)
(* own, readers see the rows that precede every open transaction, ordered   *)
(* by transaction and place in it.  An attempt is named by its fence.  That *)
(* a row is read exactly once from a cursor on is Log's business; here it   *)
(* is which rows a reader passes on.                                        *)
(***************************************************************************)
EXTENDS Integers, Sequences, FiniteSets

CONSTANTS Attempts,   \* max_attempts; the fence of attempt n is n
          Chunks,     \* chunks a producer writes
          Limit,      \* rows a page of `follow` carries
          Breaks       \* how often a connection times out or drops

ASSUME StreamAssumption ==
    /\ Attempts \in Nat \ {0} /\ Chunks \in Nat \ {0} /\ Limit \in Nat \ {0}
    /\ Breaks \in Nat

VARIABLES onRetry,    \* the discipline: "supersede" or "truncate"
          table,      \* the rows of the stream
          open,       \* transactions that have neither committed nor failed
          nextXid,
          att,        \* the attempts
          job,        \* "live", or "over": completed, exhausted or cancelled
          canceller,  \* the call of cancel
          client,     \* what the client has
          conn,       \* the generator `follow` that serves it
          breaks

log == <<table, open, nextXid>>
vars == <<onRetry, log, att, job, canceller, client, conn, breaks>>
writers == <<att, job, canceller>>
readers == <<client, conn, breaks>>

Fences == 1 .. Attempts
Terminal == {"end", "error", "cancelled"}

(* A position is a transaction and a place in it.                           *)
Row(x, n, f, i, k) == [at |-> <<x, n>>, fence |-> f, idx |-> i, kind |-> k]
Start == <<0, 0>>
Before(a, b) == a[1] < b[1] \/ (a[1] = b[1] /\ a[2] < b[2])

Committed == {r \in table : r.at[1] \notin open}
Settled == {r \in table : \A x \in open : r.at[1] < x}

NoAttempt == [pc |-> "none", idx |-> 0, tx |-> 0, last |-> FALSE]
Producing(i) == [pc |-> "producing", idx |-> i, tx |-> 0, last |-> FALSE]
Over == [pc |-> "over", idx |-> 0, tx |-> 0, last |-> FALSE]
NoCancel == [pc |-> "no", fence |-> 0, idx |-> 0]
NoConn == [pc |-> "off", fence |-> 0, pos |-> Start, page |-> {}]

Init == /\ onRetry \in {"supersede", "truncate"}
        /\ table = {} /\ open = {} /\ nextXid = 1
        /\ att = [f \in Fences |-> NoAttempt]
        /\ job = "live"
        /\ canceller = NoCancel
        /\ client = [text |-> <<>>, fence |-> 0, pos |-> Start, done |-> FALSE,
                     owed |-> FALSE, missed |-> FALSE]
        /\ conn = NoConn
        /\ breaks = 0

-----------------------------------------------------------------------------
(* The producer: _produce and StreamWriter.                                 *)

Insert(rows) ==
    /\ table' = table \cup rows
    /\ open' = open \cup {nextXid}
    /\ nextXid' = nextXid + 1

(* The next attempt; the one before is over or has lost its lease.          *)
Begin(f) ==
    /\ job = "live" /\ att[f].pc = "none"
    /\ f > 1 => att[f - 1].pc # "none"
    /\ att' = [att EXCEPT ![f] = Producing(0)]
    /\ table' = IF f > 1 /\ onRetry = "truncate"     \* _truncate_below
                THEN table \ {r \in Committed : r.fence < f} ELSE table
    /\ UNCHANGED <<onRetry, open, nextXid, job, canceller, readers>>

Numbered(f, n) == {Row(nextXid, i, f, att[f].idx + i - 1, "chunk") : i \in 1 .. n}
Ending(f, n, k) == Row(nextXid, Chunks + 1, f, att[f].idx + n, k)

(* The writer waits for the insert, which may be its last.                  *)
Awaits(f, n, last) ==
    att' = [att EXCEPT ![f] = [pc |-> "flushing", idx |-> att[f].idx + n,
                               tx |-> nextXid, last |-> last]]

(* Slip: a chunk a full buffer refuses is numbered all the same.            *)
FlushRefused(f) ==
    /\ att[f].pc = "producing"
    /\ \E n \in 0 .. Chunks - att[f].idx :
          Insert({Ending(f, n, "end")}) /\ Awaits(f, n, TRUE)
    /\ UNCHANGED <<onRetry, job, canceller, readers>>

(* A flush: some chunks, and the terminal row if the producer is through.   *)
(* The table holds the rows that commit, now or later: a flush that fails   *)
(* leaves nothing a reader could tell from a slow one, and is part of Raise.*)
Flush(f) ==
    /\ att[f].pc = "producing"
    /\ \E n \in 0 .. Chunks - att[f].idx, last \in BOOLEAN :
          /\ n > 0 \/ last
          /\ Insert(Numbered(f, n) \cup IF last THEN {Ending(f, n, "end")} ELSE {})
          /\ Awaits(f, n, last)
    /\ UNCHANGED <<onRetry, job, canceller, readers>>

Latest(f) == \A g \in Fences : g > f => att[g].pc = "none"

(* A transaction commits.  A writer that still waits for it goes on to its  *)
(* next chunks or, after the terminal row, to completing the job, which it  *)
(* may no longer hold.  One that dies in between is Killed before.          *)
Commit(x) ==
    /\ open' = open \ {x}
    /\ att' = [f \in Fences |->
                 IF att[f].tx # x THEN att[f]
                 ELSE IF att[f].last THEN Over
                 ELSE Producing(att[f].idx)]
    /\ job' = IF \E f \in Fences : att[f].tx = x /\ att[f].last /\ Latest(f)
              THEN "over" ELSE job
    /\ UNCHANGED <<onRetry, table, nextXid, canceller, readers>>

(* The producer raises, or its flush does: rows lost, or only the answer.   *)
(* An attempt that is not the last drops what it has buffered; the last     *)
(* writes it, and a row that says so.  Not when finish itself failed: that  *)
(* is outside the try.                                                      *)
Raise(f) ==
    /\ att[f].pc \in {"producing", "flushing"}
    /\ IF f = Attempts /\ ~att[f].last
       THEN \E n \in 0 .. (IF att[f].pc = "producing" THEN Chunks - att[f].idx ELSE 0),
               lost \in BOOLEAN :
               /\ Insert((IF lost THEN {} ELSE Numbered(f, n)) \cup {Ending(f, n, "error")})
               /\ Awaits(f, n, TRUE)
       ELSE /\ att' = [att EXCEPT ![f] = Over]
            /\ UNCHANGED log
    /\ UNCHANGED <<onRetry, job, canceller, readers>>

(* The deadline, the supervisor stopping, or a crash: no row, whichever     *)
(* attempt it is.                                                           *)
Killed(f) ==
    /\ att[f].pc \in {"producing", "flushing"}
    /\ att' = [att EXCEPT ![f] = Over]
    /\ UNCHANGED <<onRetry, log, job, canceller, readers>>

-----------------------------------------------------------------------------
(* cancel.                                                                  *)

(* _head: the newest committed row, whatever the horizon.                   *)
CancelReads ==
    /\ canceller.pc = "no"
    /\ \/ /\ Committed = {}
          /\ canceller' = [pc |-> "read", fence |-> 0, idx |-> -1]
       \/ \E q \in Committed :
             /\ \A r \in Committed : \/ r.fence < q.fence
                                     \/ r.fence = q.fence /\ r.idx <= q.idx
             /\ canceller' = [pc |-> "read", fence |-> q.fence, idx |-> q.idx]
    /\ UNCHANGED <<onRetry, log, att, job, readers>>

(* Slip: the row is numbered like the one it follows.                       *)
CancelAppendsAtHead ==
    /\ canceller.pc = "read"
    /\ table' = table \cup {Row(nextXid, 1, canceller.fence, canceller.idx, "cancelled")}
    /\ nextXid' = nextXid + 1
    /\ canceller' = [pc |-> "over", fence |-> 0, idx |-> 0]
    /\ job' \in {job, "over"}
    /\ UNCHANGED <<onRetry, open, att, readers>>

(* The terminal row, in a transaction of its own; then the job, unless the  *)
(* caller dies first.                                                       *)
CancelAppends ==
    /\ canceller.pc = "read"
    /\ table' = table \cup {Row(nextXid, 1, canceller.fence, canceller.idx + 1, "cancelled")}
    /\ nextXid' = nextXid + 1
    /\ canceller' = [pc |-> "over", fence |-> 0, idx |-> 0]
    /\ job' \in {job, "over"}
    /\ UNCHANGED <<onRetry, open, att, readers>>

-----------------------------------------------------------------------------
(* The reader: follow, and the client at the other end.                     *)

(* What the client does with an event: it keeps the id, and starts over     *)
(* when told that what it has was superseded.                               *)
Told(f, q, owed) ==
    client' = [text |-> <<>>, fence |-> f, pos |-> q, done |-> FALSE, owed |-> owed,
               missed |-> FALSE]
Gets(r) ==
    client' = [text |-> Append(client.text, r), fence |-> r.fence, pos |-> r.at,
               done |-> r.kind \in Terminal, owed |-> FALSE, missed |-> client.missed]

(* A slip: the cursor the client came with decides the attempt, but not     *)
(* where to read on.                                                        *)
AttachAtStart ==
    /\ conn.pc = "off" /\ ~client.done
    /\ \E f \in {client.fence} \cup {r.fence : r \in Settled} :
          /\ client.fence <= f /\ \A r \in Settled : r.fence <= f
          /\ conn' = [pc |-> "reading", fence |-> f, pos |-> Start, page |-> {}]
          /\ IF f > client.fence /\ client.fence > 0 THEN Told(f, client.pos, FALSE)
             ELSE UNCHANGED client
    /\ UNCHANGED <<onRetry, log, writers, breaks>>

(* The highest fence, of _max_fence and the cursor the client came with.    *)
Attach ==
    /\ conn.pc = "off" /\ ~client.done
    /\ \E f \in {client.fence} \cup {r.fence : r \in Settled} :
          /\ client.fence <= f /\ \A r \in Settled : r.fence <= f
          /\ conn' = [pc |-> "reading", fence |-> f, pos |-> client.pos, page |-> {}]
          /\ IF f > client.fence /\ client.fence > 0 THEN Told(f, client.pos, FALSE)
             ELSE UNCHANGED client
    /\ UNCHANGED <<onRetry, log, writers, breaks>>

PageEnded == conn.pc = "yielding" /\ conn.page = {}

(* A page of settled rows after the position: the first of them.            *)
After(q) == {r \in Settled : Before(q, r.at)}
Page(q) == {r \in After(q) : Cardinality({s \in After(q) : Before(s.at, r.at)}) < Limit}
IsFirst(r) == r \in conn.page /\ \A s \in conn.page : s = r \/ Before(r.at, s.at)

(* Rows of a replaced attempt are skipped without a pause.                  *)
Unskipped(page, f) == {r \in page : \E s \in page : s.fence >= f /\ ~Before(r.at, s.at)}

(* At first, and after each page, once the poll interval has passed.  The   *)
(* position moves behind the page: it counts once that has been handed over.*)
ReadPage ==
    /\ conn.pc = "reading" \/ PageEnded
    /\ \E q \in {conn.pos} \cup {r.at : r \in Page(conn.pos)} :
          /\ \A r \in Page(conn.pos) : ~Before(q, r.at)
          /\ conn' = [conn EXCEPT !.pc = "yielding", !.pos = q,
                                  !.page = Unskipped(Page(conn.pos), conn.fence)]
    /\ UNCHANGED <<onRetry, log, writers, client, breaks>>

(* The next row of the page: announced, or handed over.                     *)
Supersede(r) ==
    /\ IsFirst(r)
    /\ r.fence > conn.fence /\ conn.fence > 0
    /\ Told(r.fence, r.at, TRUE)
    /\ conn' = [conn EXCEPT !.fence = r.fence]
    /\ UNCHANGED <<onRetry, log, writers, breaks>>

(* Slips: a retry is not announced; the reader goes on after a row that     *)
(* ends the stream other than well.                                         *)
HandRowUnannounced(r) ==
    /\ IsFirst(r)
    /\ Gets(r)
    /\ conn' = IF r.kind \in Terminal THEN NoConn
               ELSE [conn EXCEPT !.fence = r.fence, !.page = Unskipped(@ \ {r}, r.fence)]
    /\ UNCHANGED <<onRetry, log, writers, breaks>>

HandRowGoesOn(r) ==
    /\ IsFirst(r)
    /\ r.fence = conn.fence \/ conn.fence = 0
    /\ Gets(r)
    /\ conn' = IF r.kind = "end" THEN NoConn
               ELSE [conn EXCEPT !.fence = r.fence, !.page = Unskipped(@ \ {r}, r.fence)]
    /\ UNCHANGED <<onRetry, log, writers, breaks>>

HandRow(r) ==
    /\ IsFirst(r)
    /\ r.fence = conn.fence \/ conn.fence = 0
    /\ Gets(r)
    /\ conn' = IF r.kind \in Terminal THEN NoConn
               ELSE [conn EXCEPT !.fence = r.fence, !.page = Unskipped(@ \ {r}, r.fence)]
    /\ UNCHANGED <<onRetry, log, writers, breaks>>

(* Nothing new for too long: the client is told, with an id to resume from. *)
IdleTimeout ==
    /\ PageEnded /\ breaks < Breaks
    /\ breaks' = breaks + 1
    /\ client' = [client EXCEPT !.fence = conn.fence, !.pos = conn.pos, !.owed = FALSE]
    /\ conn' = NoConn
    /\ UNCHANGED <<onRetry, log, writers>>

(* The connection is lost, with whatever of the page was not handed over.   *)
Drop ==
    /\ conn.pc # "off" /\ breaks < Breaks
    /\ breaks' = breaks + 1
    /\ conn' = NoConn
    /\ client' = [client EXCEPT !.missed = @ \/ client.owed, !.owed = FALSE]
    /\ UNCHANGED <<onRetry, log, writers>>

-----------------------------------------------------------------------------
Serve == \/ Attach \/ ReadPage
         \/ \E r \in conn.page : Supersede(r) \/ HandRow(r)
Next == \/ Serve \/ IdleTimeout \/ Drop
        \/ CancelReads \/ CancelAppends
        \/ \E x \in open : Commit(x)
        \/ \E f \in Fences : \/ Begin(f) \/ Flush(f) \/ Raise(f) \/ Killed(f)

Spec == Init /\ [][Next]_vars

-----------------------------------------------------------------------------
(* Properties.                                                              *)

Position == Nat \X Nat
RowType == [at : Position, fence : Nat, idx : Nat, kind : Terminal \cup {"chunk"}]

AttemptStates == [pc : {"none", "producing", "flushing", "over"}, idx : 0 .. Chunks,
                  tx : Nat, last : BOOLEAN]
Cancellers == [pc : {"no", "read", "over"}, fence : Nat, idx : Nat \cup {-1}]
Clients == [text : Seq(RowType), fence : Nat, pos : Position, done : BOOLEAN,
            owed : BOOLEAN, missed : BOOLEAN]
Connections == [pc : {"off", "reading", "yielding"}, fence : Nat, pos : Position,
                page : SUBSET RowType]

TypeOK ==
    /\ onRetry \in {"supersede", "truncate"} /\ job \in {"live", "over"}
    /\ table \subseteq RowType /\ open \subseteq Nat /\ nextXid \in Nat
    /\ att \in [Fences -> AttemptStates]
    /\ canceller \in Cancellers /\ client \in Clients
    /\ conn \in Connections /\ breaks \in 0 .. Breaks

(* The supersede rule: what a client shows is of one attempt, each chunk at *)
(* most once and in order, whatever retries, late flushes of a replaced     *)
(* attempt, drops and resumptions came between.                             *)
NeverMixed ==
    \A i \in DOMAIN client.text :
        /\ client.text[i].fence = client.fence
        /\ \A j \in 1 .. i - 1 : client.text[i].kind \in {"chunk", "end"} =>
               client.text[j].idx < client.text[i].idx

(* What is shown is an attempt from its first chunk on, none left out.      *)
Whole == \A i \in DOMAIN client.text :
            client.text[i].kind \in {"chunk", "end"} => client.text[i].idx = i - 1

(* Under the default discipline a client that is told "end" has all of the  *)
(* attempt it shows, and what EveryIdResumes asks holds but for one case: a *)
(* connection lost on a `superseded` event, whose id is that of a row the   *)
(* client never gets.                                                       *)
NoHoles == onRetry = "supersede" /\ ~client.missed => Whole

(* What StreamEvent says of `superseded`: it carries "the cursor of the     *)
(* last real row, so a client that stores the id it last saw is never       *)
(* handed one it cannot resume from".  No exception: whichever event the    *)
(* connection was lost on, the client goes on without a hole.               *)
EveryIdResumes == onRetry = "supersede" => Whole

(* Following a stream is playback: no event comes twice, no resumption goes *)
(* back in the log or to an older attempt, the client starts over only for  *)
(* a newer one, and after a terminal event it is sent nothing.              *)
Player == INSTANCE Playback WITH
    attempt <- client.fence, shown <- Len(client.text), at <- client.pos, over <- client.done
ImplementsPlayback == Player!Spec

(* Among the settled rows is a terminal one, of the attempt the reader      *)
(* follows or of a newer one.                                               *)
Ended == \E q \in Settled : q.kind \in Terminal /\ conn.fence <= q.fence

(* A client is let go by such a row: no reader that has been through all    *)
(* the rows idles beside it, whichever attempt, cancel or late flush wrote  *)
(* it, unless its connection dropped on a `superseded` event whose id was   *)
(* that row's.  A terminal row that cancel wrote under the fence of an      *)
(* attempt replaced since lets no reader of the newer one go.               *)
NobodyIdlesAtTheEnd ==
    Ended /\ PageEnded /\ After(conn.pos) = {} => client.missed
=============================================================================
