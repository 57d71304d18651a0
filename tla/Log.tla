-------------------------------- MODULE Log --------------------------------
(***************************************************************************)
(* The append-only log of log.py: transactions append rows to one table,    *)
(* and readers come back with the cursor (xid, seq) of the last row they    *)
(* were handed.  A row's xid is the transaction's, allocated when it first  *)
(* writes; its seq is allocated by the INSERT; neither says when the row    *)
(* commits.  A read is one statement, on one snapshot.                      *)
(***************************************************************************)
EXTENDS Integers, FiniteSets

CONSTANTS Streams,     \* partitions of the log
          Readers,
          Scope,       \* the streams each reader reads: one, or all of them
          Limit,       \* rows in one page
          Keys,        \* dedup keys of append_once
          NoKey,       \* dedup IS NULL
          Retain,      \* the log was not declared KEEP_FOREVER
          MaxXid,      \* bound: transactions that write
          MaxSeq,      \* bound: rows appended
          MaxResumes   \* bound: reconnections of readers

ASSUME LogAssumption ==
    /\ Scope \in [Readers -> SUBSET Streams]
    /\ Limit \in Nat \ {0}
    /\ NoKey \notin Keys
    /\ Retain \in BOOLEAN
    /\ MaxXid \in Nat /\ MaxSeq \in Nat /\ MaxResumes \in Nat

VARIABLES nextXid,     \* the next transaction id
          nextSeq,     \* the next value of the table's sequence
          open,        \* xids in progress
          committed,   \* xids committed
          table,       \* rows inserted and neither rolled back nor deleted
          cursor,      \* where each reader continues
          got,         \* the rows each reader was handed so far
          resumes      \* reconnections so far

logVars == <<nextXid, nextSeq, open, committed, table>>
readVars == <<cursor, got, resumes>>
vars == <<logVars, readVars>>

Position == [xid : Nat, seq : Nat]
Record == [xid : Nat, seq : Nat, stream : Streams, key : Keys \cup {NoKey}]

(* Cursor.start, a record's cursor, and the row comparison of the read.     *)
Start == [xid |-> 0, seq |-> 0]
PosOf(e) == [xid |-> e.xid, seq |-> e.seq]
After(p, q) == p.xid > q.xid \/ (p.xid = q.xid /\ p.seq > q.seq)

(* What a statement sees.                                                   *)
Visible == {e \in table : e.xid \in committed}

(* Slips: every committed row counts as settled; the horizon is one short.  *)
SettledIfCommitted(x) == x \in committed
SettledOneLate(x) == x + 1 < nextXid /\ \A o \in open : x < o

(* xid < pg_snapshot_xmin: allocated before the oldest one in progress.     *)
Settled(x) == x < nextXid /\ \A o \in open : x < o

Init == /\ nextXid = 1 /\ nextSeq = 1
        /\ open = {} /\ committed = {} /\ table = {}
        /\ cursor = [r \in Readers |-> Start]
        /\ got = [r \in Readers |-> {}]
        /\ resumes = 0

-----------------------------------------------------------------------------
(* Transactions.                                                            *)

(* Somebody's transaction writes for the first time, here or elsewhere in   *)
(* the database.                                                            *)
Begin ==
    /\ nextXid <= MaxXid
    /\ nextXid' = nextXid + 1
    /\ open' = open \cup {nextXid}
    /\ UNCHANGED <<nextSeq, committed, table, readVars>>

(* A slip: the column's default is the snapshot's upper bound, which is the *)
(* next transaction's id, instead of pg_current_xact_id().                  *)
AppendUnderXmax(x, s) ==
    /\ x \in open /\ nextSeq <= MaxSeq
    /\ nextSeq' = nextSeq + 1
    /\ table' = table \cup {[xid |-> nextXid, seq |-> nextSeq, stream |-> s, key |-> NoKey]}
    /\ UNCHANGED <<nextXid, open, committed, readVars>>

(* append, and each row of append_many, in the caller's transaction or in   *)
(* one that the statement opened.                                           *)
Append(x, s) ==
    /\ x \in open /\ nextSeq <= MaxSeq
    /\ nextSeq' = nextSeq + 1
    /\ table' = table \cup {[xid |-> x, seq |-> nextSeq, stream |-> s, key |-> NoKey]}
    /\ UNCHANGED <<nextXid, open, committed, readVars>>

Recorded(s, k) == {e \in table : e.stream = s /\ e.key = k}

(* append_once, always in a transaction of its own.  The unique index makes *)
(* it wait for an uncommitted row with its key; a committed one sends it to *)
(* ON CONFLICT DO NOTHING, with an xid and a seq already allocated.         *)
AppendOnce(s, k) ==
    /\ nextXid <= MaxXid /\ nextSeq <= MaxSeq
    /\ Recorded(s, k) \subseteq Visible
    /\ nextXid' = nextXid + 1 /\ nextSeq' = nextSeq + 1
    /\ open' = open \cup {nextXid}
    /\ table' = IF Recorded(s, k) # {} THEN table
                ELSE table \cup {[xid |-> nextXid, seq |-> nextSeq, stream |-> s, key |-> k]}
    /\ UNCHANGED <<committed, readVars>>

Commit(x) ==
    /\ x \in open
    /\ open' = open \ {x}
    /\ committed' = committed \cup {x}
    /\ UNCHANGED <<nextXid, nextSeq, table, readVars>>

Abort(x) ==
    /\ x \in open
    /\ open' = open \ {x}
    /\ table' = {e \in table : e.xid # x}
    /\ UNCHANGED <<nextXid, nextSeq, committed, readVars>>

(* purge, or a chunk of retention_pass: some of the committed rows are past *)
(* their retention.  `at` is the time of the INSERT, so which ones does not *)
(* follow the order of the cursor.                                          *)
Purge(S) ==
    /\ Retain
    /\ S # {} /\ S \subseteq Visible
    /\ table' = table \ S
    /\ UNCHANGED <<nextXid, nextSeq, open, committed, readVars>>

DropStream(s) ==
    /\ table' = {e \in table : e.stream # s \/ e \notin Visible}
    /\ UNCHANGED <<nextXid, nextSeq, open, committed, readVars>>

-----------------------------------------------------------------------------
(* Readers.                                                                 *)

Readable(r) == {e \in Visible : /\ e.stream \in Scope[r]
                                /\ Settled(e.xid)
                                /\ After(e, cursor[r])}

(* A slip: the page is cut before it is sorted.                             *)
IsPageUnsorted(B, R) == /\ B \subseteq R
                        /\ Cardinality(B) <= Limit
                        /\ Cardinality(B) < Limit => B = R

(* ORDER BY xid, seq LIMIT: the first rows of a set, and the last of those. *)
IsPage(B, R) == /\ B \subseteq R
                /\ Cardinality(B) <= Limit
                /\ Cardinality(B) < Limit => B = R
                /\ \A b \in B, e \in R \ B : After(e, b)
IsLast(e, B) == e \in B /\ \A b \in B : ~After(b, e)

(* read, or read_all: the reader is handed a page and continues after its   *)
(* last row.  An empty page leaves the cursor where it was.                 *)
Read(r) ==
    \E B \in SUBSET Readable(r) : \E e \in B :
        /\ IsPage(B, Readable(r)) /\ IsLast(e, B)
        /\ cursor' = [cursor EXCEPT ![r] = PosOf(e)]
        /\ got' = [got EXCEPT ![r] = @ \cup B]
        /\ UNCHANGED <<logVars, resumes>>

(* A client comes back with a cursor it was handed earlier, or with none.   *)
Handed(r) == {Start} \cup {PosOf(e) : e \in got[r]}
Resume(r) ==
    /\ resumes < MaxResumes
    /\ resumes' = resumes + 1
    /\ \E c \in Handed(r) : cursor' = [cursor EXCEPT ![r] = c]
    /\ UNCHANGED <<logVars, got>>

End(x) == Commit(x) \/ Abort(x)

LogStep ==
    \/ Begin
    \/ \E x \in open : End(x) \/ \E s \in Streams : Append(x, s)
    \/ \E s \in Streams : DropStream(s) \/ \E k \in Keys : AppendOnce(s, k)
    \/ \E S \in SUBSET Visible : Purge(S)
ReadStep == \E r \in Readers : Read(r) \/ Resume(r)
Next == LogStep \/ ReadStep

(* Every transaction ends, and every reader goes on asking.                 *)
Fairness == /\ \A x \in 1 .. MaxXid : WF_vars(End(x))
            /\ \A r \in Readers : WF_vars(Read(r))

Spec == Init /\ [][Next]_vars /\ Fairness

-----------------------------------------------------------------------------
(* Properties.                                                              *)

TypeOK ==
    /\ nextXid \in Nat \ {0} /\ nextSeq \in Nat \ {0}
    /\ open \subseteq 1 .. nextXid - 1
    /\ committed \subseteq (1 .. nextXid - 1) \ open
    /\ table \subseteq Record
    /\ \A e \in table : e.xid \in open \cup committed /\ e.seq \in 1 .. nextSeq - 1
    /\ cursor \in [Readers -> Position]
    /\ got \in [Readers -> SUBSET Record]
    /\ resumes \in Nat

(* "A cursor that cannot skip": whichever cursor it was handed a reader     *)
(* comes back with, every committed row at or before it was handed to it,   *)
(* however late that row committed.                                         *)
NeverSkips ==
    \A r \in Readers : \A c \in Handed(r) : \A e \in Visible :
        e.stream \in Scope[r] /\ ~After(e, c) => e \in got[r]

(* To its readers the log is a feed in cursor order: a row that commits     *)
(* late still comes in behind every cursor handed out, and a page is all    *)
(* there is between two cursors.  Transactions, the horizon and the page    *)
(* size do not show.                                                        *)
F == INSTANCE Feed WITH rows <- Visible, taken <- got, place <- cursor
ImplementsFeed == F!Spec

(* A committed row reaches every reader of its stream unless it is deleted  *)
(* first: the horizon delays a row, it does not lose one.                   *)
CatchesUp ==
    \A r \in Readers, q \in 1 .. MaxSeq :
        LET Ready == {e \in Visible : e.seq = q /\ e.stream \in Scope[r]}
        IN  Ready # {} ~> Ready \subseteq got[r]
=============================================================================
