--------------------------- MODULE StreamsWriting ---------------------------
(***************************************************************************)
(* What the attempts of a stream write, for any number of attempts and chunks:*)
(* the chunks of an attempt are in the log in order and, where nothing is   *)
(* truncated, without holes.                                                *)
(***************************************************************************)
EXTENDS Streams, FiniteSetTheorems, TLAPS

(* Positions are in order.                                                  *)
LEMMA Order ==
    /\ Start \in Position
    /\ \A a \in Position : ~Before(a, a)
    /\ \A a, b, c \in Position : Before(a, b) /\ Before(b, c) => Before(a, c)
    /\ \A a, b \in Position : a = b \/ Before(a, b) \/ Before(b, a)
BY DEF Before, Position, Start

LEMMA Rows ==
    ASSUME NEW x \in Nat, NEW n \in Nat, NEW f \in Nat, NEW i \in Nat,
           NEW k \in Terminal \cup {"chunk"}
    PROVE  Row(x, n, f, i, k) \in RowType
BY DEF Row, RowType, Position

(* What a producer inserts, and how it is numbered.                         *)
LEMMA Inserted ==
    ASSUME TypeOK, NEW f \in Fences, NEW n \in 0 .. Chunks - att[f].idx,
           NEW k \in {"end", "error"}
    PROVE  /\ Numbered(f, n) \subseteq RowType /\ Ending(f, n, k) \in RowType
           /\ \A r \in Numbered(f, n) : /\ r.kind = "chunk" /\ r.fence = f
                                        /\ r.at[1] = nextXid /\ r.at[2] \in 1 .. n
                                        /\ r.idx = att[f].idx + r.at[2] - 1
           /\ LET r == Ending(f, n, k)
              IN  /\ r.kind = k /\ r.fence = f /\ r.at = <<nextXid, Chunks + 1>>
                  /\ r.idx = att[f].idx + n
           /\ \A i \in 1 .. n : Row(nextXid, i, f, att[f].idx + i - 1, "chunk") \in Numbered(f, n)
<1>0. att[f].idx \in 0 .. Chunks /\ nextXid \in Nat BY DEF TypeOK, AttemptStates
<1>1. /\ f \in Nat /\ n \in Nat /\ nextXid \in Nat /\ Chunks + 1 \in Nat
      /\ att[f].idx \in Nat /\ att[f].idx + n \in Nat
  BY <1>0, StreamAssumption DEF Fences
<1>2. \A i \in 1 .. n : i \in Nat /\ att[f].idx + i - 1 \in Nat BY <1>1
<1>3. Numbered(f, n) \subseteq RowType BY <1>1, <1>2, Rows DEF Numbered
<1>4. Ending(f, n, k) \in RowType BY Zenon, <1>1, Rows DEF Ending, Terminal
<1>5. \A i \in 1 .. n : LET r == Row(nextXid, i, f, att[f].idx + i - 1, "chunk")
                       IN  /\ r.kind = "chunk" /\ r.fence = f /\ r.at = <<nextXid, i>>
                           /\ r.idx = att[f].idx + i - 1
  BY DEF Row
<1>6. \A r \in Numbered(f, n) : \E i \in 1 .. n :
         r = Row(nextXid, i, f, att[f].idx + i - 1, "chunk")
  BY DEF Numbered
<1>7. \A r \in Numbered(f, n) : /\ r.kind = "chunk" /\ r.fence = f
                               /\ r.at[1] = nextXid /\ r.at[2] \in 1 .. n
                               /\ r.idx = att[f].idx + r.at[2] - 1
  BY <1>5, <1>6
<1> QED BY Zenon, <1>3, <1>4, <1>7 DEF Numbered, Ending, Row

LEMMA AwaitsTypes ==
    ASSUME TypeOK, NEW f \in Fences, NEW n \in 0 .. Chunks - att[f].idx, NEW last \in BOOLEAN,
           Awaits(f, n, last)
    PROVE  /\ att' \in [Fences -> AttemptStates]
           /\ att'[f] = [pc |-> "flushing", idx |-> att[f].idx + n, tx |-> nextXid, last |-> last]
           /\ \A g \in Fences : g # f => att'[g] = att[g]
<1>1. att[f].idx + n \in 0 .. Chunks BY StreamAssumption DEF TypeOK, AttemptStates
<1> QED BY <1>1 DEF TypeOK, AttemptStates, Awaits

(* A page is of the table, and what is skipped of it only goes away.        *)
LEMMA PageOfTable ==
    /\ \A q : Page(q) \subseteq table /\ Page(q) \subseteq After(q) /\ After(q) \subseteq Settled
    /\ \A S, f : Unskipped(S, f) \subseteq S
    /\ Committed \subseteq table /\ Settled \subseteq table
BY DEF Page, After, Settled, Committed, Unskipped

LEMMA Fields ==
    ASSUME TypeOK
    PROVE  /\ nextXid \in Nat /\ open \subseteq Nat
           /\ client.fence \in Nat /\ client.pos \in Position /\ client.text \in Seq(RowType)
           /\ client.done \in BOOLEAN /\ client.owed \in BOOLEAN /\ client.missed \in BOOLEAN
           /\ conn.fence \in Nat /\ conn.pos \in Position /\ conn.page \subseteq RowType
           /\ \A r \in RowType : /\ r.at \in Position /\ r.at[1] \in Nat
                                 /\ r.fence \in Nat /\ r.idx \in Nat
<1>1. \A r \in RowType : r.at \in Position /\ r.fence \in Nat /\ r.idx \in Nat BY DEF RowType
<1>2. \A q \in Position : q[1] \in Nat BY DEF Position
<1> QED BY <1>1, <1>2 DEF TypeOK, Clients, Connections

LEMMA Types ==
    ASSUME TypeOK, [Next]_vars
    PROVE  TypeOK'
<1>1. CASE UNCHANGED vars BY <1>1 DEF vars, log, TypeOK
<1>2. CASE Attach
  <2>1. PICK f \in {client.fence} \cup {r.fence : r \in Settled} :
           /\ conn' = [pc |-> "reading", fence |-> f, pos |-> client.pos, page |-> {}]
           /\ Told(f, client.pos, FALSE) \/ UNCHANGED client
    BY Zenon, <1>2 DEF Attach
  <2>2. f \in Nat BY PageOfTable DEF TypeOK, Clients, RowType
  <2>3. conn' \in Connections
    BY <2>1, <2>2 DEF TypeOK, Connections, Clients
  <2>4. client' \in Clients
    <3>1. CASE UNCHANGED client BY <3>1 DEF TypeOK
    <3>2. CASE Told(f, client.pos, FALSE) BY <2>2, <3>2 DEF Clients, TypeOK, Told
    <3> QED BY Zenon, <2>1, <3>1, <3>2
  <2> QED BY <1>2, <2>3, <2>4 DEF TypeOK, Attach, log, writers
<1>3. CASE ReadPage
  <2>1. PICK q \in {conn.pos} \cup {r.at : r \in Page(conn.pos)} :
           conn' = [conn EXCEPT !.pc = "yielding", !.pos = q,
                                !.page = Unskipped(Page(conn.pos), conn.fence)]
    BY Zenon, <1>3 DEF ReadPage
  <2>2. q \in Position BY PageOfTable DEF TypeOK, Connections, RowType
  <2>3. Unskipped(Page(conn.pos), conn.fence) \subseteq RowType
    BY PageOfTable DEF TypeOK, Connections
  <2>4. conn' \in Connections
    BY Zenon, <2>1, <2>2, <2>3 DEF Connections, TypeOK
  <2> QED BY Zenon, <1>3, <2>4 DEF TypeOK, ReadPage, log, writers
<1>4. ASSUME NEW r \in conn.page, Supersede(r) PROVE TypeOK'
  <2>1. r \in RowType /\ r.fence \in Nat /\ r.at \in Position BY DEF TypeOK, Connections, RowType
  <2>2. conn' \in Connections
    BY Zenon, <1>4, <2>1 DEF Connections, TypeOK, Supersede
  <2>3. client' \in Clients
    BY <1>4, <2>1 DEF Clients, TypeOK, Supersede, Told
  <2> QED BY Zenon, <1>4, <2>2, <2>3 DEF TypeOK, Supersede, log, writers
<1>5. ASSUME NEW r \in conn.page, HandRow(r) PROVE TypeOK'
  <2>1. r \in RowType /\ r.fence \in Nat /\ r.at \in Position BY DEF TypeOK, Connections, RowType
  <2>2. Unskipped(conn.page \ {r}, r.fence) \subseteq RowType BY PageOfTable DEF TypeOK, Connections
  <2>3. conn' \in Connections
    BY Zenon, <1>5, <2>1, <2>2, Order DEF Connections, TypeOK, HandRow, NoConn
  <2>4. client' \in Clients
    BY <1>5, <2>1 DEF Clients, TypeOK, HandRow, Gets
  <2> QED BY <1>5, <2>3, <2>4 DEF TypeOK, HandRow, log, writers
<1>6. CASE IdleTimeout \/ Drop
  <2>1. conn' = NoConn /\ breaks < Breaks /\ breaks' = breaks + 1
    BY <1>6 DEF IdleTimeout, Drop
  <2>2. conn' \in Connections
    BY <2>1, Order DEF Connections, NoConn
  <2>3. client' \in Clients
    BY Zenon, <1>6 DEF TypeOK, Clients, Connections, IdleTimeout, Drop
  <2>4. breaks' \in 0 .. Breaks BY <2>1, StreamAssumption DEF TypeOK
  <2> QED BY Zenon, <1>6, <2>2, <2>3, <2>4 DEF TypeOK, IdleTimeout, Drop, log, writers
<1>7. CASE CancelReads
  <2>1. \A q \in Committed : q.fence \in Nat /\ q.idx \in Nat
    BY PageOfTable DEF TypeOK, RowType
  <2>2. canceller' \in Cancellers
    BY <1>7, <2>1 DEF Cancellers, CancelReads
  <2> QED BY <1>7, <2>2 DEF TypeOK, CancelReads, log, readers
<1>8. CASE CancelAppends
  <2>1. canceller.fence \in Nat /\ canceller.idx + 1 \in Nat BY DEF TypeOK, Cancellers
  <2>2. Row(nextXid, 1, canceller.fence, canceller.idx + 1, "cancelled") \in RowType
    BY <2>1, Rows DEF TypeOK, Terminal
  <2>3. canceller' \in Cancellers
    BY Zenon, <1>8 DEF Cancellers, CancelAppends, NoCancel
  <2> QED BY <1>8, <2>2, <2>3 DEF TypeOK, CancelAppends, readers
<1>9. ASSUME NEW x \in open, Commit(x) PROVE TypeOK'
  <2>1. att' \in [Fences -> AttemptStates]
    BY <1>9, StreamAssumption DEF AttemptStates, TypeOK, Commit, Over, Producing
  <2> QED BY Zenon, <1>9, <2>1 DEF TypeOK, Commit, readers
<1>10. ASSUME NEW f \in Fences, Begin(f) PROVE TypeOK'
  <2>1. att' \in [Fences -> AttemptStates]
    BY <1>10, StreamAssumption DEF AttemptStates, TypeOK, Begin, Producing
  <2> QED BY Zenon, <1>10, <2>1 DEF TypeOK, Begin, readers
<1>11. ASSUME NEW f \in Fences, Flush(f) PROVE TypeOK'
  <2>1. PICK n \in 0 .. Chunks - att[f].idx, last \in BOOLEAN :
           /\ Insert(Numbered(f, n) \cup IF last THEN {Ending(f, n, "end")} ELSE {})
           /\ Awaits(f, n, last)
    BY Zenon, <1>11 DEF Flush
  <2>2. table' \subseteq RowType BY <2>1, Inserted DEF TypeOK, Insert
  <2>3. open' \subseteq Nat /\ nextXid' \in Nat BY <2>1 DEF TypeOK, Insert
  <2>4. att' \in [Fences -> AttemptStates]
    BY Zenon, <2>1, AwaitsTypes
  <2> QED BY Zenon, <1>11, <2>2, <2>3, <2>4 DEF TypeOK, Flush, readers
<1>12. ASSUME NEW f \in Fences, Raise(f) PROVE TypeOK'
  <2>1. CASE f = Attempts /\ ~att[f].last
    <3>1. PICK n \in 0 .. (IF att[f].pc = "producing" THEN Chunks - att[f].idx ELSE 0),
               lost \in BOOLEAN :
             /\ Insert((IF lost THEN {} ELSE Numbered(f, n)) \cup {Ending(f, n, "error")})
             /\ Awaits(f, n, TRUE)
      BY Zenon, <1>12, <2>1 DEF Raise
    <3>2. n \in 0 .. Chunks - att[f].idx BY StreamAssumption DEF TypeOK, AttemptStates
    <3>3. table' \subseteq RowType BY <3>1, <3>2, Inserted DEF TypeOK, Insert
    <3>4. open' \subseteq Nat /\ nextXid' \in Nat BY <3>1 DEF TypeOK, Insert
    <3>5. att' \in [Fences -> AttemptStates]
      BY Zenon, <3>1, <3>2, AwaitsTypes
    <3> QED BY Zenon, <1>12, <3>3, <3>4, <3>5 DEF TypeOK, Raise, readers
  <2>2. CASE ~(f = Attempts /\ ~att[f].last)
    <3>1. att' = [att EXCEPT ![f] = Over] /\ UNCHANGED log BY Zenon, <1>12, <2>2 DEF Raise
    <3>2. att' \in [Fences -> AttemptStates]
      BY <3>1, StreamAssumption DEF AttemptStates, TypeOK, Over
    <3> QED BY Zenon, <1>12, <3>1, <3>2 DEF TypeOK, Raise, log, readers
  <2> QED BY Zenon, <2>1, <2>2
<1>13. ASSUME NEW f \in Fences, Killed(f) PROVE TypeOK'
  <2>1. att' \in [Fences -> AttemptStates]
    BY <1>13, StreamAssumption DEF AttemptStates, TypeOK, Killed, Over
  <2> QED BY Zenon, <1>13, <2>1 DEF TypeOK, Killed, log, readers
<1> QED BY Zenon, <1>1, <1>2, <1>3, <1>4, <1>5, <1>6, <1>7, <1>8, <1>9, <1>10, <1>11, <1>12, <1>13
        DEF Next, Serve

(* The rows, the attempts, the cancelling call, the client and its          *)
(* connection always have their types.                                      *)
THEOREM StreamTypeCorrect == Spec => []TypeOK
<1>1. Init => TypeOK
  BY StreamAssumption, Order DEF Init, TypeOK, AttemptStates, Cancellers, Clients, Connections,
             NoAttempt, NoCancel, NoConn, Start, Position
<1> QED BY <1>1, Types, PTL DEF Spec

-----------------------------------------------------------------------------
(* The rows, whether they are still in the table, in a page on its way, or  *)
(* shown by the client.                                                     *)
Shown == {client.text[i] : i \in 1 .. Len(client.text)}
Known == table \cup conn.page \cup Shown
Writing(f) == att[f].pc \in {"producing", "flushing"}

Given ==
    /\ nextXid >= 1 /\ IsFiniteSet(table)
    /\ \A r \in Known : r \in RowType /\ 1 <= r.at[1] /\ r.at[1] < nextXid
    /\ \A x \in open : 1 <= x /\ x < nextXid
    /\ \A f \in Fences : att[f].tx > 0 \/ att[f].last => att[f].pc = "flushing"

(* Rows are an attempt's that has begun; its next chunk comes after those   *)
(* it has written.                                                          *)
Numbering ==
    \A r \in Known : r.kind # "cancelled" =>
        /\ r.fence \in Fences /\ att[r.fence].pc # "none"
        /\ Writing(r.fence) /\ r.kind = "chunk" => r.idx < att[r.fence].idx

(* The order of positions is that of the chunks of an attempt.              *)
Ascends(r, s) ==
    /\ r.fence = s.fence /\ r.kind = "chunk" /\ s.kind \in {"chunk", "end"}
    /\ Before(r.at, s.at)
    => r.idx < s.idx
InOrder == \A r, s \in Known : Ascends(r, s)

(* Where nothing is truncated, the chunks before a chunk are there, and     *)
(* before it.                                                               *)
IsChunk(r, f, i) == r.kind = "chunk" /\ r.fence = f /\ r.idx = i
Preceded ==
    \A s \in table : s.kind \in {"chunk", "end"} => \A i \in 0 .. s.idx - 1 :
        \E r \in table : IsChunk(r, s.fence, i) /\ Before(r.at, s.at)
Complete ==
    \A f \in Fences : Writing(f) /\ ~att[f].last => \A i \in 0 .. att[f].idx - 1 :
        \E r \in table : IsChunk(r, f, i)
Contiguous == onRetry = "supersede" => Preceded /\ Complete

Written == Given /\ Numbering /\ InOrder /\ Contiguous

(* What a step may do to an attempt, other than to insert rows.             *)
AttemptStep(g) ==
    \/ att'[g] = att[g]
    \/ att[g].pc # "none" /\ att'[g] = Over
    \/ att[g].pc = "none" /\ att'[g] = Producing(0)
    \/ Writing(g) /\ ~att[g].last /\ att'[g] = Producing(att[g].idx)

(* A step adds no row, or some of a new transaction.                        *)
Keeps ==
    /\ UNCHANGED onRetry /\ Known' \subseteq Known
    /\ table' \subseteq table /\ (onRetry = "supersede" => table' = table)
    /\ open' \subseteq open /\ UNCHANGED nextXid
    /\ \A g \in Fences : AttemptStep(g)
Adds(rows) ==
    /\ UNCHANGED <<onRetry, client, conn>>
    /\ table' = table \cup rows
    /\ open' \subseteq open \cup {nextXid} /\ nextXid' = nextXid + 1

(* The rows of one attempt, numbered from where it is.                      *)
AddsOf(f, rows) ==
    /\ Adds(rows) /\ Writing(f) /\ ~att[f].last
    /\ \A r \in rows : /\ r.fence = f /\ r.at[1] = nextXid /\ r.kind \in {"chunk", "end", "error"}
                       /\ att[f].idx <= r.idx
                       /\ r.kind = "chunk" => r.idx < att'[f].idx
    /\ \A r, s \in rows : Ascends(r, s)
    /\ att'[f].pc = "flushing" /\ att[f].idx <= att'[f].idx
    /\ att'[f].last \/ \A i \in att[f].idx .. att'[f].idx - 1 : \E r \in rows : IsChunk(r, f, i)
    /\ \A s \in rows : s.kind \in {"chunk", "end"} => \A i \in att[f].idx .. s.idx - 1 :
          \E r \in rows : IsChunk(r, f, i) /\ Before(r.at, s.at)
    /\ \A g \in Fences : g # f => att'[g] = att[g]

LEMMA KeepsWritten ==
    ASSUME TypeOK, Written, Keeps
    PROVE  Written'
<1>1. ASSUME NEW g \in Fences
      PROVE  /\ att'[g].tx > 0 \/ att'[g].last => att'[g].pc = "flushing"
             /\ att[g].pc # "none" => att'[g].pc # "none"
             /\ Writing(g)' /\ att[g].pc # "none" => Writing(g) /\ att'[g].idx = att[g].idx
             /\ Writing(g)' /\ ~att'[g].last =>
                   att'[g].idx = 0 \/ (Writing(g) /\ ~att[g].last /\ att'[g].idx = att[g].idx)
  <2>1. CASE att'[g] = att[g] BY Zenon, <2>1 DEF Writing, Written, Given
  <2>2. CASE att[g].pc # "none" /\ att'[g] = Over BY <2>2 DEF Over, Writing
  <2>3. CASE att[g].pc = "none" /\ att'[g] = Producing(0) BY <2>3 DEF Producing, Writing
  <2>4. CASE Writing(g) /\ ~att[g].last /\ att'[g] = Producing(att[g].idx)
    BY <2>4 DEF Producing, Writing
  <2> QED BY Zenon, <2>1, <2>2, <2>3, <2>4 DEF Keeps, AttemptStep
<1>2. Given'
  <2>1. IsFiniteSet(table') BY Zenon, FS_Subset DEF Keeps, Written, Given
  <2> QED BY Zenon, <1>1, <2>1 DEF Keeps, Written, Given
<1>3. Numbering' BY Zenon, <1>1 DEF Keeps, Written, Numbering
<1>4. InOrder' BY DEF Keeps, Written, InOrder, Ascends
<1>5. Contiguous'
  <2> SUFFICES ASSUME onRetry = "supersede" PROVE (Preceded /\ Complete)'
      BY DEF Contiguous, Keeps
  <2>1. table' = table /\ Preceded /\ Complete BY DEF Keeps, Written, Contiguous
  <2>2. Preceded' BY <2>1 DEF Preceded, IsChunk
  <2>3. Complete' BY <1>1, <2>1 DEF Complete, IsChunk
  <2> QED BY Zenon, <2>2, <2>3
<1> QED BY Zenon, <1>2, <1>3, <1>4, <1>5 DEF Written

(* Known rows come before those that are added.                             *)
LEMMA AddedAreKnown ==
    ASSUME NEW rows, Adds(rows)
    PROVE  Known' = Known \cup rows
BY DEF Adds, Known, Shown

LEMMA AddsWritten ==
    ASSUME TypeOK, TypeOK', Written, NEW f \in Fences, NEW rows, AddsOf(f, rows), IsFiniteSet(rows)
    PROVE  Written'
<1>0. /\ Known' = Known \cup rows /\ rows \subseteq table' /\ Adds(rows) /\ Writing(f) /\ Writing(f)'
      /\ nextXid \in Nat /\ rows \subseteq RowType /\ nextXid' = nextXid + 1
  BY Zenon, AddedAreKnown DEF AddsOf, Adds, TypeOK, Writing
<1>1. Given'
  <2>1. IsFiniteSet(table') BY Zenon, <1>0, FS_Union DEF Adds, Written, Given
  <2>2. \A r \in Known' : r \in RowType /\ 1 <= r.at[1] /\ r.at[1] < nextXid'
    <3>1. \A r \in Known : r \in RowType /\ 1 <= r.at[1] /\ r.at[1] < nextXid'
      BY <1>0, Fields DEF Written, Given
    <3>2. \A r \in rows : r.at[1] = nextXid BY Zenon DEF AddsOf
    <3> QED BY <1>0, <3>1, <3>2 DEF Written, Given
  <2>3. \A x \in open' : 1 <= x /\ x < nextXid' BY <1>0, Fields DEF Adds, Written, Given
  <2>4. \A g \in Fences : att'[g].tx > 0 \/ att'[g].last => att'[g].pc = "flushing"
    BY Zenon DEF AddsOf, Written, Given
  <2> QED BY <1>0, <2>1, <2>2, <2>3, <2>4 DEF Written, Given
<1>2. att[f].idx \in Nat /\ att'[f].idx \in Nat /\ \A r \in Known \cup rows : r.idx \in Nat
  BY <1>0, Fields DEF TypeOK, AttemptStates, Written, Given
<1>3. Numbering'
  <2>1. ASSUME NEW r \in rows, r.kind # "cancelled"
        PROVE  r.fence \in Fences /\ att'[r.fence].pc # "none"
               /\ (r.kind = "chunk" => r.idx < att'[r.fence].idx)
    BY Zenon, <2>1 DEF AddsOf
  <2>2. ASSUME NEW r \in Known, r.kind # "cancelled"
        PROVE  /\ r.fence \in Fences /\ att'[r.fence].pc # "none"
               /\ Writing(r.fence)' /\ r.kind = "chunk" => r.idx < att'[r.fence].idx
    <3>1. /\ r.fence \in Fences /\ att[r.fence].pc # "none"
          /\ Writing(r.fence) /\ r.kind = "chunk" => r.idx < att[r.fence].idx
      BY Zenon, <2>2 DEF Written, Numbering
    <3>2. CASE r.fence = f BY <1>0, <1>2, <3>1, <3>2 DEF AddsOf
    <3>3. CASE r.fence # f BY Zenon, <3>1, <3>3 DEF AddsOf, Writing
    <3> QED BY Zenon, <3>2, <3>3
  <2> QED BY Zenon, <1>0, <2>1, <2>2 DEF Numbering
<1>4. InOrder'
  <2> SUFFICES ASSUME NEW r \in Known \cup rows, NEW s \in Known \cup rows PROVE Ascends(r, s)
      BY Zenon, <1>0 DEF InOrder, Ascends
  <2>1. CASE r \in Known /\ s \in Known BY Zenon, <2>1 DEF Written, InOrder
  <2>2. CASE r \in rows /\ s \in rows BY Zenon, <2>2 DEF AddsOf
  <2>3. CASE r \in Known /\ s \in rows
    <3> SUFFICES ASSUME r.fence = f, r.kind = "chunk" PROVE r.idx < s.idx
        BY Zenon, <2>3 DEF Ascends, AddsOf
    <3>1. r.idx < att[f].idx BY Zenon, <1>0, <2>3 DEF Written, Numbering
    <3>2. att[f].idx <= s.idx BY Zenon, <2>3 DEF AddsOf
    <3> QED BY <1>2, <3>1, <3>2
  <2>4. CASE r \in rows /\ s \in Known
    <3>1. r.at[1] = nextXid /\ s.at[1] < nextXid /\ s.at[1] \in Nat
      BY Zenon, <2>4, Fields DEF AddsOf, Written, Given
    <3> QED BY <1>0, <3>1 DEF Ascends, Before
  <2> QED BY Zenon, <2>1, <2>2, <2>3, <2>4
<1>5. Contiguous'
  <2> SUFFICES ASSUME onRetry = "supersede" PROVE (Preceded /\ Complete)'
      BY Zenon DEF Contiguous, AddsOf, Adds
  <2>1. Preceded /\ Complete /\ table' = table \cup rows
    BY Zenon DEF Written, Contiguous, AddsOf, Adds
  <2>2. ASSUME NEW i \in 0 .. att[f].idx - 1
        PROVE  \E r \in table : IsChunk(r, f, i)
    BY Zenon, <1>0, <2>1 DEF Complete, AddsOf
  <2>3. ASSUME NEW s \in table', s.kind \in {"chunk", "end"}, NEW i \in 0 .. s.idx - 1
        PROVE  \E r \in table' : IsChunk(r, s.fence, i) /\ Before(r.at, s.at)
    <3>1. CASE s \in table BY Zenon, <2>1, <2>3, <3>1 DEF Preceded
    <3>2. CASE s \in rows /\ i \in att[f].idx .. s.idx - 1 BY Zenon, <2>1, <2>3, <3>2 DEF AddsOf
    <3>3. CASE s \in rows /\ i \in 0 .. att[f].idx - 1
      <4>1. PICK r \in table : IsChunk(r, f, i) BY Zenon, <2>2, <3>3
      <4>2. r.at[1] < nextXid /\ s.at[1] = nextXid /\ s.fence = f
        BY Zenon, <3>3 DEF AddsOf, Written, Given, Known
      <4> QED BY Zenon, <2>1, <4>1, <4>2 DEF Before
    <3>4. i \in att[f].idx .. s.idx - 1 \/ i \in 0 .. att[f].idx - 1
      <4>1. s.idx \in Nat BY Zenon, <1>0, <1>2, <2>3 DEF Known
      <4> QED BY <1>2, <4>1
    <3> QED BY Zenon, <2>1, <2>3, <3>1, <3>2, <3>3, <3>4
  <2>4. ASSUME NEW g \in Fences, Writing(g)', ~att'[g].last, NEW i \in 0 .. att'[g].idx - 1
        PROVE  \E r \in table' : IsChunk(r, g, i)
    <3>1. CASE g # f BY Zenon, <2>1, <2>4, <3>1 DEF Complete, AddsOf, Writing
    <3>2. CASE g = f
      <4>1. CASE i \in 0 .. att[f].idx - 1 BY Zenon, <2>1, <2>2, <3>2, <4>1
      <4>2. CASE i \in att[f].idx .. att'[f].idx - 1 BY Zenon, <2>1, <2>4, <3>2, <4>2 DEF AddsOf
      <4> QED BY <1>2, <3>2, <4>1, <4>2
    <3> QED BY Zenon, <3>1, <3>2
  <2>5. Preceded' BY Zenon, <2>3 DEF Preceded, IsChunk
  <2>6. Complete' BY Zenon, <2>4 DEF Complete, IsChunk
  <2> QED BY Zenon, <2>5, <2>6
<1> QED BY Zenon, <1>1, <1>3, <1>4, <1>5 DEF Written
LEMMA CancelWritten ==
    ASSUME TypeOK, TypeOK', Written, NEW r, Adds({r}), UNCHANGED att,
           r.kind = "cancelled", r.at[1] = nextXid
    PROVE  Written'
<1>0. /\ Known' = Known \cup {r} /\ table' = table \cup {r} /\ r \in RowType
      /\ nextXid \in Nat /\ nextXid' = nextXid + 1
  BY Zenon, AddedAreKnown DEF Adds, TypeOK
<1>1. Given'
  <2>1. IsFiniteSet(table') BY Zenon, <1>0, FS_Union, FS_Singleton DEF Written, Given
  <2>2. \A s \in Known' : s \in RowType /\ 1 <= s.at[1] /\ s.at[1] < nextXid'
    BY <1>0, Fields DEF Written, Given
  <2>3. \A x \in open' : 1 <= x /\ x < nextXid' BY <1>0, Fields DEF Adds, Written, Given
  <2> QED BY <1>0, <2>1, <2>2, <2>3 DEF Written, Given
<1>2. Numbering' BY Zenon, <1>0 DEF Written, Numbering, Writing
<1>3. InOrder' BY Zenon, <1>0 DEF Written, InOrder, Ascends
<1>4. Contiguous'
  <2> SUFFICES ASSUME onRetry = "supersede" PROVE (Preceded /\ Complete)'
      BY DEF Contiguous, Adds
  <2>1. Preceded /\ Complete BY Zenon DEF Written, Contiguous
  <2>2. Preceded' BY <1>0, <2>1 DEF Preceded, IsChunk
  <2>3. Complete' BY <1>0, <2>1 DEF Complete, IsChunk, Writing
  <2> QED BY Zenon, <2>2, <2>3
<1> QED BY Zenon, <1>1, <1>2, <1>3, <1>4 DEF Written

LEMMA FinitelyMany ==
    ASSUME NEW f, NEW n \in Nat
    PROVE  IsFiniteSet(Numbered(f, n))
<1> DEFINE g == [i \in 1 .. n |-> Row(nextXid, i, f, att[f].idx + i - 1, "chunk")]
<1>1. g \in Surjection(1 .. n, Numbered(f, n)) BY DEF Numbered, Surjection
<1>2. IsFiniteSet(1 .. n) BY FS_Interval
<1> HIDE DEF g
<1> QED BY Zenon, <1>1, <1>2, FS_Surjection

(* The chunks of a flush, with or without the row that ends the stream.     *)
LEMMA FlushAdds ==
    ASSUME TypeOK, Given, NEW f \in Fences, NEW n \in 0 .. Chunks - att[f].idx, NEW last \in BOOLEAN,
           Writing(f), ~att[f].last, Awaits(f, n, last), UNCHANGED <<onRetry, client, conn>>,
           NEW k \in {"end", "error"}, NEW lost \in BOOLEAN, lost => k = "error" /\ last,
           NEW ends \in BOOLEAN, ends => last,
           Insert((IF lost THEN {} ELSE Numbered(f, n))
                     \cup (IF ends THEN {Ending(f, n, k)} ELSE {}))
    PROVE  \E rows : AddsOf(f, rows) /\ IsFiniteSet(rows)
<1> DEFINE chunks == IF lost THEN {} ELSE Numbered(f, n)
           end == Ending(f, n, k)
           rows == chunks \cup (IF ends THEN {end} ELSE {})
<1>0. att[f].idx \in Nat /\ n \in Nat /\ nextXid \in Nat /\ Chunks \in Nat
  BY StreamAssumption DEF TypeOK, AttemptStates
<1>1. \A r \in chunks : /\ r.kind = "chunk" /\ r.fence = f
                        /\ r.at[1] = nextXid /\ r.at[2] \in 1 .. n
                        /\ r.idx = att[f].idx + r.at[2] - 1
  BY Inserted
<1>2. /\ end.kind = k /\ end.fence = f /\ end.at[1] = nextXid /\ end.at[2] = Chunks + 1
      /\ end.idx = att[f].idx + n
  BY Inserted
<1>3. /\ att'[f].pc = "flushing" /\ att'[f].idx = att[f].idx + n /\ (att'[f].last <=> last)
      /\ \A g \in Fences : g # f => att'[g] = att[g]
  <2>1. /\ att'[f] = [pc |-> "flushing", idx |-> att[f].idx + n, tx |-> nextXid, last |-> last]
        /\ \A g \in Fences : g # f => att'[g] = att[g]
    BY Zenon, AwaitsTypes
  <2> QED BY <2>1
<1>4. ~lost => \A i \in att[f].idx .. att[f].idx + n - 1 : \E r \in chunks :
         IsChunk(r, f, i) /\ r.at = <<nextXid, i - att[f].idx + 1>>
  <2> SUFFICES ASSUME ~lost, NEW i \in att[f].idx .. att[f].idx + n - 1
               PROVE  \E r \in chunks : IsChunk(r, f, i) /\ r.at = <<nextXid, i - att[f].idx + 1>>
      BY Zenon
  <2> DEFINE j == i - att[f].idx + 1
             r == Row(nextXid, j, f, att[f].idx + j - 1, "chunk")
  <2>1. j \in 1 .. n /\ att[f].idx + j - 1 = i BY <1>0
  <2>2. r \in chunks BY Zenon, <2>1 DEF Numbered
  <2>3. IsChunk(r, f, i) /\ r.at = <<nextXid, j>> BY Zenon, <2>1 DEF Row, IsChunk
  <2> QED BY Zenon, <2>2, <2>3
<1>5. IsFiniteSet(rows)
  <2>1. IsFiniteSet(chunks) BY Zenon, <1>0, FinitelyMany, FS_EmptySet
  <2>2. IsFiniteSet(IF ends THEN {end} ELSE {}) BY Zenon, FS_Singleton, FS_EmptySet
  <2> QED BY Zenon, <2>1, <2>2, FS_Union
<1>6. Insert(rows) BY Zenon
<1> HIDE DEF chunks, end
<1>7. \A r \in rows : r \in chunks \/ (ends /\ r = end) BY Zenon
<1>8. n <= Chunks BY <1>0
<1>9. AddsOf(f, rows)
  <2>1. Adds(rows) BY Zenon, <1>6 DEF Insert, Adds
  <2>2. \A r \in rows : /\ r.fence = f /\ r.at[1] = nextXid /\ r.kind \in {"chunk", "end", "error"}
                        /\ att[f].idx <= r.idx
                        /\ r.kind = "chunk" => r.idx < att'[f].idx
    BY <1>0, <1>1, <1>2, <1>3, <1>7
  <2>3. \A r, s \in rows : Ascends(r, s)
    BY <1>0, <1>1, <1>2, <1>7, <1>8 DEF Ascends, Before
  <2>4. last \/ \A i \in att[f].idx .. att'[f].idx - 1 : \E r \in rows : IsChunk(r, f, i)
    <3> SUFFICES ASSUME ~last, NEW i \in att[f].idx .. att'[f].idx - 1
                 PROVE  \E r \in rows : IsChunk(r, f, i)
        BY Zenon
    <3>1. ~lost BY Zenon
    <3>2. i \in att[f].idx .. att[f].idx + n - 1 BY <1>0, <1>3
    <3>3. PICK r \in chunks : IsChunk(r, f, i) BY Zenon, <1>4, <3>1, <3>2
    <3> QED BY Zenon, <3>3
  <2>5. ASSUME NEW s \in rows, s.kind \in {"chunk", "end"}, NEW i \in att[f].idx .. s.idx - 1
        PROVE  \E r \in rows : IsChunk(r, f, i) /\ Before(r.at, s.at)
    <3>1. ~lost BY Zenon, <1>2, <1>7, <2>5 DEF chunks
    <3>2. i < att[f].idx + n /\ i \in att[f].idx .. att[f].idx + n - 1
      BY <1>0, <1>1, <1>2, <1>7, <2>5
    <3>3. PICK r \in chunks : IsChunk(r, f, i) /\ r.at = <<nextXid, i - att[f].idx + 1>>
      BY Zenon, <1>4, <3>1, <3>2
    <3>4. s.at[1] = nextXid /\ i - att[f].idx + 1 < s.at[2]
      BY <1>0, <1>1, <1>2, <1>7, <1>8, <2>5, <3>2
    <3> QED BY <3>3, <3>4 DEF Before
  <2>6. Writing(f) /\ ~att[f].last BY Zenon
  <2>7. att'[f].pc = "flushing" /\ att[f].idx <= att'[f].idx BY <1>0, <1>3
  <2>8. att'[f].last \/ \A i \in att[f].idx .. att'[f].idx - 1 : \E r \in rows : IsChunk(r, f, i)
    BY Zenon, <1>3, <2>4
  <2>9. \A g \in Fences : g # f => att'[g] = att[g] BY Zenon, <1>3
  <2> HIDE DEF rows
  <2> QED BY Zenon, <2>1, <2>2, <2>3, <2>5, <2>6, <2>7, <2>8, <2>9 DEF AddsOf
<1> QED BY Zenon, <1>5, <1>9

(* What the writers may do, and that the readers leave the rows alone.      *)
Reading == \/ Attach \/ ReadPage \/ IdleTimeout \/ Drop
           \/ \E r \in conn.page : Supersede(r) \/ HandRow(r)

LEMMA Sides ==
    ASSUME TypeOK, Given, [Next]_vars
    PROVE  \/ Reading
           \/ Keeps /\ UNCHANGED <<client, conn>>
           \/ \E f \in Fences : \E rows : AddsOf(f, rows) /\ IsFiniteSet(rows)
           \/ \E r : Adds({r}) /\ UNCHANGED att /\ r.kind = "cancelled" /\ r.at[1] = nextXid
<1>0. ASSUME UNCHANGED <<client, conn>>, table' \subseteq table PROVE Known' \subseteq Known
  BY Zenon, <1>0 DEF Known, Shown
<1>1. CASE UNCHANGED vars BY Zenon, <1>0, <1>1 DEF vars, log, Keeps, AttemptStep
<1>2. CASE CancelReads
  BY Zenon, <1>0, <1>2 DEF CancelReads, log, readers, Keeps, AttemptStep
<1>3. CASE CancelAppends
  <2> DEFINE r == Row(nextXid, 1, canceller.fence, canceller.idx + 1, "cancelled")
  <2>1. r.kind = "cancelled" /\ r.at[1] = nextXid BY DEF Row
  <2>2. Adds({r}) /\ UNCHANGED att BY Zenon, <1>3 DEF CancelAppends, Adds, readers
  <2> QED BY Zenon, <2>1, <2>2
<1>4. ASSUME NEW x \in open, Commit(x) PROVE Keeps /\ UNCHANGED <<client, conn>>
  <2>1. ASSUME NEW g \in Fences PROVE AttemptStep(g)
    <3>1. att'[g] = IF att[g].tx # x THEN att[g]
                    ELSE IF att[g].last THEN Over ELSE Producing(att[g].idx)
      BY Zenon, <1>4 DEF Commit
    <3>2. x > 0 BY Fields DEF Given
    <3>3. att[g].tx = x => att[g].pc = "flushing" BY Zenon, <3>2 DEF Given
    <3> QED BY Zenon, <3>1, <3>3 DEF AttemptStep, Writing
  <2> QED BY Zenon, <1>0, <1>4, <2>1 DEF Commit, readers, Keeps
<1>5. ASSUME NEW f \in Fences, Begin(f) PROVE Keeps /\ UNCHANGED <<client, conn>>
  <2>1. \A g \in Fences : AttemptStep(g) BY Zenon, <1>5 DEF Begin, TypeOK, AttemptStep
  <2> QED BY Zenon, <1>0, <1>5, <2>1 DEF Begin, readers, Keeps
<1>6. ASSUME NEW f \in Fences, att[f].pc \in {"producing", "flushing"},
             att' = [att EXCEPT ![f] = Over], UNCHANGED <<onRetry, log, readers>>
      PROVE  Keeps /\ UNCHANGED <<client, conn>>
  <2>1. \A g \in Fences : AttemptStep(g) BY Zenon, <1>6 DEF TypeOK, AttemptStep
  <2> QED BY Zenon, <1>0, <1>6, <2>1 DEF log, readers, Keeps
<1>7. ASSUME NEW f \in Fences, Killed(f) PROVE Keeps /\ UNCHANGED <<client, conn>>
  BY Zenon, <1>6, <1>7 DEF Killed
<1>8. ASSUME NEW f \in Fences, Flush(f)
      PROVE  \E rows : AddsOf(f, rows) /\ IsFiniteSet(rows)
  <2>1. PICK n \in 0 .. Chunks - att[f].idx, last \in BOOLEAN :
           /\ Insert(Numbered(f, n) \cup IF last THEN {Ending(f, n, "end")} ELSE {})
           /\ Awaits(f, n, last)
    BY Zenon, <1>8 DEF Flush
  <2>2. Writing(f) /\ ~att[f].last /\ UNCHANGED <<onRetry, client, conn>>
    BY Zenon, <1>8 DEF Flush, Writing, Given, readers
  <2>3. Insert((IF FALSE THEN {} ELSE Numbered(f, n))
                  \cup (IF last THEN {Ending(f, n, "end")} ELSE {}))
    BY Zenon, <2>1
  <2> QED BY Zenon, <2>1, <2>2, <2>3, FlushAdds
<1>9. ASSUME NEW f \in Fences, Raise(f)
      PROVE  \/ Keeps /\ UNCHANGED <<client, conn>>
             \/ \E rows : AddsOf(f, rows) /\ IsFiniteSet(rows)
  <2>1. CASE f = Attempts /\ ~att[f].last
    <3>1. PICK n \in 0 .. (IF att[f].pc = "producing" THEN Chunks - att[f].idx ELSE 0),
               lost \in BOOLEAN :
             /\ Insert((IF lost THEN {} ELSE Numbered(f, n)) \cup {Ending(f, n, "error")})
             /\ Awaits(f, n, TRUE)
      BY Zenon, <1>9, <2>1 DEF Raise
    <3>2. n \in 0 .. Chunks - att[f].idx BY StreamAssumption DEF TypeOK, AttemptStates
    <3>3. Writing(f) /\ UNCHANGED <<onRetry, client, conn>>
      BY Zenon, <1>9 DEF Raise, Writing, readers
    <3>4. Insert((IF lost THEN {} ELSE Numbered(f, n))
                    \cup (IF TRUE THEN {Ending(f, n, "error")} ELSE {}))
      BY Zenon, <3>1
    <3> QED BY Zenon, <2>1, <3>1, <3>2, <3>3, <3>4, FlushAdds
  <2>2. CASE ~(f = Attempts /\ ~att[f].last) BY Zenon, <1>6, <1>9, <2>2 DEF Raise
  <2> QED BY Zenon, <2>1, <2>2
<1> QED BY Zenon, <1>1, <1>2, <1>3, <1>4, <1>5, <1>7, <1>8, <1>9 DEF Next, Serve, Reading

LEMMA ReadingKeeps ==
    ASSUME TypeOK, Reading
    PROVE  Keeps /\ UNCHANGED <<log, att>>
<1>1. /\ UNCHANGED <<onRetry, log, att>> /\ conn'.page \subseteq table \cup conn.page
      /\ Shown' \subseteq Shown \cup conn.page
  <2>1. CASE Attach
    <3>1. UNCHANGED <<onRetry, log, att>> /\ conn'.page = {}
          /\ (client'.text = <<>> \/ client' = client)
      BY <2>1 DEF Attach, Told, writers
    <3> QED BY <3>1 DEF Shown
  <2>2. CASE ReadPage
    <3>1. UNCHANGED <<onRetry, log, att, client>>
          /\ conn'.page = Unskipped(Page(conn.pos), conn.fence)
      BY Zenon, <2>2 DEF ReadPage, writers, TypeOK, Connections
    <3> QED BY Zenon, <3>1, PageOfTable DEF Shown
  <2>3. ASSUME NEW r \in conn.page, Supersede(r)
        PROVE  /\ UNCHANGED <<onRetry, log, att>> /\ conn'.page \subseteq table \cup conn.page
               /\ Shown' \subseteq Shown \cup conn.page
    <3>1. UNCHANGED <<onRetry, log, att>> /\ conn'.page = conn.page /\ client'.text = <<>>
      BY Zenon, <2>3 DEF Supersede, Told, writers, TypeOK, Connections
    <3> QED BY <3>1 DEF Shown
  <2>4. ASSUME NEW r \in conn.page, HandRow(r)
        PROVE  /\ UNCHANGED <<onRetry, log, att>> /\ conn'.page \subseteq table \cup conn.page
               /\ Shown' \subseteq Shown \cup conn.page
    <3>1. UNCHANGED <<onRetry, log, att>> /\ client'.text = Append(client.text, r)
      BY Zenon, <2>4 DEF HandRow, Gets, writers
    <3>2. conn'.page = {} \/ conn'.page = Unskipped(conn.page \ {r}, r.fence)
      BY Zenon, <2>4 DEF HandRow, NoConn, TypeOK, Connections
    <3>3. Shown' \subseteq Shown \cup {r} BY <3>1, Fields DEF Shown
    <3> QED BY <3>1, <3>2, <3>3, PageOfTable
  <2>5. CASE IdleTimeout \/ Drop
    <3>1. UNCHANGED <<onRetry, log, att>> /\ conn' = NoConn /\ client'.text = client.text
      BY Zenon, <2>5 DEF IdleTimeout, Drop, writers, TypeOK, Clients
    <3> QED BY Zenon, <3>1 DEF Shown, NoConn
  <2> QED BY Zenon, <2>1, <2>2, <2>3, <2>4, <2>5 DEF Reading
<1>2. Known' \subseteq Known BY <1>1 DEF Known, log
<1> QED BY Zenon, <1>1, <1>2 DEF Keeps, AttemptStep, log

LEMMA WrittenHolds == Spec => []Written
<1>1. Init => Written
  <2> SUFFICES ASSUME Init PROVE Written
      BY Zenon
  <2>1. Known = {} BY DEF Init, Known, Shown, NoConn
  <2>2. Given BY <2>1, FS_EmptySet DEF Init, Given, NoAttempt
  <2>3. Numbering /\ InOrder /\ Contiguous
    BY Zenon, <2>1 DEF Init, Numbering, InOrder, Contiguous, Preceded, Complete, Writing, NoAttempt
  <2> QED BY Zenon, <2>2, <2>3 DEF Written
<1>2. TypeOK /\ TypeOK' /\ Written /\ [Next]_vars => Written'
  BY Zenon, Sides, ReadingKeeps, KeepsWritten, AddsWritten, CancelWritten DEF Written
<1> QED BY <1>1, <1>2, StreamTypeCorrect, PTL DEF Spec

-----------------------------------------------------------------------------
(* A page has no gaps.                                                      *)
LEMMA NoGaps ==
    ASSUME TypeOK, IsFiniteSet(table), NEW q \in Position, NEW r \in Page(q), NEW s \in After(q),
           Before(s.at, r.at)
    PROVE  s \in Page(q)
<1> DEFINE A == {t \in After(q) : Before(t.at, s.at)}
           B == {t \in After(q) : Before(t.at, r.at)}
<1>1. r \in RowType /\ s \in RowType /\ After(q) \subseteq RowType /\ B \subseteq table
  BY Zenon, PageOfTable DEF TypeOK
<1>2. A \subseteq B BY Zenon, <1>1, Order, Fields
<1>3. IsFiniteSet(B) BY Zenon, <1>1, FS_Subset
<1>4. IsFiniteSet(A) /\ Cardinality(A) <= Cardinality(B) BY Zenon, <1>2, <1>3, FS_Subset
<1>5. Cardinality(B) < Limit BY Zenon DEF Page
<1>6. Cardinality(A) \in Nat /\ Cardinality(B) \in Nat BY Zenon, <1>3, <1>4, FS_CardinalityType
<1>7. Cardinality(A) < Limit
  <2> HIDE DEF A, B
  <2> QED BY <1>4, <1>5, <1>6, StreamAssumption
<1> QED BY Zenon, <1>7 DEF Page
=============================================================================
