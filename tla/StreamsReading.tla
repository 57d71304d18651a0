--------------------------- MODULE StreamsReading ---------------------------
(***************************************************************************)
(* What a client of a stream shows, for any number of attempts and chunks,  *)
(* any page size and any number of broken connections: one attempt, in      *)
(* order and without holes; and a row that ends the stream lets it go.      *)
(***************************************************************************)
EXTENDS StreamsWriting

(* The reader and its client.                                               *)

On == conn.pc # "off"

(* The client has yet to get this row, if its connection lives.             *)
Beyond(r) == Before(client.pos, r.at) \/ (client.owed /\ r.at = client.pos)

(* Client and generator agree on the attempt, once the client has anything. *)
Tied ==
    /\ On => ~client.done /\ client.fence \in {0, conn.fence} /\ ~Before(conn.pos, client.pos)
    /\ ~On => conn = NoConn /\ ~client.owed
    /\ conn.pc = "reading" => conn.page = {} /\ conn.pos = client.pos /\ ~client.owed
    /\ client.fence = 0 /\ ~client.done => client.text = <<>> /\ client.pos = Start
    /\ client.owed => client.text = <<>>
    /\ On /\ conn.fence = 0 /\ conn.page = {} => conn.pos = Start

(* No row can appear below a cursor that is out.                            *)
Below == \A p \in {client.pos, conn.pos} : p[1] < nextXid /\ \A x \in open : p[1] < x

(* What is shown is of one attempt, and in the order of the log.            *)
Texts ==
    \A i \in 1 .. Len(client.text) :
        /\ client.text[i].fence = client.fence
        /\ ~Before(client.pos, client.text[i].at)
        /\ client.text[i].kind # "chunk" => client.done /\ i = Len(client.text)
        /\ \A j \in 1 .. i - 1 : Before(client.text[j].at, client.text[i].at)

(* The page is what is between the client and the generator's position,     *)
(* but for rows of replaced attempts.                                       *)
Pages ==
    /\ \A r \in conn.page : Beyond(r) /\ ~Before(conn.pos, r.at)
    /\ On => \A r \in table :
          Beyond(r) /\ ~Before(conn.pos, r.at) /\ r.fence >= conn.fence => r \in conn.page

(* What is behind the client is of its attempt or an older one; of its own  *)
(* it has every row.                                                        *)
Passed ==
    /\ \A r \in table : ~Before(client.pos, r.at) => r.fence <= client.fence
    /\ ~client.missed /\ ~client.done => \A r \in table :
          r.fence = client.fence /\ ~Beyond(r) =>
              r.kind = "chunk" /\ (onRetry = "supersede" => r.idx < Len(client.text))

(* Where nothing is truncated, what the reader knows of is in the table.    *)
Kept ==
    onRetry = "supersede" =>
        /\ conn.page \subseteq table
        /\ \A f \in {conn.fence, client.fence} : f = 0 \/ \E r \in table : r.fence = f

Served == Tied /\ Below /\ Texts /\ Pages /\ Passed /\ Kept /\ NoHoles

(* The rows that writers add are ahead of every reader.                     *)
Grown ==
    /\ UNCHANGED <<onRetry, client, conn>> /\ nextXid <= nextXid'
    /\ \A x \in open' : x \in open \/ x = nextXid
    /\ \A r \in table' : r \in table \/ r.at[1] = nextXid
    /\ onRetry = "supersede" => table \subseteq table'

LEMMA GrownServes ==
    ASSUME TypeOK, TypeOK', Served, Grown
    PROVE  Served'
<1>0. UNCHANGED <<onRetry, client, conn>> BY DEF Grown
<1>1. ASSUME NEW r \in table', r \notin table
      PROVE  Before(client.pos, r.at) /\ Before(conn.pos, r.at)
  <2>1. client.pos[1] < r.at[1] /\ conn.pos[1] < r.at[1]
    BY Zenon, <1>1 DEF Grown, Served, Below
  <2> QED BY Zenon, <2>1 DEF Before
<1>2. Tied' BY Zenon, <1>0 DEF Served, Tied, On
<1>3. Below'
  <2>1. client.pos[1] \in Nat /\ conn.pos[1] \in Nat /\ nextXid \in Nat /\ nextXid' \in Nat
    BY Zenon, Fields DEF Position, TypeOK
  <2> QED BY <1>0, <2>1 DEF Served, Below, Grown
<1>4. Texts' BY <1>0 DEF Served, Texts
<1>5. Pages' BY <1>0, <1>1 DEF Served, Pages, Beyond, On
<1>6. Passed'
  <2>1. \A r \in table' : ~Before(client.pos, r.at) => r \in table BY <1>1
  <2>2. \A r \in table' : ~Beyond(r) => r \in table BY Zenon, <1>1 DEF Beyond
  <2> QED BY Zenon, <1>0, <2>1, <2>2 DEF Served, Passed, Beyond
<1>7. Kept' BY Zenon, <1>0 DEF Served, Kept, Grown
<1>8. NoHoles' BY Zenon, <1>0 DEF Served, NoHoles, Whole
<1> QED BY Zenon, <1>2, <1>3, <1>4, <1>5, <1>6, <1>7, <1>8 DEF Served

LEMMA AttachServes ==
    ASSUME TypeOK, TypeOK', Written, Served, Attach
    PROVE  Served'
<1>1. PICK f \in {client.fence} \cup {r.fence : r \in Settled} :
         /\ client.fence <= f
         /\ conn' = [pc |-> "reading", fence |-> f, pos |-> client.pos, page |-> {}]
         /\ IF f > client.fence /\ client.fence > 0 THEN Told(f, client.pos, FALSE)
            ELSE UNCHANGED client
  BY Zenon DEF Attach
<1>2. /\ UNCHANGED <<onRetry, log>> /\ ~client.done /\ ~client.owed
      /\ f \in Nat /\ client.fence \in Nat /\ client.pos \in Position
      /\ conn'.pc = "reading" /\ conn'.fence = f /\ conn'.pos = client.pos /\ conn'.page = {}
  BY Zenon, <1>1, Fields, PageOfTable DEF Attach, Served, Tied, On, TypeOK
<1>3. f = 0 \/ f = client.fence \/ \E r \in table : r.fence = f BY Zenon, PageOfTable
<1>4. \A r \in table : Before(client.pos, r.at) => ~(~Before(conn'.pos, r.at)) BY Zenon, <1>2
<1>5. CASE f > client.fence /\ client.fence > 0
  <2>1. /\ client'.text = <<>> /\ client'.fence = f /\ client'.pos = client.pos
        /\ ~client'.done /\ ~client'.owed /\ ~client'.missed
    BY <1>1, <1>5 DEF Told
  <2>2. Tied' BY <1>2, <1>5, <2>1, Order DEF Tied, On
  <2>3. Below' BY Zenon, <1>2, <2>1 DEF Served, Below, log
  <2>4. Texts' BY <2>1 DEF Texts
  <2>5. Pages' BY Zenon, <1>2, <1>4, <2>1 DEF Pages, Beyond, On, log
  <2>6. \A r \in table : ~Before(client.pos, r.at) => r.fence < f
    BY <1>2, <1>5, Fields DEF Served, Passed, TypeOK
  <2>7. Passed' BY <1>2, <2>1, <2>6, Fields DEF Passed, Beyond, log, TypeOK
  <2>8. Kept' BY <1>2, <1>3, <1>5, <2>1 DEF Kept, log
  <2>9. NoHoles' BY <2>1 DEF NoHoles, Whole
  <2> QED BY Zenon, <2>2, <2>3, <2>4, <2>5, <2>7, <2>8, <2>9 DEF Served
<1>6. CASE ~(f > client.fence /\ client.fence > 0)
  <2>1. client' = client /\ (client.fence = f \/ client.fence = 0)
    <3>1. client' = client BY Zenon, <1>1, <1>6
    <3>2. client.fence <= f BY Zenon, <1>1
    <3> QED BY <1>2, <1>6, <3>1, <3>2
  <2>2. Tied' BY Zenon, <1>2, <2>1, Order DEF Served, Tied, On
  <2>3. Below' BY Zenon, <1>2, <2>1 DEF Served, Below, log
  <2>4. Texts' BY Zenon, <2>1 DEF Served, Texts
  <2>5. Pages' BY Zenon, <1>2, <1>4, <2>1 DEF Pages, Beyond, On, log
  <2>6. Passed' BY Zenon, <1>2, <2>1 DEF Served, Passed, Beyond, log
  <2>7. Kept' BY Zenon, <1>2, <1>3, <2>1 DEF Served, Kept, log
  <2>8. NoHoles' BY Zenon, <1>2, <2>1 DEF Served, NoHoles, Whole
  <2> QED BY <2>2, <2>3, <2>4, <2>5, <2>6, <2>7, <2>8 DEF Served
<1> QED BY Zenon, <1>5, <1>6

LEMMA ReadPageServes ==
    ASSUME TypeOK, TypeOK', Written, Served, ReadPage
    PROVE  Served'
<1> DEFINE P == Page(conn.pos)
<1>1. PICK q \in {conn.pos} \cup {r.at : r \in P} :
         /\ \A r \in P : ~Before(q, r.at)
         /\ conn' = [conn EXCEPT !.pc = "yielding", !.pos = q,
                                 !.page = Unskipped(P, conn.fence)]
  BY Zenon DEF ReadPage
<1>2. /\ UNCHANGED <<onRetry, log, client>> /\ On
      /\ conn'.pc = "yielding" /\ conn'.fence = conn.fence /\ conn'.pos = q
      /\ conn'.page = Unskipped(P, conn.fence)
  BY Zenon, <1>1 DEF ReadPage, On, PageEnded, TypeOK, Connections
<1>3. conn.page = {} BY Zenon DEF ReadPage, PageEnded, Served, Tied
<1>4. /\ q \in Position /\ conn.pos \in Position /\ client.pos \in Position
      /\ conn.fence \in Nat /\ P \subseteq table /\ P \subseteq Settled
      /\ \A r \in P : Before(conn.pos, r.at)
      /\ \A r \in table : r \in RowType /\ r.at \in Position /\ r.fence \in Nat
  <2>1. q \in Position BY Zenon, PageOfTable, Fields DEF TypeOK
  <2>2. \A r \in P : Before(conn.pos, r.at) BY Zenon DEF Page, After
  <2> QED BY Zenon, <2>1, <2>2, PageOfTable, Fields DEF TypeOK
<1>5. q = conn.pos \/ Before(conn.pos, q) BY Zenon, <1>4
<1>6. ~Before(conn.pos, client.pos) BY Zenon, <1>2 DEF Served, Tied
<1>7. Tied'
  <2>1. ~Before(q, client.pos) BY Zenon, <1>4, <1>5, <1>6, Order
  <2>2. ASSUME conn.fence = 0, Unskipped(P, conn.fence) = {} PROVE q = Start
    <3>1. \A r \in P : r \in Unskipped(P, conn.fence) BY <1>4, <2>2, Order DEF Unskipped
    <3>2. q = conn.pos BY Zenon, <2>2, <3>1
    <3> QED BY Zenon, <1>2, <1>3, <2>2, <3>2 DEF Served, Tied
  <2> QED BY Zenon, <1>2, <2>1, <2>2 DEF Served, Tied, On
<1>8. Below'
  <2>1. q[1] < nextXid /\ \A x \in open : q[1] < x
    <3>1. CASE q = conn.pos BY Zenon, <3>1 DEF Served, Below
    <3>2. ASSUME NEW r \in P, q = r.at PROVE q[1] < nextXid /\ \A x \in open : q[1] < x
      BY Zenon, <1>4, <3>2 DEF Settled, Written, Given, Known
    <3> QED BY Zenon, <3>1, <3>2
  <2> QED BY Zenon, <1>2, <2>1 DEF Served, Below, log
<1>9. Texts' BY Zenon, <1>2 DEF Served, Texts
<1>10. Pages'
  <2>1. ASSUME NEW r \in Unskipped(P, conn.fence) PROVE Beyond(r) /\ ~Before(q, r.at)
    <3>1. r \in P /\ r.at \in Position BY Zenon, <1>4, PageOfTable
    <3>2. Before(client.pos, r.at) BY Zenon, <1>4, <1>6, <3>1, Order
    <3> QED BY Zenon, <1>1, <3>1, <3>2 DEF Beyond
  <2>2. ASSUME NEW r \in table, Beyond(r), ~Before(q, r.at), r.fence >= conn.fence
        PROVE  r \in Unskipped(P, conn.fence)
    <3>1. Before(conn.pos, r.at) BY Zenon, <1>2, <1>3, <2>2 DEF Served, Pages
    <3>2. PICK s \in P : q = s.at BY Zenon, <1>4, <2>2, <3>1
    <3>3. r \in After(conn.pos)
      <4>1. \A x \in open : s.at[1] < x BY Zenon, <1>4, <3>2 DEF Settled
      <4>2. r.at[1] <= s.at[1] /\ r.at[1] \in Nat /\ s.at[1] \in Nat
        BY <1>4, <2>2, <3>2 DEF Before, Position
      <4>3. r \in Settled BY <4>1, <4>2, Fields DEF Settled
      <4> QED BY Zenon, <3>1, <4>3 DEF After
    <3>4. r \in P
      <4>1. CASE Before(r.at, s.at) BY Zenon, <1>4, <3>2, <3>3, <4>1, NoGaps DEF Written, Given
      <4>2. CASE r.at = s.at
        <5>1. {t \in After(conn.pos) : Before(t.at, r.at)} = {t \in After(conn.pos) : Before(t.at, s.at)}
          BY Zenon, <4>2
        <5> QED BY Zenon, <3>2, <3>3, <5>1 DEF Page
      <4> QED BY Zenon, <1>4, <2>2, <3>2, <4>1, <4>2, Order
    <3> QED BY Zenon, <1>4, <2>2, <3>4, Order DEF Unskipped
  <2> QED BY Zenon, <1>2, <2>1, <2>2 DEF Pages, Beyond, On, log
<1>11. Passed' BY Zenon, <1>2 DEF Served, Passed, Beyond, log
<1>12. Kept' BY <1>2, <1>4, PageOfTable DEF Served, Kept, log
<1>13. NoHoles' BY Zenon, <1>2 DEF Served, NoHoles, Whole
<1> QED BY Zenon, <1>7, <1>8, <1>9, <1>10, <1>11, <1>12, <1>13 DEF Served

(* Before the first row of a page there is none of its attempt or a later   *)
(* one that the client has yet to get.                                      *)
LEMMA FirstOfPage ==
    ASSUME TypeOK, Written, Served, NEW r \in conn.page, IsFirst(r)
    PROVE  /\ On /\ r \in RowType /\ r.at \in Position /\ r.fence \in Nat /\ r.idx \in Nat
           /\ r \in Known
           /\ ~Before(r.at, client.pos) /\ ~Before(conn.pos, r.at)
           /\ \A s \in table : s \in RowType /\ s.at \in Position /\ s.fence \in Nat /\ s.idx \in Nat
           /\ \A s \in table : ~Before(r.at, s.at) /\ s.fence >= conn.fence /\ s # r =>
                 ~Before(client.pos, s.at) /\ s.fence <= client.fence /\ ~Beyond(s)
<1>1. On BY DEF Served, Tied, On, NoConn
<1>2. /\ r \in RowType /\ r.at \in Position /\ r.fence \in Nat /\ r.idx \in Nat
      /\ client.pos \in Position /\ conn.pos \in Position
      /\ \A s \in table : s \in RowType /\ s.at \in Position /\ s.fence \in Nat /\ s.idx \in Nat
  BY Zenon, Fields DEF TypeOK
<1>3. Beyond(r) /\ ~Before(conn.pos, r.at) BY Zenon DEF Served, Pages
<1>4. ~Before(r.at, client.pos) BY Zenon, <1>2, <1>3, Order DEF Beyond
<1>5. ASSUME NEW s \in table, ~Before(r.at, s.at), s.fence >= conn.fence, s # r
      PROVE  ~Beyond(s)
  <2>1. s \notin conn.page BY Zenon, <1>5 DEF IsFirst
  <2>2. ~Before(conn.pos, s.at) BY Zenon, <1>2, <1>3, <1>5, Order
  <2> QED BY Zenon, <1>1, <1>5, <2>1, <2>2 DEF Served, Pages
<1>6. \A s \in table : ~Beyond(s) => ~Before(client.pos, s.at) /\ s.fence <= client.fence
  BY Zenon DEF Served, Passed, Beyond
<1> QED BY Zenon, <1>1, <1>2, <1>3, <1>4, <1>5, <1>6 DEF Known

LEMMA SupersedeServes ==
    ASSUME TypeOK, TypeOK', Written, Served, NEW r \in conn.page, Supersede(r)
    PROVE  Served'
<1>1. /\ IsFirst(r) /\ r.fence > conn.fence /\ conn.fence > 0
      /\ UNCHANGED <<onRetry, log>>
      /\ client'.text = <<>> /\ client'.fence = r.fence /\ client'.pos = r.at
      /\ ~client'.done /\ client'.owed /\ ~client'.missed
      /\ conn'.pc = conn.pc /\ conn'.fence = r.fence /\ conn'.pos = conn.pos
      /\ conn'.page = conn.page
  BY Zenon DEF Supersede, Told, TypeOK, Connections
<1>2. /\ On /\ r.at \in Position /\ r.fence \in Nat /\ conn.fence \in Nat /\ client.fence \in Nat
      /\ client.pos \in Position /\ conn.pos \in Position
      /\ ~Before(r.at, client.pos) /\ ~Before(conn.pos, r.at)
      /\ \A s \in table : s.at \in Position /\ s.fence \in Nat
  BY Zenon, <1>1, FirstOfPage, Fields
<1>3. client.fence <= conn.fence BY <1>2 DEF Served, Tied
<1>4. \A s \in conn.page : s.at \in Position /\ (s.at = r.at \/ Before(r.at, s.at))
  BY Zenon, <1>1, Fields DEF IsFirst
<1>5. ASSUME NEW s \in table, ~Before(r.at, s.at)
      PROVE  s.fence <= r.fence /\ (s.fence = r.fence => s = r)
  <2>1. s # r /\ s.fence >= conn.fence => s.fence <= client.fence BY Zenon, <1>1, <1>5, FirstOfPage
  <2>2. s # r => s.fence < r.fence BY <1>1, <1>2, <1>3, <2>1
  <2> QED BY <1>2, <2>2
<1>6. Tied' BY <1>1, <1>2 DEF Served, Tied, On
<1>7. Below'
  <2>1. r.at[1] < nextXid /\ \A x \in open : r.at[1] < x
    <3>1. r.at[1] <= conn.pos[1] /\ r.at[1] \in Nat /\ conn.pos[1] \in Nat
      BY <1>2 DEF Before, Position
    <3>2. conn.pos[1] < nextXid /\ \A x \in open : conn.pos[1] < x BY Zenon DEF Served, Below
    <3> QED BY <3>1, <3>2, Fields
  <2> QED BY Zenon, <1>1, <2>1 DEF Served, Below, log
<1>8. Texts' BY <1>1 DEF Texts
<1>9. Pages'
  <2>1. ASSUME NEW s \in conn.page PROVE Beyond(s)' /\ ~Before(conn.pos, s.at)
    BY Zenon, <1>1, <1>4 DEF Beyond, Served, Pages
  <2>2. ASSUME NEW s \in table, Beyond(s)', ~Before(conn.pos, s.at), s.fence >= r.fence
        PROVE  s \in conn.page
    <3>1. s.at = r.at \/ Before(r.at, s.at) BY Zenon, <1>1, <2>2 DEF Beyond
    <3>2. CASE Before(r.at, s.at)
      <4>1. Before(client.pos, s.at) BY Zenon, <1>2, <3>2, Order
      <4>2. s.fence >= conn.fence BY <1>1, <1>2, <2>2
      <4> QED BY Zenon, <1>2, <2>2, <4>1, <4>2 DEF Served, Pages, Beyond
    <3>3. CASE s.at = r.at
      <4>1. ~Before(r.at, s.at) BY Zenon, <1>2, <3>3, Order
      <4>2. s.fence = r.fence BY <1>2, <1>5, <2>2, <4>1
      <4> QED BY Zenon, <1>5, <4>1, <4>2
    <3> QED BY Zenon, <3>1, <3>2, <3>3
  <2> QED BY Zenon, <1>1, <2>1, <2>2 DEF Pages, On, Beyond, log
<1>10. Passed'
  <2>1. \A s \in table : ~Before(r.at, s.at) => s.fence <= r.fence BY Zenon, <1>5
  <2>2. ASSUME NEW s \in table, s.fence = r.fence, ~Beyond(s)' PROVE FALSE
    <3>1. ~Before(r.at, s.at) /\ s.at # r.at BY Zenon, <1>1, <2>2 DEF Beyond
    <3> QED BY Zenon, <1>5, <2>2, <3>1
  <2> QED BY Zenon, <1>1, <2>1, <2>2 DEF Passed, Beyond, log
<1>11. Kept' BY Zenon, <1>1 DEF Served, Kept, log
<1>12. NoHoles' BY <1>1 DEF NoHoles, Whole
<1> QED BY Zenon, <1>6, <1>7, <1>8, <1>9, <1>10, <1>11, <1>12 DEF Served
(* A row that is handed over is the next one of the text.                   *)
LEMMA NextChunk ==
    ASSUME TypeOK, Written, Served, NEW r \in conn.page, IsFirst(r),
           r.fence = conn.fence \/ conn.fence = 0,
           onRetry = "supersede", ~client.missed, r.kind \in {"chunk", "end"}
    PROVE  r.idx = Len(client.text)
<1>1. /\ On /\ ~client.done /\ r \in Known /\ r.at \in Position /\ r.fence \in Nat /\ r.idx \in Nat
      /\ conn.fence \in Nat /\ client.fence \in Nat /\ client.pos \in Position
      /\ client.text \in Seq(RowType) /\ Len(client.text) \in Nat
      /\ \A s \in table : s.at \in Position /\ s.fence \in Nat /\ s.idx \in Nat
      /\ client.fence \in {0, conn.fence}
  BY FirstOfPage, Fields DEF Served, Tied
<1>2. r.idx <= Len(client.text)
  <2>1. CASE r.idx = 0 BY <1>1, <2>1
  <2>2. CASE r.idx # 0
    <3>1. r \in table /\ r.idx - 1 \in 0 .. r.idx - 1 BY <1>1, <2>2 DEF Served, Kept
    <3>2. PICK s \in table : IsChunk(s, r.fence, r.idx - 1) /\ Before(s.at, r.at)
      BY Zenon, <3>1 DEF Written, Contiguous, Preceded
    <3>3. ~Before(r.at, s.at) /\ s # r BY Zenon, <1>1, <3>2, Order
    <3>4. s.fence >= conn.fence /\ s.fence = r.fence BY <1>1, <3>2 DEF IsChunk
    <3>5. s.fence <= client.fence /\ ~Beyond(s) BY Zenon, <3>3, <3>4, FirstOfPage
    <3>6. s.fence = client.fence BY <1>1, <3>4, <3>5
    <3>7. s.idx < Len(client.text) BY Zenon, <1>1, <3>5, <3>6 DEF Served, Passed
    <3> QED BY <1>1, <3>2, <3>7 DEF IsChunk
  <2> QED BY Zenon, <2>1, <2>2
<1>3. Len(client.text) <= r.idx
  <2>1. CASE Len(client.text) = 0 BY <1>1, <2>1
  <2>2. CASE Len(client.text) # 0
    <3> DEFINE n == Len(client.text)
               t == client.text[n]
    <3>1. /\ n \in 1 .. Len(client.text) /\ n \in DOMAIN client.text
          /\ t \in RowType /\ client.text # <<>>
      BY <1>1, <2>2
    <3>2. /\ t.fence = client.fence /\ ~Before(client.pos, t.at) /\ t.kind = "chunk"
          /\ t \in Known /\ t.at \in Position /\ t.idx \in Nat
      BY Zenon, <1>1, <3>1, Fields DEF Served, Texts, Known, Shown
    <3>3. ~client.owed /\ client.fence # 0 BY Zenon, <1>1, <3>1 DEF Served, Tied
    <3>4. Before(client.pos, r.at) BY Zenon, <3>3 DEF Served, Pages, Beyond
    <3>5. Before(t.at, r.at) BY Zenon, <1>1, <3>2, <3>4, Order
    <3>6. t.fence = r.fence BY Zenon, <1>1, <3>2, <3>3
    <3>7. t.idx < r.idx
      <4> HIDE DEF t
      <4> QED BY Zenon, <1>1, <3>2, <3>5, <3>6 DEF Written, InOrder, Ascends
    <3>8. t.idx = n - 1 BY Zenon, <3>1, <3>2 DEF Served, NoHoles, Whole
    <3> QED BY <1>1, <3>2, <3>7, <3>8
  <2> QED BY Zenon, <2>1, <2>2
<1> QED BY <1>1, <1>2, <1>3

LEMMA HandRowServes ==
    ASSUME TypeOK, TypeOK', Written, Served, NEW r \in conn.page, HandRow(r)
    PROVE  Served'
<1>1. /\ IsFirst(r) /\ (r.fence = conn.fence \/ conn.fence = 0)
      /\ UNCHANGED <<onRetry, log>>
      /\ client'.text = Append(client.text, r) /\ client'.fence = r.fence /\ client'.pos = r.at
      /\ (client'.done <=> r.kind \in Terminal) /\ ~client'.owed
      /\ (client'.missed <=> client.missed)
  BY Zenon DEF HandRow, Gets
<1>2. r.kind \in Terminal => conn' = NoConn
  BY DEF HandRow
<1>3. r.kind \notin Terminal =>
         /\ conn'.pc = conn.pc /\ conn'.fence = r.fence /\ conn'.pos = conn.pos
         /\ conn'.page = Unskipped(conn.page \ {r}, r.fence)
  BY Zenon DEF HandRow, TypeOK, Connections
<1>4. /\ On /\ ~client.done /\ r.at \in Position /\ r.fence \in Nat /\ r.idx \in Nat
      /\ r \in Known /\ r \in RowType
      /\ conn.fence \in Nat /\ client.fence \in Nat /\ client.pos \in Position
      /\ conn.pos \in Position /\ client.text \in Seq(RowType) /\ Len(client.text) \in Nat
      /\ ~Before(r.at, client.pos) /\ ~Before(conn.pos, r.at)
      /\ \A s \in table : s.at \in Position /\ s.fence \in Nat /\ s.idx \in Nat
      /\ client.fence \in {0, conn.fence} /\ conn.pc # "reading"
      /\ r.kind \in Terminal \cup {"chunk"}
  BY <1>1, FirstOfPage, Fields DEF Served, Tied, RowType
<1>5. ASSUME NEW s \in table, ~Before(r.at, s.at), s # r
      PROVE  s.fence <= r.fence /\ (s.fence = r.fence => s.fence = client.fence /\ ~Beyond(s))
  <2>1. s.fence >= conn.fence => s.fence <= client.fence /\ ~Beyond(s)
    BY Zenon, <1>1, <1>5, FirstOfPage
  <2> QED BY <1>1, <1>4, <2>1
<1>6. r.kind \notin Terminal => r.fence # 0
  BY <1>4 DEF Written, Numbering, Fences, Terminal
<1>7. Len(client.text) # 0 => client.fence = r.fence /\ ~client.owed
  <2>1. Len(client.text) # 0 => client.text # <<>> OBVIOUS
  <2> QED BY Zenon, <1>1, <1>4, <2>1 DEF Served, Tied
<1>8. /\ DOMAIN client'.text = 1 .. Len(client.text) + 1 /\ Len(client'.text) = Len(client.text) + 1
      /\ \A i \in 1 .. Len(client.text) : client'.text[i] = client.text[i]
      /\ client'.text[Len(client.text) + 1] = r
  BY <1>1, <1>4
<1>9. Tied'
  <2>1. CASE r.kind \in Terminal BY <1>1, <1>2, <2>1 DEF Tied, On, NoConn
  <2>2. CASE r.kind \notin Terminal BY Zenon, <1>1, <1>3, <1>4, <1>6, <2>2 DEF Tied, On
  <2> QED BY Zenon, <2>1, <2>2
<1>10. Below'
  <2>1. r.at[1] < nextXid /\ \A x \in open : r.at[1] < x
    <3>1. r.at[1] <= conn.pos[1] /\ r.at[1] \in Nat /\ conn.pos[1] \in Nat
      BY <1>4 DEF Before, Position
    <3>2. conn.pos[1] < nextXid /\ \A x \in open : conn.pos[1] < x BY DEF Served, Below
    <3> QED BY <3>1, <3>2, Fields
  <2>2. Start[1] < nextXid /\ \A x \in open : Start[1] < x BY Fields DEF Start, Written, Given
  <2>3. conn'.pos \in {Start, conn.pos} BY <1>2, <1>3 DEF NoConn
  <2> QED BY Zenon, <1>1, <2>1, <2>2, <2>3 DEF Served, Below, log
<1>11. Texts'
  <2>1. ASSUME NEW i \in 1 .. Len(client.text)
        PROVE  /\ client.text[i].fence = r.fence /\ Before(client.text[i].at, r.at)
               /\ ~Before(r.at, client.text[i].at) /\ client.text[i].kind = "chunk"
    <3>1. /\ client.text[i].fence = client.fence /\ ~Before(client.pos, client.text[i].at)
          /\ client.text[i].kind = "chunk"
      BY Zenon, <1>4 DEF Served, Texts
    <3>2. client.text[i].at \in Position BY <1>4, Fields
    <3>3. Before(client.pos, r.at) BY <1>4, <1>7 DEF Served, Pages, Beyond
    <3>4. Before(client.text[i].at, r.at) BY Zenon, <1>4, <3>1, <3>2, <3>3, Order
    <3> QED BY <1>4, <1>7, <3>1, <3>2, <3>4, Order
  <2>2. ASSUME NEW i \in 1 .. Len(client.text) + 1
        PROVE  /\ client'.text[i].fence = r.fence /\ ~Before(r.at, client'.text[i].at)
               /\ client'.text[i].kind # "chunk" => r.kind \in Terminal /\ i = Len(client.text) + 1
               /\ \A j \in 1 .. i - 1 : Before(client'.text[j].at, client'.text[i].at)
    <3>1. CASE i \in 1 .. Len(client.text)
      <4>1. \A j \in 1 .. i - 1 : j \in 1 .. Len(client.text)
                                  /\ Before(client.text[j].at, client.text[i].at)
        BY <1>4, <3>1 DEF Served, Texts
      <4> QED BY Zenon, <1>8, <2>1, <3>1, <4>1
    <3>2. CASE i = Len(client.text) + 1
      <4>1. \A j \in 1 .. i - 1 : j \in 1 .. Len(client.text) BY <1>4, <3>2
      <4>2. ~Before(r.at, r.at) BY Zenon, <1>4, Order
      <4> QED BY Zenon, <1>4, <1>8, <2>1, <3>2, <4>1, <4>2
    <3>3. i \in 1 .. Len(client.text) \/ i = Len(client.text) + 1 BY <1>4
    <3> QED BY Zenon, <3>1, <3>2, <3>3
  <2> QED BY Zenon, <1>1, <1>8, <2>2 DEF Texts
<1>12. Pages'
  <2>1. CASE r.kind \in Terminal BY <1>2, <2>1 DEF Pages, On, NoConn
  <2>2. CASE r.kind \notin Terminal
    <3>1. ASSUME NEW s \in conn'.page PROVE Before(r.at, s.at) /\ ~Before(conn.pos, s.at)
      <4>1. s \in conn.page /\ s # r BY <1>3, <2>2, <3>1, PageOfTable
      <4> QED BY Zenon, <1>1, <4>1 DEF IsFirst, Served, Pages
    <3>2. ASSUME NEW s \in table, Before(r.at, s.at), ~Before(conn.pos, s.at), s.fence >= r.fence
          PROVE  s \in conn'.page
      <4>1. Before(client.pos, s.at) BY Zenon, <1>4, <3>2, Order
      <4>2. s.fence >= conn.fence BY <1>1, <1>4, <3>2
      <4>3. s \in conn.page BY Zenon, <1>4, <3>2, <4>1, <4>2 DEF Served, Pages, Beyond
      <4>4. s # r /\ ~Before(s.at, s.at) BY Zenon, <1>4, <3>2, Order
      <4> QED BY Zenon, <1>3, <2>2, <3>2, <4>3, <4>4 DEF Unskipped
    <3> QED BY Zenon, <1>1, <1>3, <2>2, <3>1, <3>2 DEF Pages, On, Beyond, log
  <2> QED BY <2>1, <2>2
<1>13. ASSUME onRetry = "supersede", ~client.missed, r.kind \in {"chunk", "end"}
       PROVE  r.idx = Len(client.text)
  BY Zenon, <1>1, <1>13, NextChunk
<1>14. Passed'
  <2>1. \A s \in table : ~Before(r.at, s.at) => s.fence <= r.fence BY <1>4, <1>5
  <2>2. ASSUME NEW s \in table, s.fence = r.fence, ~Before(r.at, s.at), ~client.missed,
               r.kind \notin Terminal
        PROVE  s.kind = "chunk" /\ (onRetry = "supersede" => s.idx < Len(client.text) + 1)
    <3>1. CASE s = r BY <1>4, <1>13, <2>2, <3>1
    <3>2. CASE s # r
      <4>1. s.fence = client.fence /\ ~Beyond(s) BY Zenon, <1>5, <2>2, <3>2
      <4>2. s.kind = "chunk" /\ (onRetry = "supersede" => s.idx < Len(client.text))
        BY Zenon, <1>4, <2>2, <4>1 DEF Served, Passed
      <4> QED BY <1>4, <4>2
    <3> QED BY Zenon, <3>1, <3>2
  <2> QED BY Zenon, <1>1, <1>8, <2>1, <2>2 DEF Passed, Beyond, log
<1>15. Kept'
  <2>1. conn'.page \subseteq conn.page /\ conn'.fence \in {0, r.fence}
    BY <1>2, <1>3, PageOfTable DEF NoConn
  <2> QED BY Zenon, <1>1, <2>1 DEF Served, Kept, log
<1>16. NoHoles'
  <2> SUFFICES ASSUME onRetry = "supersede", ~client.missed, NEW i \in 1 .. Len(client.text) + 1,
                      client'.text[i].kind \in {"chunk", "end"}
               PROVE  client'.text[i].idx = i - 1
      BY Zenon, <1>1, <1>8 DEF NoHoles, Whole
  <2>1. CASE i \in 1 .. Len(client.text)
    <3>1. i \in DOMAIN client.text BY <1>4, <2>1
    <3> QED BY Zenon, <1>8, <2>1, <3>1 DEF Served, NoHoles, Whole
  <2>2. CASE i = Len(client.text) + 1 BY <1>4, <1>8, <1>13, <2>2
  <2>3. Len(client.text) \in Nat BY Zenon, <1>4
  <2>4. i \in 1 .. Len(client.text) \/ i = Len(client.text) + 1 BY <2>3
  <2> QED BY Zenon, <2>1, <2>2, <2>4
<1> QED BY <1>9, <1>10, <1>11, <1>12, <1>14, <1>15, <1>16 DEF Served

LEMMA IdleTimeoutServes ==
    ASSUME TypeOK, TypeOK', Written, Served, IdleTimeout
    PROVE  Served'
<1>1. /\ UNCHANGED <<onRetry, log>> /\ conn' = NoConn /\ conn.pc = "yielding" /\ conn.page = {}
      /\ client'.text = client.text /\ client'.fence = conn.fence /\ client'.pos = conn.pos
      /\ (client'.done <=> client.done) /\ ~client'.owed /\ (client'.missed <=> client.missed)
  BY Zenon DEF IdleTimeout, PageEnded, TypeOK, Clients
<1>2. /\ On /\ ~client.done /\ client.fence \in {0, conn.fence} /\ ~Before(conn.pos, client.pos)
      /\ conn.fence \in Nat /\ client.fence \in Nat
      /\ client.pos \in Position /\ conn.pos \in Position /\ client.text \in Seq(RowType)
      /\ \A s \in table : s.at \in Position /\ s.fence \in Nat
  BY Zenon, <1>1, Fields DEF Served, Tied, On, TypeOK
<1>3. ASSUME NEW s \in table, ~Before(conn.pos, s.at), s.fence >= conn.fence
      PROVE  ~Beyond(s) /\ s.fence = client.fence /\ s.fence = conn.fence
  <2>1. ~Beyond(s) BY Zenon, <1>1, <1>2, <1>3 DEF Served, Pages
  <2>2. s.fence <= client.fence BY Zenon, <2>1 DEF Served, Passed, Beyond
  <2> QED BY <1>2, <1>3, <2>1, <2>2
<1>4. Tied' BY Zenon, <1>1, <1>2 DEF Served, Tied, On, NoConn
<1>5. Below'
  <2>1. Start[1] < nextXid /\ \A x \in open : Start[1] < x BY Fields DEF Start, Written, Given
  <2> QED BY Zenon, <1>1, <2>1 DEF Served, Below, log, NoConn
<1>6. Texts'
  <2>1. ASSUME NEW i \in 1 .. Len(client.text)
        PROVE  client.text[i].fence = conn.fence /\ ~Before(conn.pos, client.text[i].at)
    <3>1. client.text[i].at \in Position /\ client.text # <<>> BY <1>2, Fields
    <3>2. client.fence = conn.fence BY Zenon, <1>2, <3>1 DEF Served, Tied
    <3>3. client.text[i].fence = client.fence /\ ~Before(client.pos, client.text[i].at)
      BY Zenon DEF Served, Texts
    <3> QED BY <1>2, <3>1, <3>2, <3>3, Order
  <2> QED BY <1>1, <2>1 DEF Served, Texts
<1>7. Pages' BY Zenon, <1>1 DEF Pages, On, NoConn
<1>8. Passed'
  <2>1. \A s \in table : ~Before(conn.pos, s.at) => s.fence <= conn.fence BY <1>2, <1>3
  <2>2. \A s \in table : ~Before(conn.pos, s.at) /\ s.fence = conn.fence =>
            s.fence = client.fence /\ ~Beyond(s)
    BY <1>2, <1>3
  <2> QED BY Zenon, <1>1, <2>1, <2>2 DEF Served, Passed, Beyond, log
<1>9. Kept' BY Zenon, <1>1 DEF Served, Kept, log, NoConn
<1>10. NoHoles' BY Zenon, <1>1 DEF Served, NoHoles, Whole
<1> QED BY Zenon, <1>4, <1>5, <1>6, <1>7, <1>8, <1>9, <1>10 DEF Served

LEMMA DropServes ==
    ASSUME TypeOK, TypeOK', Written, Served, Drop
    PROVE  Served'
<1>1. /\ UNCHANGED <<onRetry, log>> /\ conn' = NoConn
      /\ client'.text = client.text /\ client'.fence = client.fence /\ client'.pos = client.pos
      /\ (client'.done <=> client.done) /\ ~client'.owed
      /\ (client'.missed <=> client.missed \/ client.owed)
  BY Zenon DEF Drop, TypeOK, Clients
<1>2. Tied' BY Zenon, <1>1 DEF Served, Tied, On, NoConn
<1>3. Below'
  <2>1. Start[1] < nextXid /\ \A x \in open : Start[1] < x BY Fields DEF Start, Written, Given
  <2> QED BY Zenon, <1>1, <2>1 DEF Served, Below, log, NoConn
<1>4. Texts' BY Zenon, <1>1 DEF Served, Texts
<1>5. Pages' BY Zenon, <1>1 DEF Pages, On, NoConn
<1>6. Passed' BY Zenon, <1>1 DEF Served, Passed, Beyond, log
<1>7. Kept' BY Zenon, <1>1 DEF Served, Kept, log, NoConn
<1>8. NoHoles' BY Zenon, <1>1 DEF Served, NoHoles, Whole
<1> QED BY <1>2, <1>3, <1>4, <1>5, <1>6, <1>7, <1>8 DEF Served

LEMMA WritersGrow ==
    ASSUME TypeOK, Written, [Next]_vars, ~Reading
    PROVE  Grown
<1>1. CASE Keeps /\ UNCHANGED <<client, conn>> BY <1>1, Fields DEF Keeps, Grown
<1>2. ASSUME NEW rows, Adds(rows), \A r \in rows : r.at[1] = nextXid PROVE Grown
  BY <1>2, Fields DEF Adds, Grown
<1>3. ASSUME NEW f \in Fences, NEW rows, AddsOf(f, rows) PROVE Grown
  BY Zenon, <1>2, <1>3 DEF AddsOf
<1>4. ASSUME NEW r, Adds({r}), r.at[1] = nextXid PROVE Grown BY Zenon, <1>2, <1>4
<1> QED BY Zenon, <1>1, <1>3, <1>4, Sides DEF Written

LEMMA ServedHolds == Spec => []Served
<1>1. Init => Served
  <2> SUFFICES ASSUME Init PROVE Served
      BY Zenon
  <2>1. /\ table = {} /\ open = {} /\ nextXid = 1 /\ conn = NoConn
        /\ client.text = <<>> /\ client.fence = 0 /\ client.pos = Start
        /\ ~client.done /\ ~client.owed
    BY Zenon DEF Init
  <2>2. Tied BY Zenon, <2>1 DEF Tied, On, NoConn
  <2>3. Below BY <2>1 DEF Below, NoConn, Start
  <2>4. Texts /\ NoHoles BY <2>1 DEF Texts, NoHoles, Whole
  <2>5. Pages /\ Passed /\ Kept BY Zenon, <2>1 DEF Pages, Passed, Kept, On, NoConn
  <2> QED BY Zenon, <2>2, <2>3, <2>4, <2>5 DEF Served
<1>2. TypeOK /\ TypeOK' /\ Written /\ Served /\ [Next]_vars => Served'
  <2> SUFFICES ASSUME TypeOK, TypeOK', Written, Served, [Next]_vars PROVE Served'
      BY Zenon
  <2>1. CASE Reading
    BY Zenon, <2>1, AttachServes, ReadPageServes, SupersedeServes, HandRowServes, IdleTimeoutServes,
       DropServes DEF Reading
  <2>2. CASE ~Reading BY Zenon, <2>2, WritersGrow, GrownServes
  <2> QED BY Zenon, <2>1, <2>2
<1> QED BY <1>1, <1>2, StreamTypeCorrect, WrittenHolds, PTL DEF Spec

-----------------------------------------------------------------------------
(* What a client of Streams.follow shows is of one attempt, each            *)
(* chunk at most once and in order, for any number of attempts, chunks,     *)
(* drops and resumptions, any page size, and either discipline.             *)
THEOREM NeverMixedHolds == Spec => []NeverMixed
<1>1. TypeOK /\ Written /\ Served => NeverMixed
  <2> SUFFICES ASSUME TypeOK, Written, Served, NEW i \in DOMAIN client.text
               PROVE  /\ client.text[i].fence = client.fence
                      /\ \A j \in 1 .. i - 1 : client.text[i].kind \in {"chunk", "end"} =>
                             client.text[j].idx < client.text[i].idx
      BY Zenon DEF NeverMixed
  <2>1. i \in 1 .. Len(client.text) /\ Len(client.text) \in Nat BY Fields
  <2>2. ASSUME NEW j \in 1 .. i - 1, client.text[i].kind \in {"chunk", "end"}
        PROVE  client.text[j].idx < client.text[i].idx
    <3>1. j \in 1 .. Len(client.text) /\ j # Len(client.text) BY <2>1
    <3>2. client.text[i] \in Known /\ client.text[j] \in Known BY Zenon, <2>1, <3>1 DEF Known, Shown
    <3>3. /\ client.text[i].fence = client.fence /\ client.text[j].fence = client.fence
          /\ client.text[j].kind = "chunk" /\ Before(client.text[j].at, client.text[i].at)
      BY Zenon, <2>1, <3>1 DEF Served, Texts
    <3> QED BY Zenon, <2>2, <3>2, <3>3 DEF Written, InOrder, Ascends
  <2> QED BY Zenon, <2>1, <2>2 DEF Served, Texts
<1> QED BY <1>1, StreamTypeCorrect, WrittenHolds, ServedHolds, PTL

(* Where retries supersede, the client of Streams.follow shows its          *)
(* attempt from the first chunk on and leaves none out, whatever was        *)
(* flushed, dropped, resumed or cancelled, unless a connection was lost on  *)
(* a `superseded` event.                                                    *)
THEOREM NoHolesHolds == Spec => []NoHoles
<1>1. Served => NoHoles BY DEF Served
<1> QED BY <1>1, ServedHolds, PTL

(* A reader of Streams.follow that has been through every row does not idle *)
(* beside a terminal row of its attempt or a newer one.                     *)
THEOREM NobodyIdles == Spec => []NobodyIdlesAtTheEnd
<1>1. TypeOK /\ Served => NobodyIdlesAtTheEnd
  <2> SUFFICES ASSUME TypeOK, Served, Ended, PageEnded, After(conn.pos) = {}, ~client.missed
               PROVE  FALSE
      BY Zenon DEF NobodyIdlesAtTheEnd
  <2>1. PICK q \in Settled : q.kind \in Terminal /\ conn.fence <= q.fence BY Zenon DEF Ended
  <2>2. /\ q \in table /\ q.at \in Position /\ q.fence \in Nat
        /\ conn.fence \in Nat /\ client.fence \in Nat
    BY Zenon, PageOfTable, Fields DEF TypeOK
  <2>3. On /\ conn.page = {} /\ ~client.done /\ client.fence \in {0, conn.fence}
    BY Zenon DEF PageEnded, On, Served, Tied
  <2>4. ~Before(conn.pos, q.at) BY Zenon DEF After
  <2>5. q.fence >= conn.fence BY <2>1, <2>2
  <2>6. ~Beyond(q) BY Zenon, <2>2, <2>3, <2>4, <2>5 DEF Served, Pages
  <2>7. q.fence <= client.fence BY Zenon, <2>2, <2>6 DEF Served, Passed, Beyond
  <2>8. q.fence = client.fence BY <2>2, <2>3, <2>5, <2>7
  <2>9. q.kind = "chunk" BY Zenon, <2>2, <2>3, <2>6, <2>8 DEF Served, Passed
  <2> QED BY Zenon, <2>1, <2>9 DEF Terminal
<1> QED BY <1>1, StreamTypeCorrect, ServedHolds, PTL

-----------------------------------------------------------------------------
(* Following is playback.                                                   *)

LEMMA AheadIsBefore ==
    ASSUME NEW p \in Position, NEW q \in Position
    PROVE  Player!Ahead(p, q) <=> Before(q, p)
BY DEF Player!Ahead, Before, Position

(* The steps of the client's end, by what they make of it.                  *)
Same == client'.fence = client.fence /\ client'.text = client.text
        /\ client'.pos = client.pos /\ (client'.done <=> client.done)

LEMMA SameIsPlayback ==
    ASSUME TypeOK, TypeOK', Same
    PROVE  UNCHANGED Player!playVars
<1>1. client.done \in BOOLEAN /\ client'.done \in BOOLEAN BY Zenon, Fields DEF TypeOK, Clients
<1>2. client'.done = client.done BY <1>1 DEF Same
<1> QED BY Zenon, <1>2 DEF Same, Player!playVars

LEMMA RestartIsPlayback ==
    ASSUME TypeOK, TypeOK', ~client.done, ~client'.done, client'.text = <<>>,
           client'.fence > client.fence, ~Before(client'.pos, client.pos)
    PROVE  Player!Next
<1>1. client.pos \in Position /\ client'.pos \in Position BY Fields DEF TypeOK, Clients
<1>2. ~Player!Ahead(client.pos, client'.pos) BY Zenon, <1>1, AheadIsBefore
<1>3. Len(<<>>) = 0 OBVIOUS
<1> QED BY Zenon, <1>2, <1>3 DEF Player!Next, Player!StartOver

LEMMA PassingIsPlayback ==
    ASSUME TypeOK, TypeOK', ~client.done, ~client'.done, client'.text = client.text,
           client'.fence = client.fence, ~Before(client'.pos, client.pos)
    PROVE  Player!Next
<1>1. client.pos \in Position /\ client'.pos \in Position BY Fields DEF TypeOK, Clients
<1>2. ~Player!Ahead(client.pos, client'.pos) BY Zenon, <1>1, AheadIsBefore
<1>3. client.done \in BOOLEAN /\ client'.done \in BOOLEAN BY Zenon, Fields DEF TypeOK, Clients
<1>4. client'.done = client.done BY <1>3
<1> QED BY Zenon, <1>2, <1>4 DEF Player!Next, Player!PassOver

(* Only the empty sequence has length zero.                                 *)
LEMMA Lengths == ASSUME NEW S, NEW t \in Seq(S) PROVE Len(t) = 0 <=> t = <<>>
OBVIOUS

LEMMA HandRowIsPlayback ==
    ASSUME TypeOK, TypeOK', Written, Served, NEW r \in conn.page, HandRow(r)
    PROVE  Player!Next
<1>1. /\ IsFirst(r) /\ (r.fence = conn.fence \/ conn.fence = 0)
      /\ client'.text = Append(client.text, r) /\ client'.fence = r.fence /\ client'.pos = r.at
  BY Zenon DEF HandRow, Gets
<1>2. /\ On /\ r \in RowType /\ r.at \in Position /\ r.fence \in Nat
      /\ ~Before(r.at, client.pos)
  BY Zenon, <1>1, FirstOfPage
<1>3. client.pos \in Position /\ client.fence \in Nat /\ client.text \in Seq(RowType)
  BY Zenon, Fields
<1>4. ~client.done /\ client.fence \in {0, conn.fence} BY Zenon, <1>2 DEF Served, Tied
<1>5. Len(client'.text) = Len(client.text) + 1 BY <1>1, <1>2, <1>3
<1>6. CASE client.text = <<>>
  <2>1. client.fence <= r.fence BY <1>1, <1>2, <1>3, <1>4
  <2>2. ~Player!Ahead(client.pos, client'.pos) BY Zenon, <1>1, <1>2, <1>3, AheadIsBefore
  <2>3. Len(client.text) = 0 BY Zenon, <1>3, <1>6, Lengths
  <2> QED BY Zenon, <1>1, <1>4, <1>5, <2>1, <2>2, <2>3 DEF Player!Next, Player!Show
<1>7. CASE client.text # <<>>
  <2>1. client.fence # 0 /\ ~client.owed BY Zenon, <1>4, <1>7 DEF Served, Tied
  <2>2. client.fence = r.fence BY Zenon, <1>1, <1>4, <2>1
  <2>3. Before(client.pos, r.at) BY Zenon, <2>1 DEF Served, Pages, Beyond
  <2>4. Player!Ahead(client'.pos, client.pos) BY Zenon, <1>1, <1>2, <1>3, <2>3, AheadIsBefore
  <2>5. Len(client.text) # 0 BY Zenon, <1>3, <1>7, Lengths
  <2> QED BY Zenon, <1>1, <1>4, <1>5, <2>2, <2>4, <2>5 DEF Player!Next, Player!Show
<1> QED BY Zenon, <1>6, <1>7

LEMMA SupersedeIsPlayback ==
    ASSUME TypeOK, TypeOK', Written, Served, NEW r \in conn.page, Supersede(r)
    PROVE  Player!Next
<1>1. /\ IsFirst(r) /\ r.fence > conn.fence /\ conn.fence > 0
      /\ client'.text = <<>> /\ client'.fence = r.fence /\ client'.pos = r.at /\ ~client'.done
  BY Zenon DEF Supersede, Told
<1>2. On /\ r.fence \in Nat /\ ~Before(r.at, client.pos) BY Zenon, <1>1, FirstOfPage
<1>3. ~client.done /\ client.fence \in {0, conn.fence} BY Zenon, <1>2 DEF Served, Tied
<1>4. conn.fence \in Nat BY Zenon, Fields
<1>5. r.fence > client.fence BY <1>1, <1>2, <1>3, <1>4
<1> QED BY Zenon, <1>1, <1>2, <1>3, <1>5, RestartIsPlayback

LEMMA AttachIsPlayback ==
    ASSUME TypeOK, TypeOK', Attach
    PROVE  Player!Next \/ Same
<1>1. ~client.done BY Zenon DEF Attach
<1>2. PICK f : IF f > client.fence /\ client.fence > 0 THEN Told(f, client.pos, FALSE)
               ELSE UNCHANGED client
  BY Zenon DEF Attach
<1>3. CASE f > client.fence /\ client.fence > 0
  <2>1. /\ client'.text = <<>> /\ client'.fence = f /\ client'.pos = client.pos /\ ~client'.done
    <3>1. Told(f, client.pos, FALSE) BY Zenon, <1>2, <1>3
    <3> QED BY Zenon, <3>1 DEF Told
  <2>2. ~Before(client.pos, client.pos) BY Zenon, Fields, Order
  <2> QED BY Zenon, <1>1, <1>3, <2>1, <2>2, RestartIsPlayback
<1>4. CASE ~(f > client.fence /\ client.fence > 0) BY Zenon, <1>2, <1>4 DEF Same
<1> QED BY Zenon, <1>3, <1>4

LEMMA IdleTimeoutIsPlayback ==
    ASSUME TypeOK, TypeOK', Served, IdleTimeout
    PROVE  Player!Next
<1>1. /\ conn.pc = "yielding"
      /\ client'.text = client.text /\ client'.fence = conn.fence /\ client'.pos = conn.pos
      /\ (client'.done <=> client.done)
  BY Zenon DEF IdleTimeout, PageEnded, TypeOK, Clients
<1>2. /\ On /\ ~client.done /\ client.fence \in {0, conn.fence} /\ ~Before(conn.pos, client.pos)
  BY Zenon, <1>1 DEF Served, Tied, On
<1>3. CASE client.fence = conn.fence BY Zenon, <1>1, <1>2, <1>3, PassingIsPlayback
<1>4. CASE client.fence # conn.fence
  <2>1. client.fence = 0 /\ client.text = <<>> BY Zenon, <1>2, <1>4 DEF Served, Tied
  <2>2. conn.fence > client.fence
    <3>1. conn.fence \in Nat BY Zenon, Fields
    <3> QED BY <1>4, <2>1, <3>1
  <2> QED BY Zenon, <1>1, <1>2, <2>1, <2>2, RestartIsPlayback
<1> QED BY Zenon, <1>3, <1>4

(* What a client of Streams.follow experiences is a behaviour of            *)
(* Playback, whatever the writers, the pages and the connections do: each   *)
(* item is of the attempt the client shows and ahead of the one before, no  *)
(* resumption from a Last-Event-ID goes back, only a newer attempt makes    *)
(* the client start over, and nothing follows a terminal event.             *)
THEOREM FollowIsPlayback == Spec => ImplementsPlayback
<1>1. Init => Player!Init
  <2> SUFFICES ASSUME Init PROVE Player!Init
      BY Zenon
  <2>1. /\ client.text = <<>> /\ client.fence = 0 /\ client.pos = Start /\ client.done = FALSE
    BY Zenon DEF Init
  <2> QED BY <2>1 DEF Player!Init, Start
<1>2. TypeOK /\ TypeOK' /\ Written /\ Served /\ [Next]_vars => [Player!Next]_(Player!playVars)
  <2> SUFFICES ASSUME TypeOK, TypeOK', Written, Served, [Next]_vars PROVE Player!Next \/ Same
      BY Zenon, SameIsPlayback
  <2>1. CASE Reading
    <3>1. CASE ReadPage BY Zenon, <3>1 DEF ReadPage, Same
    <3>2. CASE Drop
      BY Zenon, <3>2 DEF Drop, Same, TypeOK, Clients
    <3> QED BY Zenon, <2>1, <3>1, <3>2, AttachIsPlayback, SupersedeIsPlayback, HandRowIsPlayback,
               IdleTimeoutIsPlayback DEF Reading
  <2>2. CASE ~Reading
    <3>1. client' = client BY Zenon, <2>2, WritersGrow DEF Grown
    <3> QED BY Zenon, <3>1 DEF Same
  <2> QED BY Zenon, <2>1, <2>2
<1> QED BY <1>1, <1>2, StreamTypeCorrect, WrittenHolds, ServedHolds, PTL
        DEF Spec, ImplementsPlayback, Player!Spec
=============================================================================
