----------------------------- MODULE LogProofs ------------------------------
(***************************************************************************)
(* The log, for any number of transactions, streams, readers and rows:      *)
(* a reader that comes back with a cursor has missed nothing before it, and *)
(* what a buffer loses to errors is counted.                                *)
(***************************************************************************)
EXTENDS LogBuffer, TLAPS

(* A statement that inserts rows into an open transaction, its own or one   *)
(* that it opens, keeps the type of the table.                              *)
SameTransactions == nextXid' = nextXid /\ open' = open
OpensOne == nextXid' = nextXid + 1 /\ open' = open \cup {nextXid}

LEMMA XidsKeepTypes ==
    ASSUME TypeOK, SameTransactions \/ OpensOne, UNCHANGED committed
    PROVE  /\ nextXid' \in Nat \ {0}
           /\ open' \subseteq 1 .. nextXid' - 1
           /\ committed' \subseteq (1 .. nextXid' - 1) \ open'
           /\ open \subseteq open'
<1>1. CASE SameTransactions BY <1>1 DEF SameTransactions, TypeOK
<1>2. CASE OpensOne
  <2>1. nextXid \in Nat \ {0} /\ nextXid' = nextXid + 1 BY <1>2 DEF OpensOne, TypeOK
  <2>2. \A x \in 1 .. nextXid - 1 : x \in 1 .. nextXid' - 1 /\ x # nextXid BY <2>1
  <2>3. nextXid \in 1 .. nextXid' - 1 BY <2>1
  <2> QED BY <1>2, <2>1, <2>2, <2>3 DEF OpensOne, TypeOK
<1> QED BY <1>1, <1>2

LEMMA Wider ==
    ASSUME NEW m \in Nat, NEW n \in Nat, m <= n
    PROVE  \A q \in 1 .. m - 1 : q \in 1 .. n - 1
BY SMTT(30)

LEMMA InsertKeepsTypes ==
    ASSUME TypeOK, NEW x \in open',
           NEW T, table' = table \cup T,
           \A e \in T : e \in Record /\ e.xid = x /\ e.seq \in 1 .. nextSeq' - 1,
           SameTransactions \/ OpensOne, nextSeq' \in Nat, nextSeq <= nextSeq',
           UNCHANGED <<committed, readVars>>
    PROVE  TypeOK'
<1>0. nextSeq \in Nat \ {0} BY DEF TypeOK
<1>1. nextSeq' \in Nat \ {0} BY <1>0
<1>2. \A q \in 1 .. nextSeq - 1 : q \in 1 .. nextSeq' - 1 BY Zenon, <1>0, <1>1, Wider
<1>3. table' \subseteq Record BY DEF TypeOK
<1>4. ASSUME NEW e \in table
      PROVE  e.xid \in open' \cup committed' /\ e.seq \in 1 .. nextSeq' - 1
  BY Zenon, <1>2, <1>4, XidsKeepTypes DEF TypeOK
<1>5. \A e \in table' : e.xid \in open' \cup committed' /\ e.seq \in 1 .. nextSeq' - 1
  BY <1>4
<1>6. /\ cursor' \in [Readers -> Position] /\ got' \in [Readers -> SUBSET Record]
      /\ resumes' \in Nat
  BY DEF TypeOK, readVars
<1> QED BY <1>1, <1>3, <1>5, <1>6, XidsKeepTypes DEF TypeOK

LEMMA BeginKeepsTypes ==
    ASSUME TypeOK, Begin PROVE TypeOK'
<1> DEFINE T == {}
<1>1. OpensOne /\ UNCHANGED <<nextSeq, committed, table, readVars>> BY DEF Begin, OpensOne
<1>2. nextXid \in open' /\ table' = table \cup T /\ (\A e \in T : FALSE) BY <1>1 DEF OpensOne
<1>3. nextSeq' \in Nat /\ nextSeq <= nextSeq' BY <1>1 DEF TypeOK
<1> HIDE DEF T
<1> QED BY <1>1, <1>2, <1>3, InsertKeepsTypes

LEMMA AppendKeepsTypes ==
    ASSUME TypeOK, NEW x \in open, NEW s \in Streams, Append(x, s) PROVE TypeOK'
<1> DEFINE e == [xid |-> x, seq |-> nextSeq, stream |-> s, key |-> NoKey]
           T == {e}
<1>1. x \in Nat /\ nextSeq \in Nat \ {0} BY DEF TypeOK
<1>2. /\ SameTransactions /\ x \in open' /\ table' = table \cup T
      /\ nextSeq' = nextSeq + 1 /\ UNCHANGED <<committed, readVars>>
  BY DEF Append, SameTransactions
<1>3. \A f \in T : f \in Record /\ f.xid = x /\ f.seq \in 1 .. nextSeq' - 1 BY <1>1, <1>2 DEF Record
<1>4. nextSeq' \in Nat /\ nextSeq <= nextSeq' BY <1>1, <1>2
<1> HIDE DEF T
<1> QED BY <1>2, <1>3, <1>4, InsertKeepsTypes

LEMMA AppendOnceKeepsTypes ==
    ASSUME TypeOK, NEW s \in Streams, NEW k \in Keys, AppendOnce(s, k) PROVE TypeOK'
<1> DEFINE e == [xid |-> nextXid, seq |-> nextSeq, stream |-> s, key |-> k]
           T == IF Recorded(s, k) # {} THEN {} ELSE {e}
<1>1. nextXid \in Nat /\ nextSeq \in Nat \ {0} BY DEF TypeOK
<1>t. table' = table \cup T BY DEF AppendOnce
<1>2. /\ OpensOne /\ nextXid \in open'
      /\ nextSeq' = nextSeq + 1 /\ UNCHANGED <<committed, readVars>>
  BY DEF AppendOnce, OpensOne
<1>3. \A f \in T : f \in Record /\ f.xid = nextXid /\ f.seq \in 1 .. nextSeq' - 1
  BY <1>1, <1>2 DEF Record
<1>4. nextSeq' \in Nat /\ nextSeq <= nextSeq' BY <1>1, <1>2
<1> HIDE DEF T
<1> QED BY <1>t, <1>2, <1>3, <1>4, InsertKeepsTypes

LEMMA SendRungKeepsTypes ==
    ASSUME TypeOK, NEW m \in Rungs, SendRung(m) PROVE TypeOK'
<1> DEFINE Rec(q) == [xid |-> nextXid, seq |-> q, stream |-> Produced, key |-> NoKey]
           T == {Rec(q) : q \in nextSeq .. nextSeq + m - 1}
<1>0. m \in Nat \ {0} /\ Produced \in Streams BY BufferAssumption
<1>1. nextXid \in Nat /\ nextSeq \in Nat \ {0} BY DEF TypeOK
<1>2. /\ OpensOne /\ nextXid \in open' /\ table' = table \cup T
      /\ nextSeq' = nextSeq + m /\ UNCHANGED <<committed, readVars>>
  BY DEF SendRung, OpensOne
<1>3. \A e \in T : e \in Record /\ e.xid = nextXid /\ e.seq \in 1 .. nextSeq' - 1
  BY <1>0, <1>1, <1>2 DEF Record
<1>4. nextSeq' \in Nat /\ nextSeq <= nextSeq' BY <1>0, <1>1, <1>2
<1> HIDE DEF T
<1> QED BY <1>2, <1>3, <1>4, InsertKeepsTypes

(* An ending or a deletion takes rows away.                                 *)
LEMMA EndKeepsTypes ==
    ASSUME TypeOK, NEW x \in open, End(x) PROVE TypeOK'
<1>1. CASE Commit(x) BY <1>1 DEF TypeOK, Commit, readVars
<1>2. CASE Abort(x) BY <1>2 DEF TypeOK, Abort, readVars
<1> QED BY <1>1, <1>2 DEF End

LEMMA DeletionKeepsTypes ==
    ASSUME TypeOK, table' \subseteq table, UNCHANGED <<nextXid, nextSeq, open, committed, readVars>>
    PROVE  TypeOK'
BY DEF TypeOK, readVars

LEMMA ReadKeepsTypes ==
    ASSUME TypeOK, ReadStep PROVE TypeOK'
<1>1. PICK r \in Readers : Read(r) \/ Resume(r) BY DEF ReadStep
<1>2. ASSUME NEW e \in Record PROVE PosOf(e) \in Position BY DEF Record, Position, PosOf
<1>3. \A e \in got[r] : e \in Record BY DEF TypeOK
<1>4. CASE Read(r)
  <2>0. PICK B \in SUBSET Readable(r) : \E e \in B :
           /\ cursor' = [cursor EXCEPT ![r] = PosOf(e)]
           /\ got' = [got EXCEPT ![r] = @ \cup B]
           /\ UNCHANGED <<logVars, resumes>>
    BY Zenon, <1>4 DEF Read
  <2>1. PICK e \in B :
           /\ cursor' = [cursor EXCEPT ![r] = PosOf(e)]
           /\ got' = [got EXCEPT ![r] = @ \cup B]
           /\ UNCHANGED <<logVars, resumes>>
    BY Zenon, <2>0
  <2>2. B \subseteq Record BY DEF Readable, Visible, TypeOK
  <2>3. cursor' \in [Readers -> Position] BY <1>2, <2>1, <2>2 DEF TypeOK
  <2>4. got' \in [Readers -> SUBSET Record] BY <2>1, <2>2 DEF TypeOK
  <2> QED BY <2>1, <2>3, <2>4 DEF TypeOK, logVars
<1>5. CASE Resume(r)
  <2>1. PICK c \in Handed(r) : cursor' = [cursor EXCEPT ![r] = c] BY Zenon, <1>5 DEF Resume
  <2>2. c \in Position BY <1>2, <1>3 DEF Handed, Start, Position
  <2>3. cursor' \in [Readers -> Position] BY <2>1, <2>2 DEF TypeOK
  <2> QED BY <1>5, <2>3 DEF TypeOK, Resume, logVars
<1> QED BY <1>1, <1>4, <1>5

LEMMA TypesStep == TypeOK /\ [Next]_vars => TypeOK'
<1> SUFFICES ASSUME TypeOK, [Next]_vars PROVE TypeOK'
    OBVIOUS
<1>1. CASE UNCHANGED vars BY <1>1 DEF TypeOK, vars, logVars, readVars
<1>2. CASE LogStep
  <2>1. CASE Begin BY <2>1, BeginKeepsTypes
  <2>2. ASSUME NEW x \in open, End(x) PROVE TypeOK' BY <2>2, EndKeepsTypes
  <2>3. ASSUME NEW x \in open, NEW s \in Streams, Append(x, s) PROVE TypeOK'
    BY <2>3, AppendKeepsTypes
  <2>4. ASSUME NEW s \in Streams, DropStream(s) PROVE TypeOK'
    <3>1. table' \subseteq table BY <2>4 DEF DropStream
    <3> QED BY <2>4, <3>1, DeletionKeepsTypes DEF DropStream
  <2>5. ASSUME NEW s \in Streams, NEW k \in Keys, AppendOnce(s, k) PROVE TypeOK'
    BY <2>5, AppendOnceKeepsTypes
  <2>6. ASSUME NEW S \in SUBSET Visible, Purge(S) PROVE TypeOK'
    <3>1. table' \subseteq table BY <2>6 DEF Purge
    <3> QED BY <2>6, <3>1, DeletionKeepsTypes DEF Purge
  <2> QED BY <1>2, <2>1, <2>2, <2>3, <2>4, <2>5, <2>6 DEF LogStep
<1>3. CASE ReadStep BY <1>3, ReadKeepsTypes
<1> QED BY <1>1, <1>2, <1>3 DEF Next

(* Every variable of the log keeps its type; a transaction is open or       *)
(* committed, never both, and a row in the table belongs to one of those.   *)
THEOREM LogTypeCorrect == Spec => []TypeOK
<1>1. Init => TypeOK BY DEF Init, TypeOK, Start, Position
<1> QED BY <1>1, TypesStep, PTL DEF Spec

-----------------------------------------------------------------------------
(* The cursor.                                                              *)

(* The inductive invariant behind NeverSkips: a reader holds only settled   *)
(* rows, so whatever commits later sorts after every cursor it was handed,  *)
(* and it continues from one of those cursors.                              *)
OnlySettled == \A r \in Readers : \A g \in got[r] : Settled(g.xid)
OwnCursor == \A r \in Readers : cursor[r] \in Handed(r)
Caught == OnlySettled /\ OwnCursor /\ NeverSkips

(* Writers: nothing settled becomes unsettled, and a row that becomes       *)
(* visible is of a transaction that was still open.                         *)
Advances ==
    /\ UNCHANGED <<cursor, got>>
    /\ \A x \in Nat : x < nextXid /\ (\A o \in open : x < o)
                      => x < nextXid' /\ (\A o \in open' : x < o)
    /\ \A e \in Visible' : e \in Visible \/ (e \in table /\ e.xid \in open)
    /\ Visible \subseteq Visible' \/ Visible' \subseteq Visible

LEMMA OpenXids ==
    ASSUME TypeOK
    PROVE  \A x \in open : x \in Nat \ {0} /\ x < nextXid /\ x \notin committed
<1>1. nextXid \in Nat /\ open \subseteq 1 .. nextXid - 1 BY DEF TypeOK
<1>2. \A x \in 1 .. nextXid - 1 : x \in Nat \ {0} /\ x < nextXid BY <1>1
<1> QED BY <1>1, <1>2 DEF TypeOK

LEMMA AdvancesKeepsCaught ==
    ASSUME TypeOK, Caught, Advances PROVE Caught'
<1>1. OnlySettled'
  BY DEF Caught, Advances, OnlySettled, Settled, TypeOK, Record
<1>2. OwnCursor' BY DEF Caught, Advances, OwnCursor, Handed
<1>3. NeverSkips'
  <2> SUFFICES ASSUME NEW r \in Readers, NEW c \in Handed(r), NEW e \in Visible',
                      e.stream \in Scope[r], ~After(e, c)
               PROVE  e \in got[r]
      BY DEF Advances, NeverSkips, Handed
  <2>1. CASE e \in Visible BY <2>1 DEF Caught, NeverSkips
  <2>2. CASE e \in table /\ e.xid \in open
    <3>1. e.xid \in Nat \ {0} BY <2>2, OpenXids
    <3>2. CASE c = Start BY <3>1, <3>2 DEF Start, After
    <3>3. ASSUME NEW g \in got[r], c = PosOf(g) PROVE FALSE
      <4>1. g.xid \in Nat BY DEF TypeOK, Record
      <4>2. g.xid < e.xid BY <2>2 DEF Caught, OnlySettled, Settled
      <4> QED BY Zenon, <3>1, <3>3, <4>1, <4>2 DEF After, PosOf
    <3> QED BY <3>2, <3>3 DEF Handed
  <2> QED BY <2>1, <2>2 DEF Advances
<1> QED BY <1>1, <1>2, <1>3 DEF Caught

(* Readers: a page is the first of what is readable, so what it leaves out  *)
(* sorts after all of it; what does not sort after the old cursor was       *)
(* handed out before.                                                       *)
LEMMA ReadKeepsCaught ==
    ASSUME TypeOK, Caught, NEW r \in Readers, Read(r) PROVE Caught'
<1>1. PICK B \in SUBSET Readable(r) : \E e \in B :
         /\ IsPage(B, Readable(r))
         /\ cursor' = [cursor EXCEPT ![r] = PosOf(e)]
         /\ got' = [got EXCEPT ![r] = @ \cup B]
         /\ UNCHANGED <<logVars, resumes>>
  BY Zenon DEF Read
<1>2. PICK l \in B : cursor' = [cursor EXCEPT ![r] = PosOf(l)] BY Zenon, <1>1
<1>3. /\ got'[r] = got[r] \cup B /\ \A s \in Readers \ {r} : got'[s] = got[s]
      /\ cursor'[r] = PosOf(l) /\ \A s \in Readers \ {r} : cursor'[s] = cursor[s]
  BY <1>1, <1>2 DEF TypeOK
<1>4. nextXid' = nextXid /\ open' = open /\ committed' = committed /\ table' = table
  BY Zenon, <1>1 DEF logVars
<1>5. B \subseteq table /\ \A b \in B : Settled(b.xid) BY Zenon DEF Readable, Visible
<1>6. OnlySettled'
  <2>1. \A s \in Readers : \A g \in got'[s] : Settled(g.xid)
    BY <1>3, <1>5 DEF Caught, OnlySettled
  <2> QED BY Zenon, <1>4, <2>1 DEF OnlySettled, Settled
<1>7. OwnCursor'
  <2>1. \A s \in Readers \ {r} : cursor'[s] \in Handed(s)'
    BY Zenon, <1>3 DEF Caught, OwnCursor, Handed
  <2>2. cursor'[r] \in Handed(r)' BY Zenon, <1>3 DEF Handed
  <2> QED BY Zenon, <2>1, <2>2 DEF OwnCursor
<1>8. NeverSkips'
  <2>1. ASSUME NEW s \in Readers, s # r, NEW c \in Handed(s)', NEW e \in Visible',
               e.stream \in Scope[s], ~After(e, c)
        PROVE  e \in got'[s]
    BY Zenon, <1>3, <1>4, <2>1 DEF Caught, NeverSkips, Handed, Visible
  <2>2. ASSUME NEW c \in Handed(r)', NEW e \in Visible',
               e.stream \in Scope[r], ~After(e, c)
        PROVE  e \in got'[r]
    <3>0. e \in Visible BY Zenon, <1>4 DEF Visible
    <3>1. CASE c \in Handed(r) BY Zenon, <1>3, <2>2, <3>0, <3>1 DEF Caught, NeverSkips
    <3>2. ASSUME NEW b \in B, c = PosOf(b) PROVE e \in got'[r]
      <4>1. ~After(e, b) BY <2>2, <3>2 DEF After, PosOf
      <4>2. Settled(e.xid)
        <5>1. b \in table /\ e \in table BY Zenon, <1>5, <3>0 DEF Visible
        <5>2. e.xid \in Nat /\ b.xid \in Nat BY Zenon, <5>1 DEF TypeOK, Record
        <5>3. nextXid \in Nat /\ \A o \in open : o \in Nat BY DEF TypeOK
        <5>4. e.xid <= b.xid BY <4>1, <5>2 DEF After
        <5>5. b.xid < nextXid /\ \A o \in open : b.xid < o BY Zenon, <1>5 DEF Settled
        <5> QED BY <5>2, <5>3, <5>4, <5>5 DEF Settled
      <4>3. CASE After(e, cursor[r])
        <5>1. e \in Readable(r) BY Zenon, <2>2, <3>0, <4>2, <4>3 DEF Readable
        <5>2. e \in B BY Zenon, <1>1, <4>1, <5>1 DEF IsPage
        <5> QED BY Zenon, <1>3, <5>2
      <4>4. CASE ~After(e, cursor[r])
        BY <1>3, <2>2, <3>0, <4>4 DEF Caught, NeverSkips, OwnCursor
      <4> QED BY Zenon, <4>3, <4>4
    <3> QED BY <1>3, <3>1, <3>2 DEF Handed
  <2> QED BY Zenon, <2>1, <2>2 DEF NeverSkips
<1> QED BY <1>6, <1>7, <1>8 DEF Caught

LEMMA ResumeKeepsCaught ==
    ASSUME TypeOK, Caught, NEW r \in Readers, Resume(r) PROVE Caught'
<1>1. PICK c \in Handed(r) : cursor' = [cursor EXCEPT ![r] = c] BY Zenon DEF Resume
<1>2. got' = got /\ nextXid' = nextXid /\ open' = open /\ committed' = committed
      /\ table' = table
  BY DEF Resume, logVars
<1>3. OnlySettled' BY <1>2 DEF Caught, OnlySettled, Settled
<1>4. OwnCursor' BY <1>1, <1>2 DEF Caught, OwnCursor, Handed, TypeOK
<1>5. NeverSkips' BY <1>2 DEF Caught, NeverSkips, Handed, Visible
<1> QED BY <1>3, <1>4, <1>5 DEF Caught

(* Who does not touch committed rows shows nothing and hides nothing.       *)
LEMMA OutOfSight ==
    ASSUME TypeOK, UNCHANGED <<committed, cursor, got>>, SameTransactions \/ OpensOne,
           \A e \in table : e.xid \in committed => e \in table',
           \A e \in table' : e \in table \/ e.xid \notin committed
    PROVE  Advances
<1>0. nextXid \in Nat BY DEF TypeOK
<1>1. Visible' = Visible BY Zenon DEF Visible
<1>2. \A x \in Nat : x < nextXid /\ (\A o \in open : x < o)
                     => x < nextXid' /\ (\A o \in open' : x < o)
  BY <1>0 DEF SameTransactions, OpensOne
<1> QED BY Zenon, <1>1, <1>2 DEF Advances

LEMMA WritersAdvance ==
    ASSUME TypeOK, LogStep PROVE Advances
<1>0. nextXid \notin committed BY DEF TypeOK
<1>1. CASE Begin
  BY Zenon, <1>1, OutOfSight DEF Begin, OpensOne, readVars
<1>2. ASSUME NEW x \in open, Commit(x) PROVE Advances
  BY Zenon, <1>2 DEF Commit, Advances, readVars, Visible
<1>3. ASSUME NEW x \in open, Abort(x) PROVE Advances
  <2>1. x \notin committed BY Zenon, OpenXids
  <2>2. Visible' = Visible BY Zenon, <1>3, <2>1 DEF Abort, Visible
  <2>3. UNCHANGED <<nextXid, cursor, got>> /\ open' \subseteq open
    BY Zenon, <1>3 DEF Abort, readVars
  <2> QED BY Zenon, <2>2, <2>3 DEF Advances
<1>4. ASSUME NEW x \in open, NEW s \in Streams, Append(x, s) PROVE Advances
  <2>1. x \notin committed BY Zenon, OpenXids
  <2>2. \A e \in table' : e \in table \/ e.xid = x BY <1>4 DEF Append
  <2>3. table \subseteq table' BY Zenon, <1>4 DEF Append
  <2> QED BY Zenon, <1>4, <2>1, <2>2, <2>3, OutOfSight DEF Append, SameTransactions, readVars
<1>5. ASSUME NEW s \in Streams, DropStream(s) PROVE Advances
  BY Zenon, <1>5 DEF DropStream, Advances, readVars, Visible
<1>6. ASSUME NEW s \in Streams, NEW k \in Keys, AppendOnce(s, k) PROVE Advances
  <2>1. \A e \in table' : e \in table \/ e.xid = nextXid BY <1>6 DEF AppendOnce
  <2>2. table \subseteq table' BY Zenon, <1>6 DEF AppendOnce
  <2> QED BY Zenon, <1>0, <1>6, <2>1, <2>2, OutOfSight DEF AppendOnce, OpensOne, readVars
<1>7. ASSUME NEW S \in SUBSET Visible, Purge(S) PROVE Advances
  BY Zenon, <1>7 DEF Purge, Advances, readVars, Visible
<1> QED BY Zenon, <1>1, <1>2, <1>3, <1>4, <1>5, <1>6, <1>7 DEF LogStep, End

LEMMA CaughtStep ==
    ASSUME TypeOK, Caught, [Next]_vars PROVE Caught'
<1>1. CASE UNCHANGED vars
  BY Zenon, <1>1, AdvancesKeepsCaught DEF Advances, vars, logVars, readVars, Visible
<1>2. CASE LogStep BY Zenon, <1>2, WritersAdvance, AdvancesKeepsCaught
<1>3. CASE ReadStep BY Zenon, <1>3, ReadKeepsCaught, ResumeKeepsCaught DEF ReadStep
<1> QED BY Zenon, <1>1, <1>2, <1>3 DEF Next

(* Whichever of its cursors a reader comes back with, it has been handed    *)
(* every committed row at or before it: ordering by (xid, seq) below        *)
(* pg_snapshot_xmin cannot skip, however long a transaction stays open.     *)
THEOREM ReadersNeverSkip == Spec => []NeverSkips
<1>1. Init => Caught
  BY DEF Init, Caught, OnlySettled, OwnCursor, NeverSkips, Handed, Visible
<1>2. TypeOK /\ Caught /\ [Next]_vars => Caught' BY CaughtStep
<1>3. Caught => NeverSkips BY Zenon DEF Caught
<1> QED BY <1>1, <1>2, <1>3, LogTypeCorrect, PTL DEF Spec

-----------------------------------------------------------------------------
(* The log as a feed.                                                       *)

(* What becomes visible was open when the rows a reader has were settled.   *)
LEMMA AdvancesIsFeed ==
    ASSUME TypeOK, Caught, Advances PROVE [F!Next]_F!feedVars
<1>1. UNCHANGED <<got, cursor>> BY Zenon DEF Advances
<1>2. CASE Visible' \subseteq Visible BY Zenon, <1>1, <1>2 DEF F!Next, F!Shrink
<1>3. CASE Visible \subseteq Visible'
  <2>1. ASSUME NEW e \in Visible' \ Visible, NEW r \in Readers, NEW p \in F!Places(r)
        PROVE  F!After(e, p)
    <3>1. e.xid \in open /\ e.xid \in Nat \ {0} BY Zenon, <2>1, OpenXids DEF Advances
    <3>2. CASE p = F!Start BY <3>1, <3>2 DEF F!Start, F!After
    <3>3. ASSUME NEW g \in got[r], p = F!PosOf(g) PROVE F!After(e, p)
      <4>1. g.xid \in Nat BY DEF TypeOK, Record
      <4>2. g.xid < e.xid BY Zenon, <3>1 DEF Caught, OnlySettled, Settled
      <4> QED BY <3>1, <3>3, <4>1, <4>2 DEF F!After, F!PosOf
    <3> QED BY Zenon, <2>1, <3>2, <3>3 DEF F!Places
  <2> QED BY Zenon, <1>1, <1>3, <2>1 DEF F!Next, F!Grow
<1> QED BY Zenon, <1>2, <1>3 DEF Advances

(* A page is all there is between two cursors: what is not settled sorts    *)
(* after everything that is.                                                *)
LEMMA ReadIsFeed ==
    ASSUME TypeOK, NEW r \in Readers, Read(r) PROVE F!Take(r)
<1>1. PICK B \in SUBSET Readable(r) : \E e \in B :
         /\ IsPage(B, Readable(r)) /\ IsLast(e, B)
         /\ cursor' = [cursor EXCEPT ![r] = PosOf(e)]
         /\ got' = [got EXCEPT ![r] = @ \cup B]
         /\ UNCHANGED <<logVars, resumes>>
  BY Zenon DEF Read
<1>2. PICK l \in B : /\ IsPage(B, Readable(r)) /\ IsLast(l, B)
                     /\ cursor' = [cursor EXCEPT ![r] = PosOf(l)]
                     /\ got' = [got EXCEPT ![r] = @ \cup B]
                     /\ UNCHANGED <<logVars, resumes>>
  BY Zenon, <1>1
<1>3. l \in Readable(r) BY Zenon
<1>4. Visible' = Visible BY Zenon, <1>2 DEF logVars, Visible
<1>5. ASSUME NEW b \in B PROVE b \in F!Between(r, cursor[r], l)
  <2>1. b \in Readable(r) /\ ~After(b, l) BY Zenon, <1>2 DEF IsLast
  <2> QED BY Zenon, <2>1 DEF F!Between, Readable, F!After, After
<1>6. ASSUME NEW e \in F!Between(r, cursor[r], l) PROVE e \in B
  <2>1. /\ e \in Visible /\ e.stream \in Scope[r]
        /\ After(e, cursor[r]) /\ ~After(e, l)
    BY Zenon DEF F!Between, F!After, After
  <2>2. e \in table /\ l \in table BY Zenon, <1>3, <2>1 DEF Readable, Visible
  <2>3. e.xid \in Nat /\ l.xid \in Nat BY Zenon, <2>2 DEF TypeOK, Record
  <2>4. nextXid \in Nat /\ \A o \in open : o \in Nat BY DEF TypeOK
  <2>5. e.xid <= l.xid BY <2>1, <2>3 DEF After
  <2>6. l.xid < nextXid /\ \A o \in open : l.xid < o BY Zenon, <1>3 DEF Readable, Settled
  <2>7. Settled(e.xid) BY <2>3, <2>4, <2>5, <2>6 DEF Settled
  <2>8. e \in Readable(r) BY Zenon, <2>1, <2>7 DEF Readable
  <2> QED BY Zenon, <1>2, <2>1, <2>8 DEF IsPage
<1>7. B = F!Between(r, cursor[r], l) BY Zenon, <1>5, <1>6
<1>8. l \in Visible /\ l.stream \in Scope[r] /\ F!After(l, cursor[r])
  BY Zenon, <1>3 DEF Readable, After, F!After
<1>9. cursor' = [cursor EXCEPT ![r] = F!PosOf(l)] BY Zenon, <1>2 DEF PosOf, F!PosOf
<1> QED BY Zenon, <1>2, <1>4, <1>7, <1>8, <1>9 DEF F!Take

LEMMA ReadersAreFed ==
    ASSUME TypeOK, ReadStep PROVE F!Next
<1>1. PICK r \in Readers : Read(r) \/ Resume(r) BY Zenon DEF ReadStep
<1>2. CASE Read(r) BY Zenon, <1>2, ReadIsFeed DEF F!Next
<1>3. CASE Resume(r)
  <2>1. Handed(r) = F!Places(r) BY Zenon DEF Handed, F!Places, Start, F!Start, PosOf, F!PosOf
  <2>2. Visible' = Visible BY Zenon, <1>3 DEF Resume, logVars, Visible
  <2>3. F!Return(r) BY Zenon, <1>3, <2>1, <2>2 DEF Resume, F!Return
  <2> QED BY Zenon, <2>3 DEF F!Next
<1> QED BY Zenon, <1>1, <1>2, <1>3

LEMMA FeedStep ==
    ASSUME TypeOK, Caught, [Next]_vars PROVE [F!Next]_F!feedVars
<1>1. CASE UNCHANGED vars BY Zenon, <1>1 DEF vars, logVars, readVars, Visible, F!feedVars
<1>2. CASE LogStep BY Zenon, <1>2, WritersAdvance, AdvancesIsFeed
<1>3. CASE ReadStep BY Zenon, <1>3, ReadersAreFed
<1> QED BY Zenon, <1>1, <1>2, <1>3 DEF Next

(* What the log shows its readers is a feed: rows only ever come in behind  *)
(* the cursors that are out, and a page is everything between two of them,  *)
(* for any number of open transactions, readers and rows.                   *)
THEOREM LogIsAFeed == Spec => ImplementsFeed
<1>1. Init => F!Init BY DEF Init, F!Init, Visible, Start, F!Start
<1>2. Init => Caught
  BY DEF Init, Caught, OnlySettled, OwnCursor, NeverSkips, Handed, Visible
<1>3. TypeOK /\ Caught /\ [Next]_vars => Caught' BY Zenon, CaughtStep
<1>4. TypeOK /\ Caught /\ [Next]_vars => [F!Next]_F!feedVars BY Zenon, FeedStep
<1> QED BY <1>1, <1>2, <1>3, <1>4, LogTypeCorrect, PTL DEF Spec, ImplementsFeed, F!Spec

-----------------------------------------------------------------------------
(* The buffer.                                                              *)

(* The inductive invariant behind LossIsCounted.  Between the commit of an  *)
(* insert and its answer its rows are both in the log and left to write:    *)
(* that slack pays for the answer.                                          *)
Counts ==
    /\ pending \in Nat /\ batch \in Nat /\ left \in Nat
    /\ offered \in Nat /\ landed \in Nat /\ dropped \in Nat
    /\ owed \in [1 .. MaxXid -> Nat]
    /\ rung \in 0 .. MaxXid /\ rung < nextXid /\ nextXid <= MaxXid + 1
    /\ left <= batch
    /\ rung # 0 => owed[rung] <= left
Unanswered == IF rung \in committed THEN owed[rung] ELSE 0
Accounted == Counts /\ offered - pending - landed <= dropped + left - Unanswered

(* What goes on elsewhere opens transactions and ends them, but commits     *)
(* none of them.                                                            *)
LEMMA ElsewhereIsALogStep ==
    ASSUME Elsewhere
    PROVE  /\ Next /\ UNCHANGED <<bufVars, committed>>
           /\ nextXid' = nextXid \/ (nextXid <= MaxXid /\ nextXid' = nextXid + 1)
<1>1. Next BY Zenon DEF Elsewhere, Next, LogStep, End
<1>2. ASSUME ReadStep PROVE UNCHANGED <<nextXid, committed>>
  BY Zenon, <1>2 DEF ReadStep, Read, Resume, logVars
<1> QED BY <1>1, <1>2
        DEF Elsewhere, Begin, Abort, Append, DropStream, AppendOnce, Purge

LEMMA BufferTypesStep ==
    ASSUME TypeOK, [BufNext]_allVars PROVE TypeOK'
<1>1. CASE UNCHANGED vars BY <1>1, TypesStep
<1>2. ASSUME NEW m \in Rungs, SendRung(m) PROVE TypeOK' BY <1>2, SendRungKeepsTypes
<1>3. ASSUME NEW x \in open, RungCommits(x) PROVE TypeOK'
  BY <1>3, EndKeepsTypes DEF RungCommits, End
<1>4. CASE Elsewhere BY <1>4, ElsewhereIsALogStep, TypesStep
<1> QED BY <1>1, <1>2, <1>3, <1>4
        DEF BufNext, allVars, Offer, FlushBegins, RungLands, FlushFails, Abandon

LEMMA BufferTypes == BufSpec => []TypeOK
<1>1. BufInit => TypeOK BY DEF BufInit, Init, TypeOK, Start, Position
<1>2. TypeOK /\ [BufNext]_allVars => TypeOK' BY BufferTypesStep
<1> QED BY <1>1, <1>2, PTL DEF BufSpec

(* To the log, a step of the buffer is one of its own steps or, with a      *)
(* multi-row insert, one that no reader can see.                            *)
LEMMA BufferStep ==
    ASSUME TypeOK, [BufNext]_allVars PROVE Advances \/ [Next]_vars
<1>1. ASSUME NEW m \in Rungs, SendRung(m) PROVE Advances
  <2>1. nextXid \notin committed BY DEF TypeOK
  <2>2. \A e \in table' : e \in table \/ e.xid = nextXid BY <1>1 DEF SendRung
  <2>3. table \subseteq table' BY Zenon, <1>1 DEF SendRung
  <2> QED BY Zenon, <1>1, <2>1, <2>2, <2>3, OutOfSight DEF SendRung, OpensOne, readVars
<1>2. ASSUME NEW x \in open, RungCommits(x) PROVE Next
  BY Zenon, <1>2 DEF RungCommits, Next, LogStep, End
<1>3. CASE Elsewhere BY Zenon, <1>3, ElsewhereIsALogStep
<1> QED BY Zenon, <1>1, <1>2, <1>3
        DEF BufNext, allVars, Offer, FlushBegins, RungLands, FlushFails, Abandon

LEMMA BufferKeepsCaught == BufSpec => []Caught
<1>1. BufInit => Caught
  BY DEF BufInit, Init, Caught, OnlySettled, OwnCursor, NeverSkips, Handed, Visible
<1>2. TypeOK /\ Caught /\ [BufNext]_allVars => Caught'
  BY Zenon, BufferStep, AdvancesKeepsCaught, CaughtStep
<1> QED BY <1>1, <1>2, BufferTypes, PTL DEF BufSpec

(* No cursor skips with a buffer in front of the log either: append_many    *)
(* sends its inserts in transactions of their own, which commit in any      *)
(* order and long after the flush that sent them has failed.                *)
THEOREM BufferedReadersNeverSkip == BufSpec => []NeverSkips
<1>1. Caught => NeverSkips BY Zenon DEF Caught
<1> QED BY <1>1, BufferKeepsCaught, PTL

(* The log with its buffer is the same feed to its readers.                 *)
THEOREM BufferedLogIsAFeed == BufSpec => ImplementsFeed
<1>1. BufInit => F!Init BY DEF BufInit, Init, F!Init, Visible, Start, F!Start
<1>2. TypeOK /\ Caught /\ [BufNext]_allVars => [F!Next]_F!feedVars
  BY Zenon, BufferStep, AdvancesIsFeed, FeedStep
<1> QED BY <1>1, <1>2, BufferTypes, BufferKeepsCaught, PTL DEF BufSpec, ImplementsFeed, F!Spec

LEMMA AccountedStep ==
    ASSUME TypeOK, Accounted, [BufNext]_allVars, Failures \subseteq {"error"}
    PROVE  Accounted'
<1>0. /\ nextXid \in Nat \ {0} /\ MaxXid \in Nat /\ committed \subseteq 1 .. nextXid - 1
      /\ open \subseteq 1 .. nextXid - 1 /\ nextXid \notin committed
      /\ \A x \in open : x \notin committed
  BY LogAssumption DEF TypeOK
<1>n. /\ pending \in Nat /\ batch \in Nat /\ left \in Nat /\ left <= batch
      /\ offered \in Nat /\ landed \in Nat /\ dropped \in Nat
      /\ owed \in [1 .. MaxXid -> Nat] /\ rung \in 0 .. MaxXid
      /\ rung < nextXid /\ nextXid <= MaxXid + 1
      /\ rung # 0 => owed[rung] <= left
      /\ offered - pending - landed <= dropped + left - Unanswered
  BY Zenon DEF Accounted, Counts
<1>u. Unanswered \in Nat /\ (rung = 0 => Unanswered = 0)
  BY <1>0, <1>n DEF Unanswered
<1>1. CASE UNCHANGED <<bufVars, committed, nextXid>>
  BY <1>1 DEF Accounted, Counts, Unanswered, bufVars
<1>2. CASE Offer
  <2>1. Unanswered' = Unanswered BY <1>2 DEF Offer, Unanswered, vars, logVars
  <2>2. /\ offered' = offered + 1 /\ UNCHANGED <<nextXid, batch, left, rung, owed, landed>>
        /\ \/ pending' = pending + 1 /\ dropped' = dropped
           \/ pending' = pending /\ dropped' = dropped + 1
    BY <1>2 DEF Offer, vars, logVars
  <2>3. offered' - pending' - landed' <= dropped' + left' - Unanswered'
    BY <1>n, <1>u, <2>1, <2>2
  <2>4. Counts' BY <1>n, <2>2 DEF Counts
  <2> QED BY <2>3, <2>4 DEF Accounted
<1>3. CASE FlushBegins
  <2>1. left = 0 BY <1>3, <1>n DEF FlushBegins
  <2>2. rung # 0 => owed[rung] = 0 BY <1>n, <2>1
  <2>3. Unanswered' = Unanswered BY <1>3 DEF FlushBegins, Unanswered, vars, logVars
  <2>4. /\ batch' = pending /\ left' = pending /\ pending' = 0
        /\ UNCHANGED <<nextXid, rung, owed, offered, landed, dropped>>
    BY Zenon, <1>3 DEF FlushBegins, vars, logVars
  <2>5. offered' - pending' - landed' <= dropped' + left' - Unanswered'
    BY <1>n, <1>u, <2>1, <2>3, <2>4
  <2>6. Counts' BY <1>n, <2>2, <2>4 DEF Counts
  <2> QED BY <2>5, <2>6 DEF Accounted
<1>4. CASE RungLands
  <2>1. /\ rung \in committed /\ rung' = 0 /\ left' = left - owed[rung]
        /\ batch' = IF left = owed[rung] THEN 0 ELSE batch
        /\ UNCHANGED <<nextXid, committed, pending, owed, offered, landed, dropped>>
    BY Zenon, <1>4 DEF RungLands, vars, logVars
  <2>2. rung \in 1 .. MaxXid /\ owed[rung] \in Nat /\ owed[rung] <= left BY <1>0, <1>n, <2>1
  <2>3. Unanswered = owed[rung] /\ Unanswered' = 0 BY <1>0, <2>1 DEF Unanswered
  <2>4. offered' - pending' - landed' <= dropped' + left' - Unanswered'
    BY <1>n, <2>1, <2>2, <2>3
  <2>5. left' \in Nat /\ batch' \in Nat /\ left' <= batch' BY <1>n, <2>1, <2>2
  <2>6. Counts' BY <1>0, <1>n, <2>1, <2>5 DEF Counts
  <2> QED BY <2>4, <2>6 DEF Accounted
<1>5. ASSUME NEW why \in Failures, FlushFails(why) PROVE Accounted'
  <2>1. /\ dropped' = dropped + batch /\ batch' = 0 /\ left' = 0 /\ rung' = 0
        /\ UNCHANGED <<nextXid, committed, pending, owed, offered, landed>>
    BY <1>5 DEF FlushFails, vars, logVars
  <2>2. Unanswered' = 0 BY <1>0, <2>1 DEF Unanswered
  <2>3. offered' - pending' - landed' <= dropped' + left' - Unanswered'
    BY <1>n, <1>u, <2>1, <2>2
  <2>4. Counts' BY <1>0, <1>n, <2>1 DEF Counts
  <2> QED BY <2>3, <2>4 DEF Accounted
<1>6. CASE Abandon
  <2>1. Unanswered' = Unanswered BY <1>6 DEF Abandon, Unanswered, vars, logVars
  <2>2. /\ dropped' = dropped + pending /\ pending' = 0
        /\ UNCHANGED <<nextXid, batch, left, rung, owed, offered, landed>>
    BY <1>6 DEF Abandon, vars, logVars
  <2>3. offered' - pending' - landed' <= dropped' + left' - Unanswered'
    BY <1>n, <1>u, <2>1, <2>2
  <2>4. Counts' BY <1>n, <2>2 DEF Counts
  <2> QED BY <2>3, <2>4 DEF Accounted
<1>7. ASSUME NEW m \in Rungs, SendRung(m) PROVE Accounted'
  <2>1. m \in Nat /\ m <= left BY Zenon, <1>7, BufferAssumption DEF SendRung, IsRungFor
  <2>2. /\ rung = 0 /\ nextXid <= MaxXid /\ nextXid' = nextXid + 1 /\ rung' = nextXid
        /\ owed' = [owed EXCEPT ![nextXid] = m]
        /\ UNCHANGED <<committed, pending, batch, left, offered, landed, dropped>>
    BY Zenon, <1>7 DEF SendRung
  <2>3. Unanswered' = 0 BY Zenon, <1>0, <2>2 DEF Unanswered
  <2>4. offered' - pending' - landed' <= dropped' + left' - Unanswered'
    BY <1>n, <1>u, <2>2, <2>3
  <2>5. nextXid \in 1 .. MaxXid BY <1>0, <2>2
  <2>6. owed' \in [1 .. MaxXid -> Nat] /\ owed'[rung'] = m BY Zenon, <1>n, <2>1, <2>2, <2>5
  <2>7. Counts' BY <1>0, <1>n, <2>1, <2>2, <2>5, <2>6 DEF Counts
  <2> QED BY Zenon, <2>4, <2>7 DEF Accounted
<1>8. ASSUME NEW x \in open, RungCommits(x) PROVE Accounted'
  <2>1. x \in 1 .. MaxXid /\ owed[x] \in Nat BY <1>0, <1>n
  <2>2. /\ committed' = committed \cup {x} /\ landed' = landed + owed[x]
        /\ UNCHANGED <<nextXid, pending, batch, left, rung, owed, offered, dropped>>
    BY Zenon, <1>8 DEF RungCommits, Commit
  <2>3. Unanswered' = IF x = rung THEN owed[x] ELSE Unanswered
    BY <1>0, <2>2 DEF Unanswered
  <2>4. x = rung => Unanswered = 0 BY <1>0 DEF Unanswered
  <2>5. offered' - pending' - landed' <= dropped' + left' - Unanswered'
    <3>1. CASE x = rung
      <4>1. Unanswered = 0 /\ Unanswered' = owed[x] BY Zenon, <3>1, <2>3, <2>4
      <4>2. offered - pending - (landed + owed[x]) <= dropped + left - owed[x]
        BY <1>n, <2>1, <4>1
      <4> QED BY <2>2, <4>1, <4>2
    <3>2. CASE x # rung
      <4>1. Unanswered' = Unanswered BY <3>2, <2>3
      <4>2. offered - pending - (landed + owed[x]) <= dropped + left - Unanswered
        BY <1>n, <1>u, <2>1
      <4> QED BY <2>2, <4>1, <4>2
    <3> QED BY Zenon, <3>1, <3>2
  <2>6. Counts' BY <1>n, <2>1, <2>2 DEF Counts
  <2> QED BY Zenon, <2>5, <2>6 DEF Accounted
<1>9. CASE Elsewhere
  <2>1. UNCHANGED <<bufVars, committed>>
        /\ (nextXid' = nextXid \/ (nextXid <= MaxXid /\ nextXid' = nextXid + 1))
    BY <1>9, ElsewhereIsALogStep
  <2> QED BY <1>0, <2>1 DEF Accounted, Counts, Unanswered, bufVars
<1> QED BY Zenon, <1>1, <1>2, <1>3, <1>4, <1>5, <1>6, <1>7, <1>8, <1>9
        DEF BufNext, allVars, vars, logVars

(* While a flush fails only in the ways its except clause names, every row  *)
(* offered is pending, written, under way or counted in `dropped`, however  *)
(* many of its inserts had committed when it failed.                        *)
THEOREM BufferedLossIsCounted ==
    ASSUME Failures \subseteq {"error"} PROVE BufSpec => []LossIsCounted
<1>1. BufInit => Accounted
  BY LogAssumption DEF BufInit, Init, Accounted, Counts, Unanswered
<1>2. TypeOK /\ Accounted /\ [BufNext]_allVars => Accounted' BY Zenon, AccountedStep
<1>3. TypeOK /\ Accounted => LossIsCounted
  BY DEF Accounted, Counts, Unanswered, LossIsCounted, TypeOK
<1> QED BY <1>1, <1>2, <1>3, BufferTypes, PTL DEF BufSpec
=============================================================================
