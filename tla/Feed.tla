-------------------------------- MODULE Feed --------------------------------
(***************************************************************************)
(* What the append-only log promises its readers, with no transactions and  *)
(* no horizon: rows come in after every place a reader was ever given, and  *)
(* a reader that moves from one place to the next takes all that lies       *)
(* between them.  Log implements it.                                        *)
(***************************************************************************)
EXTENDS Integers

CONSTANTS Readers,
          Scope      \* the streams each reader reads

VARIABLES rows,      \* what can be read: records with xid, seq and stream
          taken,     \* [Readers -> SUBSET rows ever readable]
          place      \* [Readers -> Position], where each reader is

feedVars == <<rows, taken, place>>

Start == [xid |-> 0, seq |-> 0]
PosOf(e) == [xid |-> e.xid, seq |-> e.seq]
After(p, q) == p.xid > q.xid \/ (p.xid = q.xid /\ p.seq > q.seq)

(* The places a reader may come back to.                                    *)
Places(r) == {Start} \cup {PosOf(e) : e \in taken[r]}

Init == /\ rows = {}
        /\ taken = [r \in Readers |-> {}]
        /\ place = [r \in Readers |-> Start]

Grow == /\ rows \subseteq rows'
        /\ \A e \in rows' \ rows, r \in Readers : \A p \in Places(r) : After(e, p)
        /\ UNCHANGED <<taken, place>>

(* Retention, and a stream that is dropped.                                 *)
Shrink == /\ rows' \subseteq rows
          /\ UNCHANGED <<taken, place>>

Between(r, p, q) ==
    {e \in rows : e.stream \in Scope[r] /\ After(e, p) /\ ~After(e, q)}

(* Forward to a row, with everything up to it and nothing a second time.    *)
Take(r) == \E e \in rows :
    /\ e.stream \in Scope[r] /\ After(e, place[r])
    /\ place' = [place EXCEPT ![r] = PosOf(e)]
    /\ taken' = [taken EXCEPT ![r] = @ \cup Between(r, place[r], e)]
    /\ UNCHANGED rows

Return(r) == \E p \in Places(r) :
    /\ place' = [place EXCEPT ![r] = p]
    /\ UNCHANGED <<rows, taken>>

Next == Grow \/ Shrink \/ \E r \in Readers : Take(r) \/ Return(r)

Spec == Init /\ [][Next]_feedVars
=============================================================================
