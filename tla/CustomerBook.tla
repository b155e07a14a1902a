------------------------------ MODULE CustomerBook ------------------------------
(***************************************************************************)
(* What the commands on users, carts, items and favourites promise to a    *)
(* client that knows nothing of transactions: each takes effect at once or *)
(* not at all; a row is inserted only where nothing it refers to is        *)
(* missing and no rival is there; and a row goes together with all that    *)
(* hangs from it then, and with nothing else.                              *)
(***************************************************************************)
CONSTANTS
    Row,                \* the rows of all tables
    Refers,             \* Refers[r]: the rows that row r refers to
    Rivals,             \* Rivals[r]: the rows with the same unique key
    Editable,           \* the rows whose content clients may change
    Content,            \* what a row can hold
    Unborn, Deleted     \* a row before its insertion and after its removal

VARIABLE rows           \* rows[r]: what row r is

Exists(r) == rows[r] \in Content

Anchored(r) == \A p \in Refers[r] : Exists(p)
Alone(r) == \A s \in Rivals[r] : ~ Exists(s)

(* The rows that were there before the service was.                        *)
Init ==
    /\ rows \in [Row -> Content \cup {Unborn}]
    /\ \A r \in Row : Exists(r) => Anchored(r) /\ Alone(r)

Insert(r, v) ==
    /\ rows[r] = Unborn
    /\ Anchored(r) /\ Alone(r)
    /\ rows' = [rows EXCEPT ![r] = v]

Update(r, v) ==
    /\ r \in Editable
    /\ Exists(r)
    /\ rows' = [rows EXCEPT ![r] = v]

(* r, what refers to r, and what refers to that: there are three levels of *)
(* tables.                                                                 *)
Below ==
    [r \in Row |->
        {s \in Row : s = r \/ r \in Refers[s] \/ \E p \in Refers[s] : r \in Refers[p]}]

Remove(r) ==
    /\ Exists(r)
    /\ rows' = [s \in Row |-> IF s \in Below[r] /\ Exists(s) THEN Deleted ELSE rows[s]]

Next ==
    \E r \in Row :
        \/ \E v \in Content : Insert(r, v) \/ Update(r, v)
        \/ Remove(r)

Spec == Init /\ [][Next]_rows
=============================================================================
