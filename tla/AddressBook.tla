------------------------------ MODULE AddressBook ------------------------------
(***************************************************************************)
(* What the address commands promise to a client that knows nothing of     *)
(* transactions: each user has a set of addresses, one of which is the     *)
(* default as soon as there is one, and every command takes effect at      *)
(* once or not at all.                                                     *)
(***************************************************************************)
CONSTANTS Address, User

VARIABLES
    users,      \* the users that exist
    used,       \* the ids that were ever given to an address
    addresses,  \* addresses[u]: the addresses of user u
    defaults    \* defaults[u]: those marked as default

vars == <<users, used, addresses, defaults>>

Init ==
    /\ users = User
    /\ used = {}
    /\ addresses = [u \in User |-> {}]
    /\ defaults = [u \in User |-> {}]

(* The first address becomes the default, asked for or not.                *)
Add(u, a, asDefault) ==
    /\ u \in users
    /\ a \notin used
    /\ used' = used \cup {a}
    /\ addresses' = [addresses EXCEPT ![u] = @ \cup {a}]
    /\ defaults' = IF asDefault \/ addresses[u] = {}
                   THEN [defaults EXCEPT ![u] = {a}] ELSE defaults
    /\ UNCHANGED users

SetDefault(u, a) ==
    /\ a \in addresses[u]
    /\ defaults' = [defaults EXCEPT ![u] = {a}]
    /\ UNCHANGED <<users, used, addresses>>

Delete(u, a) ==
    /\ a \in addresses[u] \ defaults[u]
    /\ addresses' = [addresses EXCEPT ![u] = @ \ {a}]
    /\ UNCHANGED <<users, used, defaults>>

RemoveUser(u) ==
    /\ u \in users
    /\ users' = users \ {u}
    /\ addresses' = [addresses EXCEPT ![u] = {}]
    /\ defaults' = [defaults EXCEPT ![u] = {}]
    /\ UNCHANGED used

Next ==
    \E u \in User :
        \/ RemoveUser(u)
        \/ \E a \in Address :
              \/ \E asDefault \in BOOLEAN : Add(u, a, asDefault)
              \/ SetDefault(u, a)
              \/ Delete(u, a)

Spec == Init /\ [][Next]_vars
=============================================================================
