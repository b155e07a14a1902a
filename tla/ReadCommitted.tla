---------------------------- MODULE ReadCommitted ----------------------------
(***************************************************************************)
(* The part of PostgreSQL the services rely on (external: it is not in the *)
(* repository).  Every @Transactional method runs with the default level,  *)
(* READ COMMITTED (transactional-method.decorator.ts, startTransaction):   *)
(*   - a statement sees what was committed when it started, plus the       *)
(*     writes of its own transaction;                                      *)
(*   - an UPDATE or DELETE locks each row it touches until the transaction *)
(*     ends; if another transaction holds the row it waits, then evaluates *)
(*     its WHERE clause again on the row's latest version;                 *)
(*   - a cycle of waiting transactions is broken by aborting one of them.  *)
(* A row's lock holder is also the only transaction with an uncommitted    *)
(* version of it, so that one version per row, dirty[r], is enough.        *)
(***************************************************************************)
EXTENDS FiniteSets, Functions

CONSTANTS
    Row,        \* the ids of the rows of the table (UUIDs, never reused)
    Request,    \* request slots: the HTTP requests that may be in flight
    NoRequest   \* the owner of an unlocked row

ASSUME NoRequestAssumption == NoRequest \notin Request

VARIABLES
    db,         \* db[r]: the committed version of row r
    owner,      \* owner[r]: the request whose transaction has locked r
    dirty       \* dirty[r]: the version written by owner[r], else db[r]

(* What a statement of t reads in row r.                                   *)
Visible(t, r) == IF owner[r] = t THEN dirty[r] ELSE db[r]

(* The rows locked by the transaction of t.                                *)
Locked(t) == {r \in Row : owner[r] = t}

(* A write of t to r need not wait.                                        *)
Available(t, r) == owner[r] \in {t, NoRequest}

(* t writes version v of row r, and holds r until its transaction ends.    *)
WriteRow(t, r, v) ==
    /\ owner' = [owner EXCEPT ![r] = t]
    /\ dirty' = [dirty EXCEPT ![r] = v]
    /\ UNCHANGED db

ReleaseLocks(t) ==
    owner' = [r \in Row |-> IF owner[r] = t THEN NoRequest ELSE owner[r]]

(* COMMIT: every version t wrote becomes visible at once.                  *)
CommitRows(t) ==
    /\ db' = [r \in Row |-> IF owner[r] = t THEN dirty[r] ELSE db[r]]
    /\ ReleaseLocks(t)
    /\ UNCHANGED dirty

(* ROLLBACK, and what the server does when the session disappears.         *)
RollbackRows(t) ==
    /\ dirty' = [r \in Row |-> IF owner[r] = t THEN db[r] ELSE dirty[r]]
    /\ ReleaseLocks(t)
    /\ UNCHANGED db

(* Deadlock detection: given the set of requests each request waits for, t *)
(* is on a cycle of waiting requests.                                      *)
OnWaitCycle(t, WaitsFor) ==
    \E C \in SUBSET Request :
        /\ t \in C
        /\ \E next \in [C -> C] :
              /\ IsInjective(next)
              /\ \A s \in C : next[s] \in WaitsFor[s]

=============================================================================
