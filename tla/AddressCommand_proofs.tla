------------------------- MODULE AddressCommand_proofs -------------------------
(***************************************************************************)
(* Proofs about AddressCommand, for any number of users, addresses and     *)
(* requests.                                                               *)
(***************************************************************************)
EXTENDS AddressCommand, TLAPS

USE NoRequestAssumption, UserOfAssumption, OpsAssumption, OverlapAssumption

-----------------------------------------------------------------------------
(* Every variable keeps its type and unlocked rows have no uncommitted     *)
(* version.                                                                *)
THEOREM TypeCorrect == Spec => []TypeOK
<1> USE DEF TypeOK, Status, PCs, Statements, Commands, Results
<1>1. Init => TypeOK
  BY DEF Init
<1>2. TypeOK /\ [Next]_vars => TypeOK'
  <2> SUFFICES ASSUME TypeOK, [Next]_vars PROVE TypeOK'
    OBVIOUS
  <2> USE DEF Goto, Throw
  <2>1. ASSUME NEW t \in Request, NEW c \in Ops, NEW a \in Row, NEW w \in BOOLEAN,
               Start(t, c, a, w)
        PROVE  TypeOK'
    BY <2>1 DEF Start, table
  <2>2. ASSUME NEW t \in Request, FindDefault(t) PROVE TypeOK'
    BY <2>2 DEF FindDefault, table, locals
  <2>3. ASSUME NEW t \in Request, FindAll(t) PROVE TypeOK'
    BY <2>3 DEF FindAll, table
  <2>4. ASSUME NEW t \in Request, Insert(t) PROVE TypeOK'
    BY <2>4 DEF Insert, WriteRow, table
  <2>5. ASSUME NEW t \in Request, Unset(t) PROVE TypeOK'
    BY <2>5 DEF Unset, VisibleDefaults, AddressesOf, table
  <2>6. ASSUME NEW t \in Request, NEW a \in Row, UnsetRow(t, a) PROVE TypeOK'
    BY <2>6 DEF UnsetRow, WriteRow, table
  <2>7. ASSUME NEW t \in Request, UnsetDone(t) PROVE TypeOK'
    BY <2>7 DEF UnsetDone, table, locals
  <2>8. ASSUME NEW t \in Request, Find(t) PROVE TypeOK'
    BY <2>8 DEF Find, table
  <2>9. ASSUME NEW t \in Request, Set(t) PROVE TypeOK'
    BY <2>9 DEF Set, PointWrite, WriteRow, table, locals
  <2>10. ASSUME NEW t \in Request, Erase(t) PROVE TypeOK'
    BY <2>10 DEF Erase, PointWrite, WriteRow, table, locals
  <2>11. ASSUME NEW t \in Request, Write(t) PROVE TypeOK'
    BY <2>11 DEF Write, PointWrite, WriteRow, Visible, table, locals
  <2>12. ASSUME NEW t \in Request, Reread(t) PROVE TypeOK'
    BY <2>12 DEF Reread, table
  <2>13. ASSUME NEW t \in Request, Commit(t) PROVE TypeOK'
    BY <2>13 DEF Commit, CommitRows, ReleaseLocks, Answer
  <2>14. ASSUME NEW t \in Request, Rollback(t) PROVE TypeOK'
    BY <2>14 DEF Rollback, RollbackRows, ReleaseLocks, Answer
  <2>15. ASSUME NEW t \in Request, DeadlockAbort(t) PROVE TypeOK'
    BY <2>15 DEF DeadlockAbort, table
  <2>16. ASSUME NEW t \in Request, ConnectionLost(t) PROVE TypeOK'
    BY <2>16 DEF ConnectionLost, CommitRows, RollbackRows, ReleaseLocks, Answer
  <2>17. ASSUME NEW u \in User, RemoveUser(u) PROVE TypeOK'
    BY <2>17 DEF RemoveUser, locals
  <2>18. CASE UNCHANGED vars
    BY <2>18 DEF vars, table, locals
  <2> QED
    BY <2>1, <2>2, <2>3, <2>4, <2>5, <2>6, <2>7, <2>8, <2>9, <2>10, <2>11,
       <2>12, <2>13, <2>14, <2>15, <2>16, <2>17, <2>18 DEF Next, Advance
<1> QED
  BY <1>1, <1>2, PTL DEF Spec

-----------------------------------------------------------------------------
(* SomeDefault, when no deleteAddress is served.                           *)

(* A request that is aborted is in a statement that waits for a row.       *)
LEMMA AbortedWaits ==
  ASSUME NEW t \in Request, DeadlockAbort(t)
  PROVE  pc[t] \in {"unsetting", "set", "erase", "write"}
<1>1. PICK C \in SUBSET Request :
        t \in C /\ \E next \in [C -> C] : \A s \in C : next[s] \in WaitsFor[s]
  BY DEF DeadlockAbort, OnWaitCycle
<1>2. WaitsFor[t] # {}
  BY <1>1
<1>3. PICK a \in Wanted(t) : TRUE
  BY <1>2 DEF WaitsFor
<1>4. SUFFICES ASSUME pc[t] # "unsetting", pc[t] \notin {"set", "erase", "write"}
               PROVE FALSE
  OBVIOUS
<1>5. Wanted(t) = {}
  BY <1>4 DEF Wanted
<1> QED
  BY <1>3, <1>5

(* The inductive invariant but for the types, which need none of it.       *)
Core ==
    /\ OwnStatements
    /\ FreshIds
    /\ LockedRowsLive
    /\ TargetLive
    /\ UnsetThenSet
    /\ ReadyToCommit
    /\ SomeDefault

(* An add that saw no address goes on to insert a default.                 *)
LEMMA FindAllKeepsReady ==
  ASSUME TypeOK, Core, "delete" \notin Ops, NEW t \in Request, FindAll(t)
  PROVE  ReadyToCommit'
<1> USE DEF Running, Active, TargetUser, AddressesOf, Visible, Live, Goto, Throw
<1>1. \A s \in Request : LiveOf(TargetUser(s))' = LiveOf(TargetUser(s))
  BY DEF FindAll, table, LiveOf
<1>2. isDefault'[t] \/ LiveOf(TargetUser(t)) # {}
  <2>1. SUFFICES ASSUME ~ isDefault'[t] PROVE LiveOf(TargetUser(t)) # {}
    OBVIOUS
  <2>2. PICK a \in VisibleAddresses(t) : TRUE
    BY <2>1 DEF FindAll, TypeOK
  <2>3. a \in LiveOf(TargetUser(t))
    BY <2>2 DEF VisibleAddresses, LiveOf, Core, LockedRowsLive, FindAll
  <2> QED
    BY <2>3
<1> QED
  BY <1>1, <1>2 DEF FindAll, table, Core, ReadyToCommit, TypeOK

(* A commit leaves a default to every user with addresses: were all those  *)
(* of u gone, then the committing request would have unset one, and then   *)
(* set another.                                                            *)
LEMMA CommitKeepsSomeDefault ==
  ASSUME TypeOK, Core, "delete" \notin Ops, NEW t \in Request, Commit(t)
  PROVE  SomeDefault'
<1> USE DEF AddressesOf, Live
<1> SUFFICES ASSUME NEW u \in User, NEW x \in AddressesOf(u), db'[x] \in Live,
                    DefaultsOf(u)' = {}
             PROVE  FALSE
  BY DEF SomeDefault, LiveOf
<1>1. \A b \in AddressesOf(u) : db'[b] # "default"
  BY DEF DefaultsOf
<1>2. \A b \in AddressesOf(u) : owner[b] = t => dirty[b] # "default"
  BY <1>1 DEF Commit, CommitRows
<1>3. LiveOf(u) # {}
  <2>1. CASE db[x] \in Live
    BY <2>1 DEF LiveOf
  <2>2. CASE db[x] \notin Live
    <3>1. owner[x] = t
      BY <2>2 DEF Commit, CommitRows
    <3>2. Running(t, "add", {"commit"}) /\ x = arg[t] /\ UserOf[x] = TargetUser(t)
          /\ u \in users
      BY <2>2, <3>1 DEF Core, LockedRowsLive
    <3>3. ~ isDefault[t]
      BY <1>2, <3>1, <3>2 DEF Core, ReadyToCommit
    <3> QED
      BY <3>2, <3>3 DEF Core, ReadyToCommit, Running
  <2> QED
    BY <2>1, <2>2
<1>4. PICK d \in AddressesOf(u) : db[d] = "default"
  BY <1>3 DEF Core, SomeDefault, DefaultsOf
<1>5. owner[d] = t
  BY <1>1, <1>4 DEF Commit, CommitRows
<1>6. dirty[d] = "plain" /\ UserOf[d] = TargetUser(t)
  BY <1>2, <1>5 DEF Core, LockedRowsLive
<1>7. owner[arg[t]] = t /\ dirty[arg[t]] = "default"
  BY <1>4, <1>5, <1>6 DEF Core, UnsetThenSet, Running, Commit
<1> QED
  BY <1>2, <1>6, <1>7 DEF TargetUser, TypeOK

(* Deleting a user leaves the other users' addresses alone.                *)
LEMMA RemoveUserKeepsSomeDefault ==
  ASSUME TypeOK, Core, NEW u \in User, RemoveUser(u)
  PROVE  SomeDefault'
<1> USE DEF AddressesOf, Live
<1> SUFFICES ASSUME NEW v \in User, NEW x \in AddressesOf(v), db'[x] \in Live
             PROVE  DefaultsOf(v)' # {}
  BY DEF SomeDefault, LiveOf
<1>1. v # u
  BY DEF RemoveUser, TypeOK
<1>2. \A b \in AddressesOf(v) : db'[b] = db[b]
  BY <1>1 DEF RemoveUser, TypeOK
<1>3. DefaultsOf(v) # {}
  BY <1>2 DEF Core, SomeDefault, LiveOf
<1> QED
  BY <1>2, <1>3 DEF DefaultsOf

(* Every step but a deleteAddress preserves the inductive invariant.       *)
LEMMA InductiveStep ==
  ASSUME TypeOK, TypeOK', Core, "delete" \notin Ops, [Next]_vars
  PROVE  Core'
<1> USE DEF Running, Active, TargetUser, AddressesOf, Visible, Live, Goto, Throw
<1> USE DEF TypeOK, PCs, Statements, Status, Commands
<1>1. ASSUME NEW t \in Request, NEW c \in Ops, NEW a \in Row, NEW w \in BOOLEAN,
               Start(t, c, a, w) PROVE Core'
  <2>1. OwnStatements'
    BY <1>1 DEF Core, OwnStatements, Start
  <2>2. FreshIds'
    BY <1>1 DEF Core, FreshIds, Start, table
  <2>3. LockedRowsLive'
    BY <1>1 DEF Core, LockedRowsLive, Start, table
  <2>4. TargetLive'
    BY <1>1 DEF Core, TargetLive, Start, table
  <2>5. UnsetThenSet'
    BY <1>1 DEF Core, UnsetThenSet, Start, table
  <2>6. ReadyToCommit'
    BY <1>1 DEF Core, ReadyToCommit, LiveOf, Start, table
  <2>7. SomeDefault'
    BY <1>1 DEF Core, SomeDefault, LiveOf, DefaultsOf, Start, table
  <2> QED
    BY <2>1, <2>2, <2>3, <2>4, <2>5, <2>6, <2>7 DEF Core
<1>2. ASSUME NEW t \in Request, FindDefault(t) PROVE Core'
  <2>1. OwnStatements'
    BY <1>2 DEF Core, OwnStatements, FindDefault, locals
  <2>2. FreshIds'
    BY <1>2 DEF Core, FreshIds, FindDefault, table, locals
  <2>3. LockedRowsLive'
    BY <1>2 DEF Core, LockedRowsLive, FindDefault, table, locals
  <2>4. TargetLive'
    BY <1>2 DEF Core, OwnStatements, TargetLive, FindDefault, table, locals
  <2>5. UnsetThenSet'
    BY <1>2 DEF Core, UnsetThenSet, FindDefault, table, locals
  <2>6. ReadyToCommit'
    BY <1>2 DEF Core, ReadyToCommit, LiveOf, FindDefault, table, locals
  <2>7. SomeDefault'
    BY <1>2 DEF Core, SomeDefault, LiveOf, DefaultsOf, FindDefault, table
  <2> QED
    BY <2>1, <2>2, <2>3, <2>4, <2>5, <2>6, <2>7 DEF Core
<1>3. ASSUME NEW t \in Request, FindAll(t) PROVE Core'
  <2>1. OwnStatements'
    BY <1>3 DEF Core, OwnStatements, FindAll
  <2>2. FreshIds'
    BY <1>3 DEF Core, FreshIds, FindAll, table
  <2>3. LockedRowsLive'
    BY <1>3 DEF Core, LockedRowsLive, FindAll, table
  <2>4. TargetLive'
    BY <1>3 DEF Core, TargetLive, FindAll, table
  <2>5. UnsetThenSet'
    BY <1>3 DEF Core, UnsetThenSet, FindAll, table
  <2>6. ReadyToCommit'
    BY <1>3, FindAllKeepsReady
  <2>7. SomeDefault'
    BY <1>3 DEF Core, SomeDefault, LiveOf, DefaultsOf, FindAll, table
  <2> QED
    BY <2>1, <2>2, <2>3, <2>4, <2>5, <2>6, <2>7 DEF Core
<1>4. ASSUME NEW t \in Request, Insert(t) PROVE Core'
  <2>1. OwnStatements'
    BY <1>4 DEF Core, OwnStatements, Insert, WriteRow
  <2>2. FreshIds'
    BY <1>4 DEF Core, FreshIds, Insert, WriteRow, table
  <2>3. LockedRowsLive'
    BY <1>4 DEF Core, OwnStatements, LockedRowsLive, Insert, WriteRow, table
  <2>4. TargetLive'
    BY <1>4 DEF Core, OwnStatements, TargetLive, Insert, WriteRow, table
  <2>5. UnsetThenSet'
    BY <1>4 DEF Core, OwnStatements, FreshIds, LockedRowsLive, UnsetThenSet,
       Insert, WriteRow, table
  <2>6. ReadyToCommit'
    BY <1>4 DEF Core, OwnStatements, FreshIds, LockedRowsLive, ReadyToCommit,
       LiveOf, Insert, WriteRow, table
  <2>7. SomeDefault'
    BY <1>4 DEF Core, SomeDefault, LiveOf, DefaultsOf, Insert, WriteRow,
       table
  <2> QED
    BY <2>1, <2>2, <2>3, <2>4, <2>5, <2>6, <2>7 DEF Core
<1>5. ASSUME NEW t \in Request, Unset(t) PROVE Core'
  <2>1. OwnStatements'
    BY <1>5 DEF Core, OwnStatements, Unset, VisibleDefaults
  <2>2. FreshIds'
    BY <1>5 DEF Core, FreshIds, Unset, table
  <2>3. LockedRowsLive'
    BY <1>5 DEF Core, LockedRowsLive, Unset, table
  <2>4. TargetLive'
    BY <1>5 DEF Core, TargetLive, Unset, table
  <2>5. UnsetThenSet'
    BY <1>5 DEF Core, UnsetThenSet, Unset, table
  <2>6. ReadyToCommit'
    BY <1>5 DEF Core, ReadyToCommit, LiveOf, Unset, table
  <2>7. SomeDefault'
    BY <1>5 DEF Core, SomeDefault, LiveOf, DefaultsOf, Unset, table
  <2> QED
    BY <2>1, <2>2, <2>3, <2>4, <2>5, <2>6, <2>7 DEF Core
<1>6. ASSUME NEW t \in Request, NEW a \in Row, UnsetRow(t, a) PROVE Core'
  <2>1. OwnStatements'
    BY <1>6 DEF Core, OwnStatements, UnsetRow, WriteRow
  <2>2. FreshIds'
    BY <1>6 DEF Core, FreshIds, UnsetRow, WriteRow, table
  <2>3. LockedRowsLive'
    BY <1>6 DEF Core, OwnStatements, LockedRowsLive, UnsetRow, WriteRow,
       table
  <2>4. TargetLive'
    BY <1>6 DEF Core, TargetLive, UnsetRow, WriteRow, table
  <2>5. UnsetThenSet'
    BY <1>6 DEF Core, OwnStatements, UnsetThenSet, UnsetRow, WriteRow, table,
       Available
  <2>6. ReadyToCommit'
    BY <1>6 DEF Core, ReadyToCommit, LiveOf, UnsetRow, WriteRow, table,
       Available
  <2>7. SomeDefault'
    BY <1>6 DEF Core, SomeDefault, LiveOf, DefaultsOf, UnsetRow, WriteRow,
       table
  <2> QED
    BY <2>1, <2>2, <2>3, <2>4, <2>5, <2>6, <2>7 DEF Core
<1>7. ASSUME NEW t \in Request, UnsetDone(t) PROVE Core'
  <2>1. OwnStatements'
    BY <1>7 DEF Core, OwnStatements, UnsetDone, locals
  <2>2. FreshIds'
    BY <1>7 DEF Core, FreshIds, UnsetDone, table, locals
  <2>3. LockedRowsLive'
    BY <1>7 DEF Core, LockedRowsLive, UnsetDone, table, locals
  <2>4. TargetLive'
    BY <1>7 DEF Core, TargetLive, UnsetDone, table, locals
  <2>5. UnsetThenSet'
    BY <1>7 DEF Core, UnsetThenSet, UnsetDone, table, locals
  <2>6. ReadyToCommit'
    BY <1>7 DEF Core, ReadyToCommit, LiveOf, UnsetDone, table, locals
  <2>7. SomeDefault'
    BY <1>7 DEF Core, SomeDefault, LiveOf, DefaultsOf, UnsetDone, table
  <2> QED
    BY <2>1, <2>2, <2>3, <2>4, <2>5, <2>6, <2>7 DEF Core
<1>8. ASSUME NEW t \in Request, Find(t) PROVE Core'
  <2>1. OwnStatements'
    BY <1>8 DEF Core, OwnStatements, Find
  <2>2. FreshIds'
    BY <1>8 DEF Core, FreshIds, Find, table
  <2>3. LockedRowsLive'
    BY <1>8 DEF Core, LockedRowsLive, Find, table
  <2>4. TargetLive'
    BY <1>8 DEF Core, LockedRowsLive, TargetLive, Find, table
  <2>5. UnsetThenSet'
    BY <1>8 DEF Core, UnsetThenSet, Find, table
  <2>6. ReadyToCommit'
    BY <1>8 DEF Core, ReadyToCommit, LiveOf, Find, table
  <2>7. SomeDefault'
    BY <1>8 DEF Core, SomeDefault, LiveOf, DefaultsOf, Find, table
  <2> QED
    BY <2>1, <2>2, <2>3, <2>4, <2>5, <2>6, <2>7 DEF Core
<1>9. ASSUME NEW t \in Request, Set(t) PROVE Core'
  <2>1. OwnStatements'
    BY <1>9 DEF Core, OwnStatements, Set, PointWrite, WriteRow, locals
  <2>2. FreshIds'
    BY <1>9 DEF Core, FreshIds, Set, PointWrite, WriteRow, table, locals
  <2>3. LockedRowsLive'
    BY <1>9 DEF Core, LockedRowsLive, Set, PointWrite, WriteRow, table,
       locals
  <2>4. TargetLive'
    BY <1>9 DEF Core, TargetLive, Set, PointWrite, WriteRow, table, locals
  <2>5. UnsetThenSet'
    BY <1>9 DEF Core, LockedRowsLive, TargetLive, UnsetThenSet, Set,
       PointWrite, WriteRow, Available, table, locals
  <2>6. ReadyToCommit'
    BY <1>9 DEF Core, OwnStatements, LockedRowsLive, TargetLive,
       ReadyToCommit, LiveOf, Set, PointWrite, WriteRow, Available, table,
       locals
  <2>7. SomeDefault'
    BY <1>9 DEF Core, SomeDefault, LiveOf, DefaultsOf, Set, PointWrite,
       WriteRow, table
  <2> QED
    BY <2>1, <2>2, <2>3, <2>4, <2>5, <2>6, <2>7 DEF Core
<1>10. ASSUME NEW t \in Request, Write(t) PROVE Core'
  <2>1. OwnStatements'
    BY <1>10 DEF Core, OwnStatements, Write, PointWrite, WriteRow, locals
  <2>2. FreshIds'
    BY <1>10 DEF Core, FreshIds, Write, PointWrite, WriteRow, table, locals
  <2>3. LockedRowsLive'
    BY <1>10 DEF Core, LockedRowsLive, Write, PointWrite, WriteRow, table,
       locals
  <2>4. TargetLive'
    BY <1>10 DEF Core, TargetLive, Write, PointWrite, WriteRow, table,
       locals
  <2>5. UnsetThenSet'
    BY <1>10 DEF Core, UnsetThenSet, Write, PointWrite, WriteRow, Available,
       table, locals
  <2>6. ReadyToCommit'
    BY <1>10 DEF Core, ReadyToCommit, LiveOf, Write, PointWrite, WriteRow,
       Available, table, locals
  <2>7. SomeDefault'
    BY <1>10 DEF Core, SomeDefault, LiveOf, DefaultsOf, Write, PointWrite,
       WriteRow, table
  <2> QED
    BY <2>1, <2>2, <2>3, <2>4, <2>5, <2>6, <2>7 DEF Core
<1>11. ASSUME NEW t \in Request, Reread(t) PROVE Core'
  <2>1. OwnStatements'
    BY <1>11 DEF Core, OwnStatements, Reread
  <2>2. FreshIds'
    BY <1>11 DEF Core, FreshIds, Reread, table
  <2>3. LockedRowsLive'
    BY <1>11 DEF Core, LockedRowsLive, Reread, table
  <2>4. TargetLive'
    BY <1>11 DEF Core, OwnStatements, TargetLive, Reread, table
  <2>5. UnsetThenSet'
    BY <1>11 DEF Core, UnsetThenSet, Reread, table
  <2>6. ReadyToCommit'
    BY <1>11 DEF Core, OwnStatements, ReadyToCommit, LiveOf, Reread, table
  <2>7. SomeDefault'
    BY <1>11 DEF Core, SomeDefault, LiveOf, DefaultsOf, Reread, table
  <2> QED
    BY <2>1, <2>2, <2>3, <2>4, <2>5, <2>6, <2>7 DEF Core
<1>12. ASSUME NEW t \in Request, Commit(t) PROVE Core'
  <2>1. OwnStatements'
    BY <1>12 DEF Core, OwnStatements, Commit, CommitRows, ReleaseLocks,
       Answer
  <2>2. FreshIds'
    BY <1>12 DEF Core, FreshIds, LockedRowsLive, Commit, CommitRows,
       ReleaseLocks, Answer
  <2>3. LockedRowsLive'
    BY <1>12 DEF Core, LockedRowsLive, Commit, CommitRows, ReleaseLocks,
       Answer
  <2>4. TargetLive'
    BY <1>12 DEF Core, LockedRowsLive, TargetLive, Commit, CommitRows,
       ReleaseLocks, Answer
  <2>5. UnsetThenSet'
    BY <1>12 DEF Core, UnsetThenSet, Commit, CommitRows, ReleaseLocks,
       Answer
  <2>6. ReadyToCommit'
    BY <1>12 DEF Core, LockedRowsLive, ReadyToCommit, LiveOf, Commit,
       CommitRows, ReleaseLocks, Answer
  <2>7. SomeDefault'
    BY <1>12, CommitKeepsSomeDefault
  <2> QED
    BY <2>1, <2>2, <2>3, <2>4, <2>5, <2>6, <2>7 DEF Core
<1>13. ASSUME NEW t \in Request, Rollback(t) PROVE Core'
  <2>1. OwnStatements'
    BY <1>13 DEF Core, OwnStatements, Rollback, RollbackRows, ReleaseLocks,
       Answer
  <2>2. FreshIds'
    BY <1>13 DEF Core, FreshIds, Rollback, RollbackRows, ReleaseLocks,
       Answer
  <2>3. LockedRowsLive'
    BY <1>13 DEF Core, LockedRowsLive, Rollback, RollbackRows, ReleaseLocks,
       Answer
  <2>4. TargetLive'
    BY <1>13 DEF Core, TargetLive, Rollback, RollbackRows, ReleaseLocks,
       Answer
  <2>5. UnsetThenSet'
    BY <1>13 DEF Core, UnsetThenSet, Rollback, RollbackRows, ReleaseLocks,
       Answer
  <2>6. ReadyToCommit'
    BY <1>13 DEF Core, ReadyToCommit, LiveOf, Rollback, RollbackRows,
       ReleaseLocks, Answer
  <2>7. SomeDefault'
    BY <1>13 DEF Core, SomeDefault, LiveOf, DefaultsOf, Rollback,
       RollbackRows, ReleaseLocks, Answer
  <2> QED
    BY <2>1, <2>2, <2>3, <2>4, <2>5, <2>6, <2>7 DEF Core
<1>14. ASSUME NEW t \in Request, DeadlockAbort(t) PROVE Core'
  <2>0. pc[t] \in {"unsetting", "set", "erase", "write"}
    BY <1>14, AbortedWaits
  <2>1. OwnStatements'
    BY <1>14 DEF Core, OwnStatements, DeadlockAbort
  <2>2. FreshIds'
    BY <1>14, <2>0 DEF Core, FreshIds, DeadlockAbort, table
  <2>3. LockedRowsLive'
    BY <1>14, <2>0 DEF Core, LockedRowsLive, DeadlockAbort, table
  <2>4. TargetLive'
    BY <1>14 DEF Core, TargetLive, DeadlockAbort, table
  <2>5. UnsetThenSet'
    BY <1>14 DEF Core, UnsetThenSet, DeadlockAbort, table
  <2>6. ReadyToCommit'
    BY <1>14 DEF Core, ReadyToCommit, LiveOf, DeadlockAbort, table
  <2>7. SomeDefault'
    BY <1>14 DEF Core, SomeDefault, LiveOf, DefaultsOf, DeadlockAbort, table
  <2> QED
    BY <2>1, <2>2, <2>3, <2>4, <2>5, <2>6, <2>7 DEF Core
<1>15. ASSUME NEW t \in Request, ConnectionLost(t) PROVE Core'
  <2>1. OwnStatements'
    BY <1>15 DEF Core, OwnStatements, ConnectionLost, CommitRows,
       RollbackRows, ReleaseLocks, Answer
  <2>2. FreshIds'
    BY <1>15 DEF Core, FreshIds, LockedRowsLive, ConnectionLost, CommitRows,
       RollbackRows, ReleaseLocks, Answer
  <2>3. LockedRowsLive'
    BY <1>15 DEF Core, LockedRowsLive, ConnectionLost, CommitRows,
       RollbackRows, ReleaseLocks, Answer
  <2>4. TargetLive'
    BY <1>15 DEF Core, LockedRowsLive, TargetLive, ConnectionLost,
       CommitRows, RollbackRows, ReleaseLocks, Answer
  <2>5. UnsetThenSet'
    BY <1>15 DEF Core, UnsetThenSet, ConnectionLost, CommitRows,
       RollbackRows, ReleaseLocks, Answer
  <2>6. ReadyToCommit'
    BY <1>15 DEF Core, LockedRowsLive, ReadyToCommit, LiveOf, ConnectionLost,
       CommitRows, RollbackRows, ReleaseLocks, Answer
  <2>7. SomeDefault'
    BY <1>15 DEF Core, LockedRowsLive, UnsetThenSet, ReadyToCommit,
       SomeDefault, LiveOf, DefaultsOf, ConnectionLost, CommitRows,
       RollbackRows, ReleaseLocks, Answer
  <2> QED
    BY <2>1, <2>2, <2>3, <2>4, <2>5, <2>6, <2>7 DEF Core
<1>16. ASSUME NEW u \in User, RemoveUser(u) PROVE Core'
  <2>1. OwnStatements'
    BY <1>16 DEF Core, OwnStatements, RemoveUser, locals
  <2>2. FreshIds'
    BY <1>16 DEF Core, FreshIds, RemoveUser, locals
  <2>3. LockedRowsLive'
    BY <1>16 DEF Core, LockedRowsLive, RemoveUser, locals
  <2>4. TargetLive'
    BY <1>16 DEF Core, TargetLive, RemoveUser, locals
  <2>5. UnsetThenSet'
    BY <1>16 DEF Core, UnsetThenSet, RemoveUser, locals
  <2>6. ReadyToCommit'
    BY <1>16 DEF Core, ReadyToCommit, LiveOf, RemoveUser, locals
  <2>7. SomeDefault'
    BY <1>16, RemoveUserKeepsSomeDefault
  <2> QED
    BY <2>1, <2>2, <2>3, <2>4, <2>5, <2>6, <2>7 DEF Core
<1>17. ASSUME NEW t \in Request, Erase(t) PROVE FALSE
  BY <1>17 DEF Erase, Core, OwnStatements
<1>18. CASE UNCHANGED vars
  BY <1>18 DEF vars, table, locals, Core, OwnStatements, FreshIds, LockedRowsLive,
     TargetLive, UnsetThenSet, ReadyToCommit, SomeDefault, LiveOf, DefaultsOf
<1> QED
  BY <1>1, <1>2, <1>3, <1>4, <1>5, <1>6, <1>7, <1>8, <1>9,
     <1>10, <1>11, <1>12, <1>13, <1>14, <1>15, <1>16, <1>17, <1>18 DEF Next, Advance

(* As long as nobody deletes an address, a request that unsets a default   *)
(* is on its way to set another one, and holds it when it commits.         *)
THEOREM Invariance ==
  ASSUME "delete" \notin Ops
  PROVE  Spec => []AddressInv
<1>1. Init => Core
  BY DEF Init, Core, OwnStatements, FreshIds, LockedRowsLive, TargetLive, UnsetThenSet,
     ReadyToCommit, SomeDefault, Running, Active, Live, LiveOf, AddressesOf
<1>2. TypeOK /\ TypeOK' /\ Core /\ [Next]_vars => Core'
  BY InductiveStep
<1>3. TypeOK /\ Core => AddressInv
  BY DEF Core, AddressInv
<1> QED
  BY <1>1, <1>2, <1>3, TypeCorrect, PTL DEF Spec

(* Whatever the order of requests, crashes of connections and removals of  *)
(* users, a user with addresses has a default one, if no request deletes   *)
(* an address.                                                             *)
THEOREM SomeDefaultHolds ==
  ASSUME "delete" \notin Ops
  PROVE  Spec => []SomeDefault
<1>1. AddressInv => SomeDefault
  BY DEF AddressInv
<1> QED
  BY <1>1, Invariance, PTL

(* And a setDefaultAddress that reports success has made its address a     *)
(* default.                                                                *)
THEOREM SetDefaultHolds ==
  ASSUME "delete" \notin Ops
  PROVE  Spec => SetDefaultTakesEffect
<1> DEFINE Step ==
      \A t \in Request :
          (/\ op[t] = "setDefault" /\ pc[t] # "idle"
           /\ pc'[t] = "idle" /\ result'[t] = "ok")
          => db'[arg[t]] = "default" \/ TargetUser(t) \notin users
<1>1. AddressInv /\ [Next]_vars => [Step]_vars
  <2> SUFFICES ASSUME TypeOK, Core, [Next]_vars,
                      NEW t \in Request, op[t] = "setDefault", pc[t] # "idle",
                      pc'[t] = "idle", result'[t] = "ok"
               PROVE  db'[arg[t]] = "default" \/ TargetUser(t) \notin users
    BY DEF Core, AddressInv
  <2> USE DEF TypeOK, Goto, Throw
  <2>1. ASSUME NEW s \in Request, NEW c \in Ops, NEW a \in Row, NEW w \in BOOLEAN,
               Start(s, c, a, w)
        PROVE  FALSE
    BY <2>1 DEF Start
  <2>2. ASSUME NEW s \in Request, Commit(s)
        PROVE  db'[arg[t]] = "default" \/ TargetUser(t) \notin users
    <3>1. s = t
      BY <2>2 DEF Commit, Answer
    <3>2. \/ owner[arg[t]] = t /\ dirty[arg[t]] = "default"
          \/ TargetUser(t) \notin users
      BY <2>2, <3>1 DEF Core, ReadyToCommit, Running, Commit
    <3> QED
      BY <2>2, <3>1, <3>2 DEF Commit, CommitRows
  <2>3. ASSUME NEW s \in Request, Rollback(s) PROVE FALSE
    BY <2>3 DEF Rollback, Answer, Core, OwnStatements
  <2>4. ASSUME NEW s \in Request, ConnectionLost(s) PROVE FALSE
    BY <2>4 DEF ConnectionLost, Answer
  <2>5. CASE UNCHANGED pc
    BY <2>5
  <2>6. ASSUME NEW s \in Request, NEW l \in PCs \ {"idle"}, Goto(s, l) PROVE FALSE
    BY <2>6
  <2>7. ASSUME NEW s \in Request, Advance(s), ~ Commit(s), ~ Rollback(s)
        PROVE  pc' = pc \/ \E l \in PCs \ {"idle"} : Goto(s, l)
    BY <2>7 DEF Advance, FindDefault, FindAll, Insert, Unset, UnsetRow, UnsetDone,
         Find, Set, Erase, Write, Reread, DeadlockAbort, PCs, Statements
  <2> QED
    BY <2>1, <2>2, <2>3, <2>4, <2>5, <2>6, <2>7 DEF Next, RemoveUser, vars
<1> QED
  BY <1>1, Invariance, PTL DEF Spec, SetDefaultTakesEffect
=============================================================================
