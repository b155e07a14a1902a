----------------------- MODULE MigrationService_proofs -----------------------
(***************************************************************************)
(* Proofs about MigrationService: its type invariant, that no migration is *)
(* run twice, and that a replica serves what it has migrated, for any      *)
(* number of replicas, releases, schemas and sessions.                     *)
(***************************************************************************)
EXTENDS MigrationService, TLAPS

USE ShipsAssumption, SchemaCountAssumption, LockKeyAssumption, NoSessionAssumption

(* A replica at work is at one of the schemas, and uses that schema's key. *)
LEMMA AtWork ==
  ASSUME TypeOK, NEW p \in Replica, pc[p] \notin {"down", "serving"}
  PROVE  at[p] \in SchemaIndex /\ Key(p) \in Keys
BY DEF TypeOK, Key, Keys

(* What the commit of the pending migrations does, schema by schema.       *)
LEMMA RunsAfter ==
  ASSUME TypeOK, NEW p \in Replica, at[p] \in SchemaIndex, ApplyPending(p)
  PROVE  /\ runs' \in [SchemaIndex -> [Migration -> Nat]]
         /\ \A i \in SchemaIndex : i # at[p] => runs'[i] = runs[i]
         /\ \A m \in Migration :
               runs'[at[p]][m] = IF m \in pending[p] THEN runs[at[p]][m] + 1
                                                    ELSE runs[at[p]][m]
<1>1. runs' = [runs EXCEPT ![at[p]] = [m \in Migration |->
                  IF m \in pending[p] THEN runs[at[p]][m] + 1 ELSE runs[at[p]][m]]]
  BY DEF ApplyPending
<1>2. [m \in Migration |-> IF m \in pending[p] THEN runs[at[p]][m] + 1
                                               ELSE runs[at[p]][m]] \in [Migration -> Nat]
  BY DEF TypeOK
<1> QED
  BY <1>1, <1>2 DEF TypeOK

(* Nothing is ever taken back from the migrations table.                   *)
LEMMA ExecutedGrows ==
  ASSUME TypeOK, NEW p \in Replica, at[p] \in SchemaIndex,
         UNCHANGED runs \/ ApplyPending(p)
  PROVE  \A i \in SchemaIndex : Executed(i) \subseteq Executed(i)'
<1>1. CASE UNCHANGED runs
  BY <1>1 DEF Executed
<1>2. CASE ApplyPending(p)
  <2> SUFFICES ASSUME NEW i \in SchemaIndex, NEW m \in Migration, runs[i][m] > 0
               PROVE  runs'[i][m] > 0
    BY DEF Executed
  <2>1. CASE i = at[p]
    BY <2>1, <1>2, RunsAfter DEF TypeOK
  <2>2. CASE i # at[p]
    BY <2>2, <1>2, RunsAfter
  <2> QED
    BY <2>1, <2>2
<1> QED
  BY <1>1, <1>2

(* A commit runs nothing that was run before, provided that what had been  *)
(* read still holds.                                                       *)
LEMMA AppliedOnceKept ==
  ASSUME TypeOK, NEW p \in Replica, at[p] \in SchemaIndex, ApplyPending(p),
         pending[p] = Ships[p] \ Executed(at[p])
  PROVE  /\ AppliedOnce => AppliedOnce'
         /\ \A i \in SchemaIndex : i = at[p] => Ships[p] \subseteq Executed(i)'
<1>1. ASSUME NEW m \in Migration
      PROVE  /\ m \in pending[p] => runs[at[p]][m] = 0
             /\ m \in Ships[p] => runs'[at[p]][m] > 0
  <2>1. runs[at[p]][m] \in Nat
    BY DEF TypeOK
  <2> QED
    BY <2>1, RunsAfter DEF Executed
<1>2. AppliedOnce => AppliedOnce'
  <2> SUFFICES ASSUME AppliedOnce, NEW i \in SchemaIndex, NEW m \in Migration
               PROVE  runs'[i][m] <= 1
    BY DEF AppliedOnce
  <2>1. CASE i = at[p]
    BY <2>1, <1>1, RunsAfter DEF TypeOK, AppliedOnce
  <2>2. CASE i # at[p]
    BY <2>2, RunsAfter DEF AppliedOnce
  <2> QED
    BY <2>1, <2>2
<1>3. ASSUME NEW i \in SchemaIndex, i = at[p]
      PROVE  Ships[p] \subseteq Executed(i)'
  BY <1>1, <1>3 DEF Executed
<1> QED
  BY <1>2, <1>3

(* When a session ends the locks of the others stay.                       *)
LEMMA LocksAfter ==
  ASSUME TypeOK, NEW s, EndSession(s)
  PROVE  /\ lock' \in [Keys -> Session \cup {NoSession}]
         /\ \A k \in Keys : lock'[k] = IF lock[k] = s THEN NoSession ELSE lock[k]
BY DEF TypeOK, EndSession

LEMMA InitTypes == Init => TypeOK
BY DEF Init, TypeOK, PCs, SchemaIndex

(* Every variable keeps its type.                                          *)
THEOREM TypeCorrect == Spec => []TypeOK
<1> USE DEF TypeOK, PCs, Goto
<1>1. Init => TypeOK
  BY InitTypes
<1>2. TypeOK /\ [Next]_vars => TypeOK'
  <2> SUFFICES ASSUME TypeOK, [Next]_vars PROVE TypeOK'
    OBVIOUS
  <2> USE DEF locals, vars
  <2>1. ASSUME NEW p \in Replica, Start(p) PROVE TypeOK'
    BY <2>1 DEF Start, FirstSchema, SchemaIndex
  <2>2. ASSUME NEW p \in Replica, Initialize(p) PROVE TypeOK'
    BY <2>2 DEF Initialize
  <2>3. ASSUME NEW p \in Replica, AcquireAdvisoryLock(p) PROVE TypeOK'
    <3>1. at[p] \in SchemaIndex /\ Key(p) \in Keys /\ session[p] \in Session \cup {NoSession}
      BY <2>3, AtWork DEF AcquireAdvisoryLock
    <3>2. skipped' \in [Replica -> SUBSET SchemaIndex]
      BY <2>3, <3>1 DEF AcquireAdvisoryLock
    <3>3. lock' \in [Keys -> Session \cup {NoSession}]
      BY <2>3, <3>1 DEF AcquireAdvisoryLock
    <3> QED
      BY <2>3, <3>2, <3>3 DEF AcquireAdvisoryLock
  <2>4. ASSUME NEW p \in Replica, LoadExecuted(p) PROVE TypeOK'
    BY <2>4 DEF LoadExecuted
  <2>5. ASSUME NEW p \in Replica, RunMigrations(p) PROVE TypeOK'
    <3>1. at[p] \in SchemaIndex /\ runs' \in [SchemaIndex -> [Migration -> Nat]]
      BY <2>5, AtWork, RunsAfter DEF RunMigrations
    <3> QED
      BY <2>5, <3>1 DEF RunMigrations
  <2>6. ASSUME NEW p \in Replica, StatementFails(p) PROVE TypeOK'
    <3>1. at[p] \in SchemaIndex /\ runs' \in [SchemaIndex -> [Migration -> Nat]]
      BY <2>6, AtWork, RunsAfter DEF StatementFails
    <3>2. lock' \in [Keys -> Session \cup {NoSession}]
      BY <2>6, LocksAfter DEF StatementFails
    <3> QED
      BY <2>6, <3>1, <3>2 DEF StatementFails
  <2>7. ASSUME NEW p \in Replica, ReleaseAdvisoryLock(p) PROVE TypeOK'
    BY <2>7 DEF ReleaseAdvisoryLock
  <2>8. ASSUME NEW p \in Replica, Destroy(p) PROVE TypeOK'
    <3>1. at[p] \in SchemaIndex
      BY <2>8, AtWork DEF Destroy, FirstSchema
    <3>2. lock' \in [Keys -> Session \cup {NoSession}]
      BY <2>8, LocksAfter DEF Destroy, FirstSchema
    <3>3. at' \in [Replica -> Nat] /\ (pc'[p] \notin {"down", "serving"} => at'[p] \in SchemaIndex)
      <4>1. 1 \in SchemaIndex
        BY <3>1, SchemaCountAssumption DEF SchemaIndex
      <4>2. CASE failed[p]
        BY <2>8, <4>1, <4>2 DEF Destroy, FirstSchema
      <4>3. CASE ~ failed[p]
        BY <2>8, <3>1, <4>3, SchemaCountAssumption DEF Destroy, SchemaIndex
      <4> QED
        BY <4>2, <4>3
    <3>4. \A q \in Replica \ {p} : pc'[q] = pc[q] /\ at'[q] = at[q]
      BY <2>8 DEF Destroy, FirstSchema
    <3> QED
      BY <2>8, <3>2, <3>3, <3>4 DEF Destroy, FirstSchema
  <2>9. ASSUME NEW p \in Replica, Crash(p) PROVE TypeOK'
    <3>1. runs' \in [SchemaIndex -> [Migration -> Nat]]
      BY <2>9, AtWork, RunsAfter DEF Crash, FirstSchema
    <3> QED
      BY <2>9, <3>1 DEF Crash, FirstSchema
  <2>10. ASSUME NEW s \in Session, Reap(s) PROVE TypeOK'
    BY <2>10 DEF Reap, EndSession
  <2>11. CASE UNCHANGED vars
    BY <2>11
  <2> QED
    BY <2>1, <2>2, <2>3, <2>4, <2>5, <2>6, <2>7, <2>8, <2>9, <2>10, <2>11 DEF
       Next, Bootstrap
<1> QED
  BY <1>1, <1>2, PTL DEF Spec

(* Two replicas never migrate one schema at the same time.                 *)
LEMMA MigratorsApart ==
  ASSUME TypeOK, MigrationInv, NEW p \in Replica, NEW q \in Replica, p # q,
         pc[p] \in {"load", "migrate"}, pc[q] \in {"load", "migrate"}
  PROVE  at[p] # at[q]
<1>1. session[p] # session[q] /\ lock[Key(p)] = session[p] /\ lock[Key(q)] = session[q]
  BY DEF MigrationInv, SessionsApart, MigratorHoldsLock
<1> QED
  BY <1>1 DEF Key

(* Every step preserves the inductive invariant.                           *)
LEMMA InductiveStep ==
  ASSUME TypeOK, TypeOK', MigrationInv, [Next]_vars
  PROVE  MigrationInv'
<1> USE DEF TypeOK, PCs, Goto, locals, vars
<1>0. \A q \in Replica : pc[q] \in {"load", "migrate"} =>
         /\ at[q] \in SchemaIndex /\ Key(q) \in Keys
         /\ session[q] # NoSession /\ lock[Key(q)] = session[q]
  BY AtWork DEF MigrationInv, SessionsApart, MigratorHoldsLock
<1>1. ASSUME NEW p \in Replica, Start(p) PROVE MigrationInv'
  <2>1. SessionsApart'
    BY <1>1 DEF Start, FirstSchema, SessionsApart, InUse, MigrationInv
  <2>2. MigratorHoldsLock'
    BY <1>1 DEF Start, FirstSchema, SessionsApart, MigratorHoldsLock, InUse, Key, MigrationInv
  <2>3. PendingNotRun'
    BY <1>1 DEF Start, FirstSchema, PendingNotRun, MigratorHoldsLock, SessionsApart, Key,
       Executed, MigrationInv
  <2>4. MigratedSoFar'
    BY <1>1 DEF Start, FirstSchema, MigratedSoFar, SeenTo, Executed, PendingNotRun, MigrationInv, SchemaIndex
  <2>5. AppliedOnce'
    BY <1>1 DEF Start, FirstSchema, AppliedOnce, PendingNotRun, Executed, MigrationInv
  <2> QED
    BY <2>1, <2>2, <2>3, <2>4, <2>5 DEF MigrationInv
<1>2. ASSUME NEW p \in Replica, Initialize(p) PROVE MigrationInv'
  <2>1. SessionsApart'
    BY <1>2 DEF Initialize, SessionsApart, InUse, MigrationInv
  <2>2. MigratorHoldsLock'
    BY <1>2 DEF Initialize, SessionsApart, MigratorHoldsLock, InUse, Key, MigrationInv
  <2>3. PendingNotRun'
    BY <1>2 DEF Initialize, PendingNotRun, MigratorHoldsLock, SessionsApart, Key,
       Executed, MigrationInv
  <2>4. MigratedSoFar'
    BY <1>2 DEF Initialize, MigratedSoFar, SeenTo, Executed, PendingNotRun, MigrationInv
  <2>5. AppliedOnce'
    BY <1>2 DEF Initialize, AppliedOnce, PendingNotRun, Executed, MigrationInv
  <2> QED
    BY <2>1, <2>2, <2>3, <2>4, <2>5 DEF MigrationInv
<1>3. ASSUME NEW p \in Replica, AcquireAdvisoryLock(p) PROVE MigrationInv'
  <2>1. SessionsApart'
    BY <1>3 DEF AcquireAdvisoryLock, SessionsApart, InUse, MigrationInv
  <2>2. MigratorHoldsLock'
    <3> SUFFICES ASSUME NEW q \in Replica, pc'[q] \in {"load", "migrate"}
                 PROVE  lock'[LockKey[at'[q]]] = session'[q]
      BY DEF MigratorHoldsLock, Key
    <3>1. at' = at /\ session' = session
      BY <1>3 DEF AcquireAdvisoryLock
    <3>2. CASE q = p
      <4>1. Key(p) \in Keys
        BY <1>3, AtWork DEF AcquireAdvisoryLock
      <4> QED
        BY <1>3, <3>1, <3>2, <4>1 DEF AcquireAdvisoryLock, Key
    <3>3. CASE q # p
      <4>1. pc[q] = pc'[q]
        BY <1>3, <3>3 DEF AcquireAdvisoryLock
      <4>2. lock[Key(q)] = session[q] /\ Key(q) \in Keys /\ lock[Key(q)] # NoSession
        BY <1>0, <4>1
      <4>3. lock'[Key(q)] = lock[Key(q)]
        BY <1>3, <4>2 DEF AcquireAdvisoryLock
      <4> QED
        BY <3>1, <4>2, <4>3 DEF Key
    <3> QED
      BY <3>2, <3>3
  <2>3. PendingNotRun'
    BY <1>3 DEF AcquireAdvisoryLock, PendingNotRun, MigratorHoldsLock,
       SessionsApart, Key, Executed, MigrationInv
  <2>4. MigratedSoFar'
    <3>1. ASSUME NEW q \in Replica
          PROVE  SeenTo(q)' \ skipped'[q] \subseteq SeenTo(q) \ skipped[q]
      BY <1>3, AtWork DEF AcquireAdvisoryLock, SeenTo, SchemaIndex
    <3>2. UNCHANGED runs
      BY <1>3 DEF AcquireAdvisoryLock
    <3> QED
      BY <3>1, <3>2 DEF MigrationInv, MigratedSoFar, Executed
  <2>5. AppliedOnce'
    BY <1>3 DEF AcquireAdvisoryLock, AppliedOnce, PendingNotRun, Executed, MigrationInv
  <2> QED
    BY <2>1, <2>2, <2>3, <2>4, <2>5 DEF MigrationInv
<1>4. ASSUME NEW p \in Replica, LoadExecuted(p) PROVE MigrationInv'
  <2>1. SessionsApart'
    BY <1>4 DEF LoadExecuted, SessionsApart, InUse, MigrationInv
  <2>2. MigratorHoldsLock'
    BY <1>4 DEF LoadExecuted, SessionsApart, MigratorHoldsLock, InUse, Key, MigrationInv
  <2>3. PendingNotRun'
    BY <1>4 DEF LoadExecuted, PendingNotRun, MigratorHoldsLock, SessionsApart,
       Key, Executed, MigrationInv
  <2>4. MigratedSoFar'
    BY <1>4 DEF LoadExecuted, MigratedSoFar, SeenTo, Executed, PendingNotRun, MigrationInv
  <2>5. AppliedOnce'
    BY <1>4 DEF LoadExecuted, AppliedOnce, PendingNotRun, Executed, MigrationInv
  <2> QED
    BY <2>1, <2>2, <2>3, <2>4, <2>5 DEF MigrationInv
<1>5. ASSUME NEW p \in Replica, RunMigrations(p) PROVE MigrationInv'
  <2>1. SessionsApart'
    BY <1>5 DEF RunMigrations, SessionsApart, InUse, ApplyPending, MigrationInv
  <2>2. MigratorHoldsLock'
    BY <1>5 DEF RunMigrations, SessionsApart, MigratorHoldsLock, InUse, Key,
       ApplyPending, MigrationInv
  <2>3. PendingNotRun'
    BY <1>5, SMTT(30) DEF RunMigrations, PendingNotRun, MigratorHoldsLock, SessionsApart,
       Key, Executed, ApplyPending, MigrationInv
  <2>4. MigratedSoFar'
    BY <1>5 DEF RunMigrations, MigratedSoFar, SeenTo, Executed, PendingNotRun,
       ApplyPending, MigrationInv, SchemaIndex
  <2>5. AppliedOnce'
    BY <1>5 DEF RunMigrations, AppliedOnce, PendingNotRun, Executed, ApplyPending, MigrationInv
  <2> QED
    BY <2>1, <2>2, <2>3, <2>4, <2>5 DEF MigrationInv
<1>6. ASSUME NEW p \in Replica, StatementFails(p) PROVE MigrationInv'
  <2>1. SessionsApart'
    BY <1>6 DEF StatementFails, SessionsApart, InUse, ApplyPending, EndSession, MigrationInv
  <2>2. MigratorHoldsLock'
    <3> SUFFICES ASSUME NEW q \in Replica, pc'[q] \in {"load", "migrate"}
                 PROVE  lock'[LockKey[at'[q]]] = session'[q]
      BY DEF MigratorHoldsLock, Key
    <3>1. q # p /\ pc[q] = pc'[q] /\ at'[q] = at[q] /\ session'[q] = session[q]
      BY <1>6 DEF StatementFails
    <3>2. lock[Key(q)] = session[q] /\ Key(q) \in Keys /\ session[q] # session[p]
      BY <1>0, <3>1 DEF MigrationInv, SessionsApart
    <3>3. lock'[Key(q)] = lock[Key(q)]
      BY <1>6, <3>2, LocksAfter DEF StatementFails
    <3> QED
      BY <3>1, <3>2, <3>3 DEF Key
  <2>3. PendingNotRun'
    <3> SUFFICES ASSUME NEW q \in Replica, pc'[q] = "migrate"
                 PROVE  pending'[q] = Ships[q] \ Executed(at[q])' /\ at'[q] = at[q]
      BY DEF PendingNotRun, Executed
    <3>1. q # p /\ pc[q] = "migrate" /\ at' = at /\ pending'[q] = pending[q]
      BY <1>6 DEF StatementFails
    <3>2. at[q] \in SchemaIndex
      BY <1>0, <3>1
    <3>3. runs'[at[q]] = runs[at[q]]
      BY <1>6, <3>1, <3>2, MigratorsApart, RunsAfter, AtWork DEF StatementFails
    <3>4. pending[q] = Ships[q] \ Executed(at[q])
      BY <3>1 DEF MigrationInv, PendingNotRun
    <3> QED
      BY <3>1, <3>3, <3>4 DEF Executed
  <2>4. MigratedSoFar'
    <3>1. \A i \in SchemaIndex : Executed(i) \subseteq Executed(i)'
      BY <1>6, AtWork, ExecutedGrows DEF StatementFails
    <3>2. ASSUME NEW q \in Replica
          PROVE  SeenTo(q)' \subseteq SeenTo(q) /\ skipped'[q] = skipped[q]
      BY <1>6 DEF StatementFails, SeenTo
    <3>3. ASSUME NEW q \in Replica, NEW i \in SeenTo(q)' \ skipped'[q]
          PROVE  i \in SchemaIndex /\ Ships[q] \subseteq Executed(i)
      BY <3>2, <3>3 DEF SeenTo, MigrationInv, MigratedSoFar
    <3> QED
      BY <3>1, <3>3 DEF MigratedSoFar
  <2>5. AppliedOnce'
    <3>1. CASE UNCHANGED runs
      BY <3>1 DEF MigrationInv, AppliedOnce
    <3>2. CASE pc[p] = "migrate" /\ ApplyPending(p)
      BY <3>2, AtWork, AppliedOnceKept DEF MigrationInv, PendingNotRun
    <3> QED
      BY <1>6, <3>1, <3>2 DEF StatementFails
  <2> QED
    BY <2>1, <2>2, <2>3, <2>4, <2>5 DEF MigrationInv
<1>7. ASSUME NEW p \in Replica, ReleaseAdvisoryLock(p) PROVE MigrationInv'
  <2>1. SessionsApart'
    <3>1. \A k \in Keys : lock'[k] \in {lock[k], NoSession}
      BY <1>7, AtWork DEF ReleaseAdvisoryLock
    <3>2. \A q \in Replica : pc'[q] = pc[q] \/ pc'[q] = "destroy"
      BY <1>7 DEF ReleaseAdvisoryLock
    <3>3. UNCHANGED <<session, orphans>>
      BY <1>7 DEF ReleaseAdvisoryLock
    <3> QED
      BY <3>1, <3>2, <3>3 DEF SessionsApart, InUse, MigrationInv
  <2>2. MigratorHoldsLock'
    <3> SUFFICES ASSUME NEW q \in Replica, pc'[q] \in {"load", "migrate"}
                 PROVE  lock'[LockKey[at'[q]]] = session'[q]
      BY DEF MigratorHoldsLock, Key
    <3>1. q # p /\ pc[q] = pc'[q] /\ at'[q] = at[q] /\ session'[q] = session[q]
      BY <1>7 DEF ReleaseAdvisoryLock
    <3>2. lock[Key(q)] = session[q] /\ Key(q) \in Keys /\ session[q] # session[p]
      BY <1>0, <3>1 DEF MigrationInv, SessionsApart
    <3>3. lock'[Key(q)] = lock[Key(q)]
      BY <1>7, <3>2 DEF ReleaseAdvisoryLock
    <3> QED
      BY <3>1, <3>2, <3>3 DEF Key
  <2>3. PendingNotRun'
    BY <1>7 DEF ReleaseAdvisoryLock, PendingNotRun, MigratorHoldsLock,
       SessionsApart, Key, Executed, MigrationInv
  <2>4. MigratedSoFar'
    BY <1>7 DEF ReleaseAdvisoryLock, MigratedSoFar, SeenTo, Executed,
       PendingNotRun, MigrationInv
  <2>5. AppliedOnce'
    BY <1>7 DEF ReleaseAdvisoryLock, AppliedOnce, PendingNotRun, Executed, MigrationInv
  <2> QED
    BY <2>1, <2>2, <2>3, <2>4, <2>5 DEF MigrationInv
<1>8. ASSUME NEW p \in Replica, Destroy(p) PROVE MigrationInv'
  <2>1. SessionsApart'
    BY <1>8 DEF Destroy, FirstSchema, SessionsApart, InUse, EndSession, MigrationInv
  <2>2. MigratorHoldsLock'
    <3> SUFFICES ASSUME NEW q \in Replica, pc'[q] \in {"load", "migrate"}
                 PROVE  lock'[LockKey[at'[q]]] = session'[q]
      BY DEF MigratorHoldsLock, Key
    <3>1. q # p /\ pc[q] = pc'[q] /\ at'[q] = at[q] /\ session'[q] = session[q]
      BY <1>8 DEF Destroy, FirstSchema
    <3>2. lock[Key(q)] = session[q] /\ Key(q) \in Keys /\ session[q] # session[p]
      BY <1>0, <3>1 DEF MigrationInv, SessionsApart
    <3>3. lock'[Key(q)] = lock[Key(q)]
      BY <1>8, <3>2, LocksAfter DEF Destroy, FirstSchema
    <3> QED
      BY <3>1, <3>2, <3>3 DEF Key
  <2>3. PendingNotRun'
    BY <1>8 DEF Destroy, FirstSchema, PendingNotRun, MigratorHoldsLock, SessionsApart, Key,
       Executed, EndSession, MigrationInv
  <2>4. MigratedSoFar'
    BY <1>8 DEF Destroy, FirstSchema, MigratedSoFar, SeenTo, Executed, PendingNotRun,
       EndSession, MigrationInv, SchemaIndex
  <2>5. AppliedOnce'
    BY <1>8 DEF Destroy, FirstSchema, AppliedOnce, PendingNotRun, Executed, EndSession, MigrationInv
  <2> QED
    BY <2>1, <2>2, <2>3, <2>4, <2>5 DEF MigrationInv
<1>9. ASSUME NEW p \in Replica, Crash(p) PROVE MigrationInv'
  <2>1. SessionsApart'
    BY <1>9 DEF Crash, FirstSchema, SessionsApart, InUse, ApplyPending, MigrationInv
  <2>2. MigratorHoldsLock'
    BY <1>9 DEF Crash, FirstSchema, SessionsApart, MigratorHoldsLock, InUse, Key, ApplyPending, MigrationInv
  <2>3. PendingNotRun'
    <3> SUFFICES ASSUME NEW q \in Replica, pc'[q] = "migrate"
                 PROVE  pending'[q] = Ships[q] \ Executed(at[q])' /\ at'[q] = at[q]
      BY DEF PendingNotRun, Executed
    <3>1. q # p /\ pc[q] = "migrate" /\ at'[q] = at[q] /\ pending'[q] = pending[q]
      BY <1>9 DEF Crash, FirstSchema
    <3>2. at[q] \in SchemaIndex
      BY <1>0, <3>1
    <3>3. runs'[at[q]] = runs[at[q]]
      BY <1>9, <3>1, <3>2, MigratorsApart, RunsAfter, AtWork, SMTT(30) DEF Crash, FirstSchema
    <3>4. pending[q] = Ships[q] \ Executed(at[q])
      BY <3>1 DEF MigrationInv, PendingNotRun
    <3> QED
      BY <3>1, <3>3, <3>4 DEF Executed
  <2>4. MigratedSoFar'
    <3>1. \A i \in SchemaIndex : Executed(i) \subseteq Executed(i)'
      <4>1. CASE UNCHANGED runs
        BY <4>1 DEF Executed
      <4>2. CASE pc[p] = "migrate" /\ ApplyPending(p)
        BY <4>2, AtWork, ExecutedGrows
      <4> QED
        BY <1>9, <4>1, <4>2 DEF Crash, FirstSchema
    <3>2. ASSUME NEW q \in Replica
          PROVE  \/ SeenTo(q)' = {}
                 \/ SeenTo(q)' \subseteq SeenTo(q) /\ skipped'[q] = skipped[q]
      BY <1>9 DEF Crash, FirstSchema, SeenTo
    <3>3. ASSUME NEW q \in Replica, NEW i \in SeenTo(q)' \ skipped'[q]
          PROVE  i \in SchemaIndex /\ Ships[q] \subseteq Executed(i)
      BY <3>2, <3>3 DEF SeenTo, MigrationInv, MigratedSoFar
    <3> QED
      BY <3>1, <3>3 DEF MigratedSoFar
  <2>5. AppliedOnce'
    <3>1. CASE UNCHANGED runs
      BY <3>1 DEF MigrationInv, AppliedOnce
    <3>2. CASE pc[p] = "migrate" /\ ApplyPending(p)
      BY <3>2, AtWork, AppliedOnceKept DEF MigrationInv, PendingNotRun
    <3> QED
      BY <1>9, <3>1, <3>2 DEF Crash, FirstSchema
  <2> QED
    BY <2>1, <2>2, <2>3, <2>4, <2>5 DEF MigrationInv
<1>10. ASSUME NEW s \in Session, Reap(s) PROVE MigrationInv'
  <2>1. SessionsApart'
    BY <1>10 DEF Reap, SessionsApart, InUse, EndSession, MigrationInv
  <2>2. MigratorHoldsLock'
    <3> SUFFICES ASSUME NEW q \in Replica, pc[q] \in {"load", "migrate"}
                 PROVE  lock'[Key(q)] = session[q]
      BY <1>10 DEF Reap, MigratorHoldsLock, Key
    <3>1. lock[Key(q)] = session[q] /\ Key(q) \in Keys
      BY <1>0
    <3>2. session[q] # s
      BY <1>10 DEF Reap, MigrationInv, SessionsApart
    <3> QED
      BY <1>10, <3>1, <3>2, LocksAfter DEF Reap
  <2>3. PendingNotRun'
    BY <1>10 DEF Reap, PendingNotRun, MigratorHoldsLock, SessionsApart, Key,
       Executed, EndSession, MigrationInv
  <2>4. MigratedSoFar'
    BY <1>10 DEF Reap, MigratedSoFar, SeenTo, Executed, PendingNotRun, EndSession, MigrationInv
  <2>5. AppliedOnce'
    BY <1>10 DEF Reap, AppliedOnce, PendingNotRun, Executed, EndSession, MigrationInv
  <2> QED
    BY <2>1, <2>2, <2>3, <2>4, <2>5 DEF MigrationInv
<1>11. CASE UNCHANGED vars
  BY <1>11 DEF MigrationInv, SessionsApart, MigratorHoldsLock, PendingNotRun, MigratedSoFar,
     SeenTo,
     AppliedOnce, InUse, Key, Executed
<1> QED
  BY <1>1, <1>2, <1>3, <1>4, <1>5, <1>6, <1>7, <1>8, <1>9, <1>10, <1>11 DEF Next,
     Bootstrap

(* The invariant that ties locks, sessions and what was read before the    *)
(* transaction together, in every reachable state.                         *)
THEOREM Invariance == Spec => []MigrationInv
<1>1. Init => MigrationInv
  BY InitTypes DEF Init, MigrationInv, SessionsApart, MigratorHoldsLock, PendingNotRun, MigratedSoFar,
     SeenTo, AppliedOnce, InUse, Keys
<1>2. TypeOK /\ TypeOK' /\ MigrationInv /\ [Next]_vars => MigrationInv'
  BY InductiveStep
<1> QED
  BY <1>1, <1>2, TypeCorrect, PTL DEF Spec

(* No migration is run twice on a schema.                                  *)
THEOREM AppliedOnceHolds == Spec => []AppliedOnce
<1>1. MigrationInv => AppliedOnce
  BY DEF MigrationInv
<1> QED
  BY <1>1, Invariance, PTL

(* A replica that serves has migrated every schema it did not skip.        *)
THEOREM ServesHolds == Spec => []ServesWhatItMigrated
<1>1. MigrationInv => ServesWhatItMigrated
  BY DEF MigrationInv, MigratedSoFar, SeenTo, ServesWhatItMigrated
<1> QED
  BY <1>1, Invariance, PTL
=============================================================================
