--------------------------- MODULE MigrationService ---------------------------
(***************************************************************************)
(* bootstrap (main.ts) and MigrationService: every replica of the service, *)
(* before it listens, goes through the tenants' schemas one by one and     *)
(* runs the pending migrations of each under an advisory lock that it      *)
(* tries to take but does not wait for.  Replicas start, crash and are     *)
(* restarted at any time, and may ship different releases.                 *)
(*                                                                         *)
(* Locks belong to server sessions.  A data source that is used by one     *)
(* caller at a time has one session; the session of a replica that died    *)
(* lives on until the server notices.                                      *)
(***************************************************************************)
EXTENDS Naturals

CONSTANTS
    Replica,
    Migration,
    Ships,      \* Ships[p]: the migrations in the release that p runs
    SchemaCount,\* the configured tenant schemas are numbered from 1
    LockKey,    \* LockKey[i]: generateLockKey of schema i, a 32-bit hash
    Session,    \* the sessions that the server admits
    NoSession

SchemaIndex == 1..SchemaCount
Keys == {LockKey[i] : i \in SchemaIndex}

ASSUME ShipsAssumption == Ships \in [Replica -> SUBSET Migration]
ASSUME SchemaCountAssumption == SchemaCount \in Nat
ASSUME LockKeyAssumption == DOMAIN LockKey = SchemaIndex
ASSUME NoSessionAssumption == NoSession \notin Session

VARIABLES
    pc,         \* pc[p]: where the bootstrap of p is
    at,         \* at[p]: the index of the schema it is busy with
    session,    \* session[p]: the session of its data source
    pending,    \* pending[p]: what it found not to be executed yet
    failed,     \* failed[p]: has runMigrationsOnDatabase caught an error?
    skipped,    \* skipped[p]: the schemas it left alone for want of the lock
    orphans,    \* the sessions of replicas that died
    lock,       \* lock[k]: the session that holds advisory lock k
    runs        \* runs[i][m]: how often migration m was run on schema i

locals == <<at, pending, failed, skipped>>
vars == <<pc, session, locals, orphans, lock, runs>>

PCs == {"down", "initialize", "lock", "load", "migrate", "unlock", "destroy",
        "serving"}

(* The migrations table of schema i.                                       *)
Executed(i) == {m \in Migration : runs[i][m] > 0}
Key(p) == LockKey[at[p]]
InUse == {session[p] : p \in Replica} \cup orphans

Init ==
    /\ pc = [p \in Replica |-> "down"]
    /\ at = [p \in Replica |-> 1]
    /\ session = [p \in Replica |-> NoSession]
    /\ pending = [p \in Replica |-> {}]
    /\ failed = [p \in Replica |-> FALSE]
    /\ skipped = [p \in Replica |-> {}]
    /\ orphans = {}
    /\ lock = [k \in Keys |-> NoSession]
    /\ runs = [i \in SchemaIndex |-> [m \in Migration |-> 0]]

-----------------------------------------------------------------------------

Goto(p, label) == pc' = [pc EXCEPT ![p] = label]

(* The server ends session s: its locks go with it.                        *)
EndSession(s) == lock' = [k \in Keys |-> IF lock[k] = s THEN NoSession ELSE lock[k]]

(* The loop over the schemas begins, or is gone with its process.          *)
FirstSchema(p) ==
    /\ at' = [at EXCEPT ![p] = 1]
    /\ skipped' = [skipped EXCEPT ![p] = {}]

(* bootstrap reaches runMigrationsOnAllTenantDatabases.                    *)
Start(p) ==
    /\ pc[p] = "down"
    /\ Goto(p, IF SchemaCount = 0 THEN "serving" ELSE "initialize")
    /\ FirstSchema(p)
    /\ UNCHANGED <<session, pending, failed, orphans, lock, runs>>

(* dataSource.initialize and SET search_path.                              *)
Initialize(p) ==
    /\ pc[p] = "initialize"
    /\ \E s \in Session \ InUse : session' = [session EXCEPT ![p] = s]
    /\ Goto(p, "lock")
    /\ UNCHANGED <<locals, orphans, lock, runs>>

(* Mutant: the result of pg_try_advisory_lock is not looked at.            *)
AcquireUnchecked(p) ==
    /\ pc[p] = "lock"
    /\ lock' = [lock EXCEPT ![Key(p)] = IF @ = NoSession THEN session[p] ELSE @]
    /\ Goto(p, "load")
    /\ UNCHANGED <<session, locals, orphans, runs>>

(* Mutant: pg_advisory_lock, which waits.                                  *)
AcquireWaiting(p) ==
    /\ pc[p] = "lock"
    /\ lock[Key(p)] = NoSession
    /\ lock' = [lock EXCEPT ![Key(p)] = session[p]]
    /\ Goto(p, "load")
    /\ UNCHANGED <<session, locals, orphans, runs>>

(* pg_try_advisory_lock: whoever does not get it returns at once.          *)
AcquireAdvisoryLock(p) ==
    /\ pc[p] = "lock"
    /\ \/ /\ lock[Key(p)] = NoSession
          /\ lock' = [lock EXCEPT ![Key(p)] = session[p]]
          /\ Goto(p, "load")
          /\ UNCHANGED skipped
       \/ /\ lock[Key(p)] # NoSession
          /\ skipped' = [skipped EXCEPT ![p] = @ \cup {at[p]}]
          /\ Goto(p, "unlock")
          /\ UNCHANGED lock
    /\ UNCHANGED <<session, at, pending, failed, orphans, runs>>

(* runMigrations reads the migrations table before its transaction ...     *)
LoadExecuted(p) ==
    /\ pc[p] = "load"
    /\ pending' = [pending EXCEPT ![p] = Ships[p] \ Executed(at[p])]
    /\ Goto(p, "migrate")
    /\ UNCHANGED <<session, at, failed, skipped, orphans, lock, runs>>

(* ... in which it then runs all that is pending.                          *)
ApplyPending(p) ==
    runs' = [runs EXCEPT ![at[p]] =
                [m \in Migration |-> IF m \in pending[p] THEN @[m] + 1 ELSE @[m]]]

RunMigrations(p) ==
    /\ pc[p] = "migrate"
    /\ ApplyPending(p)
    /\ pending' = [pending EXCEPT ![p] = {}]
    /\ Goto(p, "unlock")
    /\ UNCHANGED <<session, at, failed, skipped, orphans, lock>>

(* A statement fails, or its connection with it.  A transaction that was   *)
(* open is rolled back, unless only the answer to its COMMIT got lost.     *)
StatementFails(p) ==
    /\ pc[p] \in {"initialize", "lock", "load", "migrate"}
    /\ failed' = [failed EXCEPT ![p] = TRUE]
    /\ Goto(p, "unlock")
    /\ \/ UNCHANGED <<session, lock>>
       \/ session' = [session EXCEPT ![p] = NoSession] /\ EndSession(session[p])
    /\ \/ UNCHANGED runs
       \/ pc[p] = "migrate" /\ ApplyPending(p)
    /\ pending' = [pending EXCEPT ![p] = {}]
    /\ UNCHANGED <<at, skipped, orphans>>

(* Mutant: the unlock takes away another session's lock.                   *)
ReleaseAnyLock(p) ==
    /\ pc[p] = "unlock"
    /\ lock' = [lock EXCEPT ![Key(p)] = NoSession]
    /\ Goto(p, "destroy")
    /\ UNCHANGED <<session, locals, orphans, runs>>

(* pg_advisory_unlock, in the finally block: by everybody, but it takes    *)
(* away only a lock of the own session.  An error is logged.               *)
ReleaseAdvisoryLock(p) ==
    /\ pc[p] = "unlock"
    /\ \/ /\ session[p] # NoSession /\ lock[Key(p)] = session[p]
          /\ lock' = [lock EXCEPT ![Key(p)] = NoSession]
       \/ UNCHANGED lock
    /\ Goto(p, "destroy")
    /\ UNCHANGED <<session, locals, orphans, runs>>

(* Mutant: the error is logged and not thrown on.                          *)
DestroyAndGoOn(p) ==
    /\ pc[p] = "destroy"
    /\ IF session[p] = NoSession THEN UNCHANGED lock ELSE EndSession(session[p])
    /\ session' = [session EXCEPT ![p] = NoSession]
    /\ \/ at[p] = SchemaCount /\ Goto(p, "serving") /\ UNCHANGED at
       \/ at[p] < SchemaCount /\ Goto(p, "initialize")
          /\ at' = [at EXCEPT ![p] = @ + 1]
    /\ failed' = [failed EXCEPT ![p] = FALSE]
    /\ UNCHANGED <<pending, skipped, orphans, runs>>

Destroy(p) ==
    /\ pc[p] = "destroy"
    /\ IF session[p] = NoSession THEN UNCHANGED lock ELSE EndSession(session[p])
    /\ session' = [session EXCEPT ![p] = NoSession]
    /\ \/ failed[p] /\ Goto(p, "down") /\ FirstSchema(p)
       \/ ~ failed[p] /\ at[p] = SchemaCount /\ Goto(p, "serving")
          /\ UNCHANGED <<at, skipped>>
       \/ /\ ~ failed[p] /\ at[p] < SchemaCount
          /\ Goto(p, "initialize")
          /\ at' = [at EXCEPT ![p] = @ + 1]
          /\ UNCHANGED skipped
    /\ failed' = [failed EXCEPT ![p] = FALSE]
    /\ UNCHANGED <<pending, orphans, runs>>

(* The process is killed, whatever it is doing.                            *)
Crash(p) ==
    /\ pc[p] # "down"
    /\ Goto(p, "down")
    /\ orphans' = orphans \cup ({session[p]} \ {NoSession})
    /\ session' = [session EXCEPT ![p] = NoSession]
    /\ \/ UNCHANGED runs
       \/ pc[p] = "migrate" /\ ApplyPending(p)
    /\ failed' = [failed EXCEPT ![p] = FALSE]
    /\ pending' = [pending EXCEPT ![p] = {}]
    /\ FirstSchema(p)
    /\ UNCHANGED lock

(* The server notices that the client of a session is gone.                *)
Reap(s) ==
    /\ s \in orphans
    /\ orphans' = orphans \ {s}
    /\ EndSession(s)
    /\ UNCHANGED <<pc, session, locals, runs>>

Bootstrap(p) ==
    \/ Initialize(p)
    \/ AcquireAdvisoryLock(p)
    \/ LoadExecuted(p)
    \/ RunMigrations(p)
    \/ StatementFails(p)
    \/ ReleaseAdvisoryLock(p)
    \/ Destroy(p)

Next ==
    \/ \E p \in Replica : Start(p) \/ Bootstrap(p) \/ Crash(p)
    \/ \E s \in Session : Reap(s)

Spec == Init /\ [][Next]_vars

(* What is bound to happen: the steps that wait for nothing but the event  *)
(* loop and the server.  That a statement fails is not, except that a      *)
(* server that admits no further session says so.                          *)
Progress(p) ==
    \/ Initialize(p)
    \/ AcquireAdvisoryLock(p)
    \/ LoadExecuted(p)
    \/ RunMigrations(p)
    \/ ReleaseAdvisoryLock(p)
    \/ Destroy(p)
    \/ pc[p] = "initialize" /\ StatementFails(p)

FairSpec == Spec /\ \A p \in Replica : WF_vars(Progress(p))

-----------------------------------------------------------------------------
(* Properties                                                              *)

TypeOK ==
    /\ pc \in [Replica -> PCs]
    /\ at \in [Replica -> Nat]
    /\ \A p \in Replica : pc[p] \notin {"down", "serving"} => at[p] \in SchemaIndex
    /\ session \in [Replica -> Session \cup {NoSession}]
    /\ pending \in [Replica -> SUBSET Migration]
    /\ failed \in [Replica -> BOOLEAN]
    /\ skipped \in [Replica -> SUBSET SchemaIndex]
    /\ orphans \in SUBSET Session
    /\ lock \in [Keys -> Session \cup {NoSession}]
    /\ runs \in [SchemaIndex -> [Migration -> Nat]]

(* "Safe for parallel execution": no migration is run twice on a schema,   *)
(* whatever the replicas that start, crash and restart together.           *)
AppliedOnce == \A i \in SchemaIndex, m \in Migration : runs[i][m] <= 1

(* A replica that serves has had the migrations of its release run on      *)
(* every schema it did not skip; one whose migrations failed does not      *)
(* serve.                                                                  *)
ServesWhatItMigrated ==
    \A p \in Replica : pc[p] = "serving" =>
        \A i \in SchemaIndex \ skipped[p] : Ships[p] \subseteq Executed(i)

(* "Migrations are run automatically on bootstrap for all tenant schemas": *)
(* a replica that serves finds every schema migrated.                      *)
ServesMigrated ==
    \A p \in Replica : pc[p] = "serving" =>
        \A i \in SchemaIndex : Ships[p] \subseteq Executed(i)

(* A bootstrap ends: the replica serves or is down, whatever becomes of    *)
(* the others.                                                             *)
BootstrapEnds ==
    \A p \in Replica : pc[p] = "initialize" ~> pc[p] \in {"serving", "down"}

-----------------------------------------------------------------------------
(* The inductive invariant behind AppliedOnce and ServesWhatItMigrated.    *)

(* Sessions are not shared, and a lock belongs to one that is in use.      *)
SessionsApart ==
    /\ \A p, q \in Replica : session[p] = session[q] /\ p # q => session[p] = NoSession
    /\ \A p \in Replica :
          /\ session[p] \notin orphans
          /\ pc[p] \in {"lock", "load", "migrate"} => session[p] # NoSession
          /\ pc[p] \in {"down", "initialize", "serving"} => session[p] = NoSession
    /\ \A k \in Keys : lock[k] \in InUse \cup {NoSession}

(* Between taking the lock and giving it back a replica holds it.          *)
MigratorHoldsLock ==
    \A p \in Replica : pc[p] \in {"load", "migrate"} => lock[Key(p)] = session[p]

(* What it found pending still is, since nobody else could run it.         *)
PendingNotRun ==
    \A p \in Replica : pc[p] = "migrate" => pending[p] = Ships[p] \ Executed(at[p])

(* What p has seen to so far: the schemas before the one it is busy with,  *)
(* and that one as well once it unlocks.                                   *)
SeenTo(p) ==
    CASE pc[p] = "serving" -> SchemaIndex
      [] pc[p] \in {"unlock", "destroy"} /\ ~ failed[p] -> {i \in SchemaIndex : i <= at[p]}
      [] pc[p] = "down" -> {}
      [] OTHER -> {i \in SchemaIndex : i < at[p]}

MigratedSoFar ==
    \A p \in Replica : \A i \in SeenTo(p) \ skipped[p] : Ships[p] \subseteq Executed(i)

MigrationInv ==
    /\ TypeOK
    /\ SessionsApart
    /\ MigratorHoldsLock
    /\ PendingNotRun
    /\ MigratedSoFar
    /\ AppliedOnce

=============================================================================
