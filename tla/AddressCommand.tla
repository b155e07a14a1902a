---------------------------- MODULE AddressCommand ----------------------------
(***************************************************************************)
(* AddressCommandService with its DAO: the four commands on the address    *)
(* table, each a @Transactional method whose SQL statements interleave     *)
(* with those of the other requests.  The service means every user who has *)
(* addresses to have one default address; nothing in the schema says so.   *)
(*                                                                         *)
(* A row is reduced to what the commands look at: whether it exists and    *)
(* its is_default flag.  The text of an address is left out.  Users are    *)
(* removed by UserCommandService (ON DELETE CASCADE), here the step        *)
(* RemoveUser of the environment.                                          *)
(***************************************************************************)
EXTENDS ReadCommitted

CONSTANTS
    User,
    UserOf,     \* UserOf[a]: the value of a's user_id column
    Ops,        \* the commands that clients send
    Overlap     \* may two requests about one user be in flight together?

Commands == {"add", "setDefault", "update", "delete"}

ASSUME UserOfAssumption == UserOf \in [Row -> User]
ASSUME OpsAssumption == Ops \subseteq Commands
ASSUME OverlapAssumption == Overlap \in BOOLEAN

VARIABLES
    users,      \* the users that exist
    pc,         \* pc[t]: the statement that request t executes next
    op,         \* op[t]: its command
    arg,        \* arg[t]: its address_id (of an add: the id it will get)
    isDefault,  \* isDefault[t]: the local variable of addAddress
    todo,       \* todo[t]: the rows its multi-row UPDATE has yet to visit
    result      \* result[t]: how the method body ended

table == <<db, owner, dirty>>
locals == <<op, arg, isDefault, todo, result>>
vars == <<table, users, pc, locals>>

Status == {"unborn", "plain", "default", "deleted"}
Live == {"plain", "default"}

(* "find" to "reread" are the DAO calls; "unsetting" is an UPDATE that has *)
(* taken its snapshot and is visiting its rows.                            *)
Statements == {"findDefault", "unset", "unsetting", "findAll", "insert",
               "find", "set", "erase", "write", "reread"}
PCs == Statements \cup {"idle", "commit", "rollback"}
Results == {"ok", "notFound", "conflict", "error"}

AddressesOf(u) == {a \in Row : UserOf[a] = u}
TargetUser(t) == UserOf[arg[t]]
Active == {t \in Request : pc[t] # "idle"}

Init ==
    /\ db = [a \in Row |-> "unborn"]
    /\ owner = [a \in Row |-> NoRequest]
    /\ dirty = db
    /\ users = User
    /\ pc = [t \in Request |-> "idle"]
    /\ op = [t \in Request |-> "update"]
    /\ \E a \in Row : arg = [t \in Request |-> a]
    /\ isDefault = [t \in Request |-> FALSE]
    /\ todo = [t \in Request |-> {}]
    /\ result = [t \in Request |-> "ok"]

-----------------------------------------------------------------------------

Goto(t, label) == pc' = [pc EXCEPT ![t] = label]

(* The body throws: executeInTransaction goes on to roll back.             *)
Throw(t, r) ==
    /\ Goto(t, "rollback")
    /\ result' = [result EXCEPT ![t] = r]

(* A request arrives and setupQueryRunner opens its transaction.  Any id   *)
(* may be asked for, known or not; the row of an add gets an unused one.   *)
(* Row bounds the number of adds.                                          *)
Start(t, c, a, wantsDefault) ==
    /\ pc[t] = "idle"
    /\ c = "add" => /\ db[a] = "unborn"
                    /\ \A s \in Active : arg[s] # a
    /\ wantsDefault => c = "add"
    /\ Overlap \/ \A s \in Active : TargetUser(s) # UserOf[a]
    /\ op' = [op EXCEPT ![t] = c]
    /\ arg' = [arg EXCEPT ![t] = a]
    /\ isDefault' = [isDefault EXCEPT ![t] = wantsDefault]
    /\ result' = [result EXCEPT ![t] = "ok"]
    /\ Goto(t, CASE c # "add" -> "find"
                 [] c = "add" /\ wantsDefault -> "findDefault"
                 [] OTHER -> "findAll")
    /\ UNCHANGED <<table, users, todo>>

-----------------------------------------------------------------------------
(* addAddress                                                              *)

(* Mutant: the WHERE clause forgets user_id.                               *)
DefaultsOfAnyUser(t) == {a \in Row : Visible(t, a) = "default"}

VisibleDefaults(t) ==
    {a \in AddressesOf(TargetUser(t)) : Visible(t, a) = "default"}

VisibleAddresses(t) ==
    {a \in AddressesOf(TargetUser(t)) : Visible(t, a) \in Live}

(* Mutant: the existing default is not looked for.                         *)
FindDefaultSkipped(t) ==
    /\ pc[t] = "findDefault"
    /\ Goto(t, "findAll")
    /\ UNCHANGED <<table, users, locals>>

FindDefault(t) ==
    /\ pc[t] = "findDefault"
    /\ Goto(t, IF VisibleDefaults(t) = {} THEN "findAll" ELSE "unset")
    /\ UNCHANGED <<table, users, locals>>

(* Mutant: the first address does not become the default.                  *)
FindAllOnly(t) ==
    /\ pc[t] = "findAll"
    /\ Goto(t, "insert")
    /\ UNCHANGED <<table, users, locals>>

(* Mutant: being the first address overwrites the client's wish.           *)
FindAllDecides(t) ==
    /\ pc[t] = "findAll"
    /\ isDefault' = [isDefault EXCEPT ![t] = VisibleAddresses(t) = {}]
    /\ Goto(t, "insert")
    /\ UNCHANGED <<table, users, op, arg, todo, result>>

FindAll(t) ==
    /\ pc[t] = "findAll"
    /\ isDefault' = [isDefault EXCEPT ![t] = @ \/ VisibleAddresses(t) = {}]
    /\ Goto(t, "insert")
    /\ UNCHANGED <<table, users, op, arg, todo, result>>

(* The foreign key refuses the row of a user that is gone.                 *)
Insert(t) ==
    /\ pc[t] = "insert"
    /\ \/ /\ TargetUser(t) \in users
          /\ WriteRow(t, arg[t], IF isDefault[t] THEN "default" ELSE "plain")
          /\ Goto(t, "commit")
          /\ UNCHANGED result
       \/ /\ TargetUser(t) \notin users
          /\ Throw(t, "error")
          /\ UNCHANGED table
    /\ UNCHANGED <<users, op, arg, isDefault, todo>>

-----------------------------------------------------------------------------
(* unsetDefaultAddress: UPDATE ... WHERE user_id AND is_default            *)

Unset(t) ==
    /\ pc[t] = "unset"
    /\ todo' = [todo EXCEPT ![t] = VisibleDefaults(t)]
    /\ Goto(t, "unsetting")
    /\ UNCHANGED <<table, users, op, arg, isDefault, result>>

(* One row of it, in whatever order the scan returns them.  The WHERE      *)
(* clause is evaluated again on the version found once the row is free.    *)
UnsetRow(t, a) ==
    /\ pc[t] = "unsetting"
    /\ a \in todo[t]
    /\ Available(t, a)
    /\ IF Visible(t, a) = "default" THEN WriteRow(t, a, "plain")
                                    ELSE UNCHANGED table
    /\ todo' = [todo EXCEPT ![t] = @ \ {a}]
    /\ UNCHANGED <<users, pc, op, arg, isDefault, result>>

(* Mutant: setDefaultAddress unsets and returns.                           *)
UnsetOnly(t) ==
    /\ pc[t] = "unsetting"
    /\ todo[t] = {}
    /\ Goto(t, IF op[t] = "add" THEN "findAll" ELSE "commit")
    /\ UNCHANGED <<table, users, locals>>

UnsetDone(t) ==
    /\ pc[t] = "unsetting"
    /\ todo[t] = {}
    /\ Goto(t, IF op[t] = "add" THEN "findAll" ELSE "set")
    /\ UNCHANGED <<table, users, locals>>

-----------------------------------------------------------------------------
(* setDefaultAddress, updateAddress and deleteAddress                      *)

(* Mutant: deleteAddress does not look at is_default.                      *)
FindUnchecked(t) ==
    /\ pc[t] = "find"
    /\ \/ Visible(t, arg[t]) \notin Live /\ Throw(t, "notFound")
       \/ /\ Visible(t, arg[t]) \in Live
          /\ Goto(t, CASE op[t] = "setDefault" -> "unset"
                       [] op[t] = "update" -> "write"
                       [] OTHER -> "erase")
          /\ UNCHANGED result
    /\ UNCHANGED <<table, users, op, arg, isDefault, todo>>

(* findAddressById, and the checks each command makes on what it returns.  *)
Find(t) ==
    /\ pc[t] = "find"
    /\ LET seen == Visible(t, arg[t]) IN
       \/ /\ seen \notin Live
          /\ Throw(t, "notFound")
       \/ /\ op[t] = "delete" /\ seen = "default"
          /\ Throw(t, "conflict")
       \/ /\ seen \in Live
          /\ ~ (op[t] = "delete" /\ seen = "default")
          /\ Goto(t, CASE op[t] = "setDefault" -> "unset"
                       [] op[t] = "update" -> "write"
                       [] OTHER -> "erase")
          /\ UNCHANGED result
    /\ UNCHANGED <<table, users, op, arg, isDefault, todo>>

(* An UPDATE or DELETE of the one row arg[t]; of a row that is gone by     *)
(* now it changes nothing, and the code does not look at the count.        *)
PointWrite(t, status) ==
    /\ Available(t, arg[t])
    /\ IF Visible(t, arg[t]) \in Live THEN WriteRow(t, arg[t], status)
                                      ELSE UNCHANGED table
    /\ UNCHANGED <<users, locals>>

(* Mutant: the update leaves is_default as it is.                          *)
SetNothing(t) ==
    pc[t] = "set" /\ PointWrite(t, Visible(t, arg[t])) /\ Goto(t, "commit")

Set(t) == pc[t] = "set" /\ PointWrite(t, "default") /\ Goto(t, "commit")

Erase(t) == pc[t] = "erase" /\ PointWrite(t, "deleted") /\ Goto(t, "commit")

(* The update changes the text only.                                       *)
Write(t) ==
    /\ pc[t] = "write"
    /\ PointWrite(t, Visible(t, arg[t]))
    /\ Goto(t, "reread")

(* updateAddress of the DAO reads the row back and throws if it is gone.   *)
Reread(t) ==
    /\ pc[t] = "reread"
    /\ \/ Visible(t, arg[t]) \in Live /\ Goto(t, "commit") /\ UNCHANGED result
       \/ Visible(t, arg[t]) \notin Live /\ Throw(t, "error")
    /\ UNCHANGED <<table, users, op, arg, isDefault, todo>>

-----------------------------------------------------------------------------
(* The end of the transaction (executeInTransaction)                       *)

(* What is left of the request once it has been answered.                  *)
Answer(t, r) ==
    /\ Goto(t, "idle")
    /\ todo' = [todo EXCEPT ![t] = {}]
    /\ isDefault' = [isDefault EXCEPT ![t] = FALSE]
    /\ result' = [result EXCEPT ![t] = r]
    /\ UNCHANGED <<users, op, arg>>

Commit(t) == pc[t] = "commit" /\ CommitRows(t) /\ Answer(t, "ok")

(* Mutant: the connection goes back to the pool with its locks.            *)
RollbackKeepsLocks(t) ==
    /\ pc[t] = "rollback"
    /\ UNCHANGED table
    /\ Answer(t, result[t])

Rollback(t) == pc[t] = "rollback" /\ RollbackRows(t) /\ Answer(t, result[t])

(* The rows the next write of t needs.                                     *)
Wanted(t) ==
    CASE pc[t] = "unsetting" -> todo[t]
      [] pc[t] \in {"set", "erase", "write"} -> {arg[t]}
      [] OTHER -> {}

WaitsFor ==
    [t \in Request |-> {owner[a] : a \in Wanted(t)} \ {t, NoRequest}]

(* PostgreSQL aborts a statement on a cycle of lock waits; the service     *)
(* turns the error into a 500.                                             *)
DeadlockAbort(t) ==
    /\ OnWaitCycle(t, WaitsFor)
    /\ Throw(t, "error")
    /\ UNCHANGED <<table, users, op, arg, isDefault, todo>>

(* The connection fails under the request: the server rolls back, or, when *)
(* only the acknowledgement of a COMMIT is lost, has committed.  Either    *)
(* way the client gets a 500.                                              *)
ConnectionLost(t) ==
    /\ t \in Active
    /\ \/ RollbackRows(t)
       \/ pc[t] = "commit" /\ CommitRows(t)
    /\ Answer(t, "error")

(* deleteUser commits: the cascade takes the user's addresses.  It needs   *)
(* their locks; an uncommitted insert holds the user's row as well.        *)
RemoveUser(u) ==
    /\ u \in users
    /\ \A a \in AddressesOf(u) : owner[a] = NoRequest
    /\ users' = users \ {u}
    /\ db' = [a \in Row |-> IF UserOf[a] = u /\ db[a] \in Live
                            THEN "deleted" ELSE db[a]]
    /\ dirty' = [a \in Row |-> IF UserOf[a] = u /\ db[a] \in Live
                               THEN "deleted" ELSE dirty[a]]
    /\ UNCHANGED <<owner, pc, locals>>

-----------------------------------------------------------------------------

(* A step the event loop and the server eventually take for request t.     *)
Advance(t) ==
    \/ FindDefault(t)
    \/ FindAll(t)
    \/ Insert(t)
    \/ Unset(t)
    \/ \E a \in Row : UnsetRow(t, a)
    \/ UnsetDone(t)
    \/ Find(t)
    \/ Set(t)
    \/ Erase(t)
    \/ Write(t)
    \/ Reread(t)
    \/ Commit(t)
    \/ Rollback(t)
    \/ DeadlockAbort(t)

Next ==
    \/ \E t \in Request :
          \/ \E c \in Ops, a \in Row, w \in BOOLEAN : Start(t, c, a, w)
          \/ Advance(t)
          \/ ConnectionLost(t)
    \/ \E u \in User : RemoveUser(u)

Spec == Init /\ [][Next]_vars

(* Waiters get a row lock in the order they asked for it and deadlocks are *)
(* detected, so that a request is not passed over for ever: strong         *)
(* fairness per request.  No client has to send anything.                  *)
FairSpec == Spec /\ \A t \in Request : SF_vars(Advance(t))

-----------------------------------------------------------------------------
(* Properties                                                              *)

(* The variables have their types and a row without lock has no            *)
(* uncommitted version.                                                    *)
TypeOK ==
    /\ db \in [Row -> Status]
    /\ owner \in [Row -> Request \cup {NoRequest}]
    /\ dirty \in [Row -> Status]
    /\ users \in SUBSET User
    /\ pc \in [Request -> PCs]
    /\ op \in [Request -> Commands]
    /\ arg \in [Request -> Row]
    /\ isDefault \in [Request -> BOOLEAN]
    /\ todo \in [Request -> SUBSET Row]
    /\ result \in [Request -> Results]
    /\ \A a \in Row : owner[a] = NoRequest => dirty[a] = db[a]

DefaultsOf(u) == {a \in AddressesOf(u) : db[a] = "default"}
LiveOf(u) == {a \in AddressesOf(u) : db[a] \in Live}

(* A user who has addresses has a default one, whatever the order of       *)
(* requests, in every committed state: addAddress makes the first address  *)
(* the default, and whoever unsets a default sets another in the same      *)
(* transaction.                                                            *)
SomeDefault == \A u \in User : LiveOf(u) # {} => DefaultsOf(u) # {}

(* "unset any existing default": never two default addresses.              *)
AtMostOneDefault == \A u \in User : \A a, b \in DefaultsOf(u) : a = b

(* A transaction only ever locks rows of the user it is about, so that     *)
(* requests about different users neither wait for nor change each other's *)
(* addresses.                                                              *)
OwnBookOnly ==
    \A t \in Request : Locked(t) \subseteq AddressesOf(TargetUser(t))

(* A setDefaultAddress that answers {is_default: true} leaves that address *)
(* a default, unless the user was deleted meanwhile.                       *)
SetDefaultTakesEffect ==
    [][\A t \in Request :
          (/\ op[t] = "setDefault" /\ pc[t] # "idle"
           /\ pc'[t] = "idle" /\ result'[t] = "ok")
          => db'[arg[t]] = "default" \/ TargetUser(t) \notin users]_vars

(* "Prevent deleting default address": an address that is the default when *)
(* a request commits is not removed by it.                                 *)
DefaultNotDeleted ==
    [][\A a \in Row :
          db[a] = "default" /\ db'[a] = "deleted" => UserOf[a] \notin users']_vars

(* When the requests about one user come one after the other, the commands *)
(* implement the address book of module AddressBook: each takes effect at  *)
(* its commit, and whatever fails leaves nothing behind.                   *)
Book == INSTANCE AddressBook WITH
    Address <- Row,
    used <- {a \in Row : db[a] # "unborn"},
    addresses <- [u \in User |-> LiveOf(u)],
    defaults <- [u \in User |-> DefaultsOf(u)]

ImplementsAddressBook == Book!Spec

(* Every request is answered: lock waits and deadlocks end.                *)
EveryCommandAnswered == \A t \in Request : t \in Active ~> t \notin Active

-----------------------------------------------------------------------------
(* Why SomeDefault holds as long as no deleteAddress runs: the inductive   *)
(* invariant of AddressCommand_proofs.                                     *)

Running(t, c, labels) == op[t] = c /\ pc[t] \in labels

(* Each command executes its own statements only.                          *)
OwnStatements ==
    \A t \in Request :
        /\ op[t] # "delete" /\ pc[t] # "erase"
        /\ pc[t] \in {"findDefault", "findAll", "insert"} => op[t] = "add"
        /\ pc[t] \in {"unset", "unsetting"} => op[t] \in {"add", "setDefault"}
        /\ pc[t] = "find" => op[t] # "add"
        /\ pc[t] = "set" => op[t] = "setDefault"
        /\ pc[t] \in {"write", "reread"} => op[t] = "update"
        /\ Running(t, "add", {"findDefault", "unset", "unsetting"}) => isDefault[t]
        /\ pc[t] = "rollback" => result[t] # "ok"
        /\ pc[t] = "unsetting" => todo[t] \subseteq AddressesOf(TargetUser(t))

(* The id of a running add is its own and not yet in the table.            *)
FreshIds ==
    \A t \in Active : op[t] = "add" =>
        /\ db[arg[t]] = "unborn"
        /\ \A s \in Active \ {t} : op[s] = "add" => arg[s] # arg[t]

(* Addresses belong to users that exist, and a locked row is a live one of *)
(* the locker's user or the row it has just inserted.                      *)
LockedRowsLive ==
    \A a \in Row :
        /\ db[a] \in Live => UserOf[a] \in users
        /\ \A t \in Request : owner[a] = t =>
              /\ t \in Active /\ UserOf[a] = TargetUser(t) /\ UserOf[a] \in users
              /\ dirty[a] \in Live
              /\ db[a] \in Live \/ (Running(t, "add", {"commit"}) /\ a = arg[t])

(* setDefaultAddress sets an address that exists, or has lost its user.    *)
TargetLive ==
    \A t \in Request :
        Running(t, "setDefault", {"unset", "unsetting", "set", "commit"}) =>
            db[arg[t]] \in Live \/ TargetUser(t) \notin users

(* A request that has unset a default is on its way to set another, and    *)
(* holds the other when it commits.                                        *)
UnsetThenSet ==
    \A t \in Request, a \in Row :
        owner[a] = t /\ db[a] = "default" /\ dirty[a] = "plain" =>
            \/ Running(t, "add", {"unsetting", "findAll", "insert"}) /\ isDefault[t]
            \/ Running(t, "setDefault", {"unsetting", "set"})
            \/ pc[t] = "rollback"
            \/ pc[t] = "commit" /\ owner[arg[t]] = t /\ dirty[arg[t]] = "default"

(* What a request has achieved by the time it commits.                     *)
ReadyToCommit ==
    \A t \in Request :
        /\ Running(t, "add", {"insert", "commit"}) /\ ~ isDefault[t] =>
              LiveOf(TargetUser(t)) # {} \/ TargetUser(t) \notin users
        /\ Running(t, "add", {"commit"}) =>
              /\ owner[arg[t]] = t
              /\ dirty[arg[t]] = IF isDefault[t] THEN "default" ELSE "plain"
        /\ Running(t, "setDefault", {"commit"}) =>
              \/ owner[arg[t]] = t /\ dirty[arg[t]] = "default"
              \/ TargetUser(t) \notin users

AddressInv ==
    /\ TypeOK
    /\ OwnStatements
    /\ FreshIds
    /\ LockedRowsLive
    /\ TargetLive
    /\ UnsetThenSet
    /\ ReadyToCommit
    /\ SomeDefault

=============================================================================
