-------------------------- MODULE AddressSerial_proofs --------------------------
(***************************************************************************)
(* Proofs about AddressCommand when the requests about one user come one   *)
(* after the other (Overlap is FALSE): for any number of users, addresses  *)
(* and requests, the commands implement the address book.                  *)
(***************************************************************************)
EXTENDS AddressCommand_proofs

USE NoRequestAssumption, UserOfAssumption, OpsAssumption

-----------------------------------------------------------------------------
(* The invariant.  A request has its user's addresses to itself; Phase(t)  *)
(* says what it has done to them by the statement it has come to.          *)

Book_of(t) == AddressesOf(TargetUser(t))

Alone == \A s, t \in Active : s # t => TargetUser(s) # TargetUser(t)

(* A lock is held by a running request, on an address of its user, who is  *)
(* there for as long.                                                      *)
LocksOwn ==
    \A a \in Row, t \in Request : owner[a] = t =>
        t \in Active /\ UserOf[a] = TargetUser(t) /\ UserOf[a] \in users

LiveOwned == \A a \in Row : db[a] \in Live => UserOf[a] \in users

(* Each command executes its own statements only.                          *)
Labelled(t) ==
    /\ pc[t] \in {"findDefault", "findAll", "insert"} => op[t] = "add"
    /\ pc[t] \in {"unset", "unsetting"} => op[t] \in {"add", "setDefault"}
    /\ pc[t] = "find" => op[t] # "add"
    /\ pc[t] = "set" => op[t] = "setDefault"
    /\ pc[t] \in {"write", "reread"} => op[t] = "update"
    /\ pc[t] = "erase" => op[t] = "delete"
    /\ op[t] = "add" /\ pc[t] \in {"findDefault", "unset", "unsetting"} => isDefault[t]
    /\ pc[t] = "unsetting" => todo[t] \subseteq Book_of(t)

(* What has happened to a row that t has locked.                           *)
Holding(t) ==
    \A a \in Book_of(t) : owner[a] = t /\ pc[t] # "rollback" =>
        /\ pc[t] \notin {"findDefault", "unset", "find", "erase", "write"}
        /\ op[t] = "add" =>
              \/ a # arg[t] /\ db[a] \in Live /\ dirty[a] = "plain" /\ isDefault[t]
              \/ a = arg[t] /\ pc[t] = "commit"
                 /\ dirty[a] = IF isDefault[t] THEN "default" ELSE "plain"
        /\ op[t] = "setDefault" =>
              /\ db[a] \in Live
              /\ dirty[a] = IF a = arg[t] /\ pc[t] = "commit" THEN "default" ELSE "plain"
        /\ op[t] = "update" => a = arg[t] /\ db[a] \in Live /\ dirty[a] = db[a]
        /\ op[t] = "delete" =>
              a = arg[t] /\ pc[t] = "commit" /\ db[a] = "plain" /\ dirty[a] = "deleted"

(* The address it is about.                                                *)
Targeting(t) ==
    /\ op[t] = "add" => db[arg[t]] = "unborn"
    /\ op[t] = "setDefault" /\ pc[t] \in {"unset", "unsetting", "set"} =>
          db[arg[t]] \in Live \/ TargetUser(t) \notin users
    /\ pc[t] = "erase" => db[arg[t]] # "default"

(* Which default addresses of its user it sees.                            *)
Seeing(t) ==
    /\ pc[t] = "unsetting" => VisibleDefaults(t) \subseteq todo[t]
    /\ pc[t] = "set" \/ (pc[t] \in {"findAll", "insert"} /\ isDefault[t]) =>
          VisibleDefaults(t) = {}

(* What a request has achieved by the time it commits.                     *)
Achieved(t) ==
    /\ op[t] = "add" /\ pc[t] \in {"insert", "commit"} /\ ~ isDefault[t] =>
          LiveOf(TargetUser(t)) # {} \/ TargetUser(t) \notin users
    /\ op[t] = "add" /\ pc[t] = "commit" =>
          owner[arg[t]] = t /\ (isDefault[t] => VisibleDefaults(t) = {arg[t]})
    /\ op[t] = "setDefault" /\ pc[t] = "commit" =>
          \/ owner[arg[t]] = t /\ VisibleDefaults(t) = {arg[t]}
          \/ TargetUser(t) \notin users

Phase(t) == Labelled(t) /\ Holding(t) /\ Targeting(t) /\ Seeing(t) /\ Achieved(t)

SerialInv == Alone /\ LocksOwn /\ LiveOwned /\ \A t \in Active : Phase(t)

-----------------------------------------------------------------------------
(* What a step of t leaves alone: the other requests, and the addresses of *)
(* every user but its own.                                                 *)
Apart(t) ==
    /\ users' = users
    /\ \A s \in Request \ {t} :
          /\ pc'[s] = pc[s] /\ op'[s] = op[s] /\ arg'[s] = arg[s]
          /\ isDefault'[s] = isDefault[s] /\ todo'[s] = todo[s]
    /\ \A a \in Row : UserOf[a] # UserOf[arg'[t]] =>
          db'[a] = db[a] /\ owner'[a] = owner[a] /\ dirty'[a] = dirty[a]

StepOf(t) ==
    \/ \E c \in Ops, a \in Row, w \in BOOLEAN : Start(t, c, a, w)
    \/ Advance(t)
    \/ ConnectionLost(t)

LEMMA StepsApart ==
  ASSUME TypeOK, SerialInv, NEW t \in Request, StepOf(t)
  PROVE  Apart(t)
<1> USE DEF TypeOK, Apart, Goto, Throw, PCs, Statements
<1>1. ASSUME NEW c \in Ops, NEW a \in Row, NEW w \in BOOLEAN, Start(t, c, a, w)
      PROVE  Apart(t)
  BY <1>1 DEF Start, table
<1>2. CASE FindDefault(t)
  BY <1>2 DEF FindDefault, table, locals
<1>3. CASE FindAll(t)
  BY <1>3 DEF FindAll, table
<1>4. CASE Insert(t)
  BY <1>4 DEF Insert, WriteRow, TargetUser, table
<1>5. CASE Unset(t)
  BY <1>5 DEF Unset, table
<1>6. ASSUME NEW a \in Row, UnsetRow(t, a) PROVE Apart(t)
  <2>1. UserOf[a] = UserOf[arg[t]]
    BY <1>6 DEF UnsetRow, SerialInv, Active, Phase, Labelled, Book_of, AddressesOf,
       TargetUser
  <2> QED
    BY <1>6, <2>1 DEF UnsetRow, WriteRow, table
<1>7. CASE UnsetDone(t)
  BY <1>7 DEF UnsetDone, table, locals
<1>8. CASE Find(t)
  BY <1>8 DEF Find, table
<1>9. CASE Set(t)
  BY <1>9 DEF Set, PointWrite, WriteRow, table, locals
<1>10. CASE Erase(t)
  BY <1>10 DEF Erase, PointWrite, WriteRow, table, locals
<1>11. CASE Write(t)
  BY <1>11 DEF Write, PointWrite, WriteRow, table, locals
<1>12. CASE Reread(t)
  BY <1>12 DEF Reread, table
<1>13. CASE Commit(t)
  BY <1>13 DEF Commit, CommitRows, ReleaseLocks, Answer, SerialInv, LocksOwn, TargetUser
<1>14. CASE Rollback(t)
  BY <1>14 DEF Rollback, RollbackRows, ReleaseLocks, Answer, SerialInv, LocksOwn,
     TargetUser
<1>15. CASE DeadlockAbort(t)
  BY <1>15 DEF DeadlockAbort, table
<1>16. CASE ConnectionLost(t)
  BY <1>16 DEF ConnectionLost, CommitRows, RollbackRows, ReleaseLocks, Answer,
     SerialInv, LocksOwn, TargetUser
<1> QED
  BY <1>1, <1>2, <1>3, <1>4, <1>5, <1>6, <1>7, <1>8, <1>9, <1>10, <1>11, <1>12,
     <1>13, <1>14, <1>15, <1>16 DEF StepOf, Advance

(* So that what another request has done and seen stays as it is.          *)
LEMMA OthersKept ==
  ASSUME TypeOK, NEW t \in Request, NEW s \in Active, s # t, Apart(t),
         TargetUser(s) # UserOf[arg'[t]], Phase(s)
  PROVE  Phase(s)'
<1> USE DEF TypeOK, Active, Apart
<1>1. TargetUser(s)' = TargetUser(s) /\ Book_of(s)' = Book_of(s)
  BY DEF TargetUser, Book_of, AddressesOf
<1>2. \A a \in Book_of(s) : db'[a] = db[a] /\ owner'[a] = owner[a] /\ dirty'[a] = dirty[a]
  BY DEF Book_of, AddressesOf
<1>3. VisibleDefaults(s)' = VisibleDefaults(s)
  BY <1>1, <1>2 DEF VisibleDefaults, Visible, Book_of
<1>4. LiveOf(TargetUser(s))' = LiveOf(TargetUser(s))
  BY <1>1, <1>2 DEF LiveOf, Book_of
<1>5. arg[s] \in Book_of(s)
  BY DEF Book_of, AddressesOf, TargetUser
<1>6. Labelled(s)'
  BY <1>1 DEF Phase, Labelled
<1>7. Holding(s)'
  BY <1>1, <1>2 DEF Phase, Holding
<1>8. Targeting(s)'
  BY <1>1, <1>2, <1>5 DEF Phase, Targeting
<1>9. Seeing(s)'
  BY <1>3 DEF Phase, Seeing
<1>10. Achieved(s)'
  BY <1>1, <1>2, <1>3, <1>4, <1>5 DEF Phase, Achieved
<1> QED
  BY <1>6, <1>7, <1>8, <1>9, <1>10 DEF Phase
-----------------------------------------------------------------------------
(* What each step does for the request that takes it.                      *)

OwnPart(t) == LocksOwn /\ LiveOwned /\ (t \in Active => Phase(t))

LEMMA StartOwn ==
  ASSUME TypeOK, SerialInv, NEW t \in Request, NEW c \in Ops, NEW a \in Row,
         NEW w \in BOOLEAN, Start(t, c, a, w)
  PROVE  OwnPart(t)'
<1> USE DEF TypeOK, Active, Goto, Live
<1>1. LocksOwn'
  BY DEF SerialInv, LocksOwn, Start, table, TargetUser
<1>2. LiveOwned'
  BY DEF SerialInv, LiveOwned, Start, table
<1>3. Labelled(t)'
  BY DEF Labelled, Start
<1>4. Holding(t)'
  <2>1. \A b \in Row : owner'[b] # t
    BY DEF SerialInv, LocksOwn, Start, table
  <2> QED
    BY <2>1 DEF Holding, Book_of, AddressesOf
<1>5. Targeting(t)'
  BY DEF Targeting, Start, table
<1>6. Seeing(t)'
  <2>1. CASE c = "add" /\ ~ w
    BY <2>1 DEF Seeing, Start
  <2>2. CASE c # "add" \/ w
    BY <2>2 DEF Seeing, Start
  <2> QED
    BY <2>1, <2>2
<1>7. Achieved(t)'
  BY DEF Achieved, Start
<1> QED
  BY <1>1, <1>2, <1>3, <1>4, <1>5, <1>6, <1>7 DEF OwnPart, Phase

LEMMA FindDefaultOwn ==
  ASSUME TypeOK, SerialInv, NEW t \in Request, FindDefault(t)
  PROVE  OwnPart(t)'
<1> USE DEF TypeOK, Active, Goto, Throw, Live, Visible, TargetUser, Book_of,
    AddressesOf, PCs, Statements, Commands
<1>0. t \in Active /\ Phase(t)
  BY DEF FindDefault, SerialInv
<1>1. LocksOwn'
  BY <1>0 DEF SerialInv, LiveOwned, Phase, Labelled, LocksOwn, FindDefault, table, locals
<1>2. LiveOwned'
  BY <1>0 DEF SerialInv, LiveOwned, FindDefault, table, locals
<1>3. Labelled(t)'
  BY <1>0 DEF Phase, Labelled, VisibleDefaults, FindDefault, table, locals
<1>4. Holding(t)'
  BY <1>0 DEF Phase, Labelled, Holding, VisibleDefaults, FindDefault, table, locals
<1>5. Targeting(t)'
  BY <1>0 DEF Phase, Labelled, Targeting, FindDefault, table, locals
<1>6. Seeing(t)'
  BY <1>0 DEF Phase, Labelled, Seeing, VisibleDefaults, VisibleAddresses, FindDefault, table, locals
<1>7. Achieved(t)'
  BY <1>0 DEF Phase, Labelled, Achieved, VisibleDefaults, VisibleAddresses, LiveOf, Holding, FindDefault, table, locals
<1> QED
  BY <1>1, <1>2, <1>3, <1>4, <1>5, <1>6, <1>7 DEF OwnPart, Phase

LEMMA FindAllOwn ==
  ASSUME TypeOK, SerialInv, NEW t \in Request, FindAll(t)
  PROVE  OwnPart(t)'
<1> USE DEF TypeOK, Active, Goto, Throw, Live, Visible, TargetUser, Book_of,
    AddressesOf, PCs, Statements, Commands
<1>0. t \in Active /\ Phase(t)
  BY DEF FindAll, SerialInv
<1>1. LocksOwn'
  BY <1>0 DEF SerialInv, LiveOwned, Phase, Labelled, LocksOwn, FindAll, table
<1>2. LiveOwned'
  BY <1>0 DEF SerialInv, LiveOwned, FindAll, table
<1>3. Labelled(t)'
  BY <1>0 DEF Phase, Labelled, VisibleDefaults, FindAll, table
<1>4. Holding(t)'
  BY <1>0 DEF Phase, Labelled, Holding, VisibleDefaults, FindAll, table
<1>5. Targeting(t)'
  BY <1>0 DEF Phase, Labelled, Targeting, FindAll, table
<1>6. Seeing(t)'
  BY <1>0 DEF Phase, Labelled, Seeing, VisibleDefaults, VisibleAddresses, FindAll, table
<1>7. Achieved(t)'
  <2>1. isDefault'[t] \/ LiveOf(TargetUser(t)) # {}
    <3>1. SUFFICES ASSUME ~ isDefault'[t] PROVE LiveOf(TargetUser(t)) # {}
      OBVIOUS
    <3>2. PICK a \in VisibleAddresses(t) : TRUE
      BY <3>1 DEF FindAll
    <3>3. a \in LiveOf(TargetUser(t))
      BY <1>0, <3>2 DEF VisibleAddresses, LiveOf, Phase, Labelled, Holding, FindAll
    <3> QED
      BY <3>3
  <2>2. LiveOf(TargetUser(t))' = LiveOf(TargetUser(t))
    BY DEF FindAll, table, LiveOf
  <2> QED
    BY <1>0, <2>1, <2>2 DEF Achieved, FindAll, Phase, Labelled
<1> QED
  BY <1>1, <1>2, <1>3, <1>4, <1>5, <1>6, <1>7 DEF OwnPart, Phase

LEMMA InsertOwn ==
  ASSUME TypeOK, SerialInv, NEW t \in Request, Insert(t)
  PROVE  OwnPart(t)'
<1> USE DEF TypeOK, Active, Goto, Throw, Live, Visible, TargetUser, Book_of,
    AddressesOf, PCs, Statements, Commands
<1>0. t \in Active /\ Phase(t)
  BY DEF Insert, SerialInv
<1>1. LocksOwn'
  BY <1>0 DEF SerialInv, LiveOwned, Phase, Labelled, LocksOwn, Insert, WriteRow, table
<1>2. LiveOwned'
  BY <1>0 DEF SerialInv, LiveOwned, Insert, WriteRow, table
<1>3. Labelled(t)'
  BY <1>0 DEF Phase, Labelled, VisibleDefaults, Insert, WriteRow, table
<1>4. Holding(t)'
  BY <1>0 DEF Phase, Labelled, Holding, VisibleDefaults, Insert, WriteRow, table
<1>5. Targeting(t)'
  BY <1>0 DEF Phase, Labelled, Targeting, Insert, WriteRow, table
<1>6. Seeing(t)'
  BY <1>0 DEF Phase, Labelled, Seeing, VisibleDefaults, VisibleAddresses, Insert, WriteRow, table
<1>7. Achieved(t)'
  <2>1. LiveOf(TargetUser(t))' = LiveOf(TargetUser(t))
    BY DEF Insert, WriteRow, table, LiveOf
  <2>2. op'[t] = "add" /\ arg' = arg /\ isDefault' = isDefault /\ users' = users
    BY <1>0 DEF Insert, Phase, Labelled
  <2>3. pc'[t] = "commit" => owner'[arg[t]] = t
    BY DEF Insert, WriteRow
  <2>4. pc'[t] = "commit" /\ isDefault[t] => VisibleDefaults(t)' = {arg[t]}
    <3>1. isDefault[t] => VisibleDefaults(t) = {}
      BY <1>0 DEF Insert, Phase, Seeing
    <3> QED
      BY <3>1 DEF Insert, WriteRow, VisibleDefaults
  <2>5. ~ isDefault[t] => LiveOf(TargetUser(t)) # {} \/ TargetUser(t) \notin users
    BY <1>0 DEF Phase, Labelled, Achieved, Insert
  <2> QED
    BY <2>1, <2>2, <2>3, <2>4, <2>5 DEF Achieved
<1> QED
  BY <1>1, <1>2, <1>3, <1>4, <1>5, <1>6, <1>7 DEF OwnPart, Phase

LEMMA UnsetOwn ==
  ASSUME TypeOK, SerialInv, NEW t \in Request, Unset(t)
  PROVE  OwnPart(t)'
<1> USE DEF TypeOK, Active, Goto, Throw, Live, Visible, TargetUser, Book_of,
    AddressesOf, PCs, Statements, Commands
<1>0. t \in Active /\ Phase(t)
  BY DEF Unset, SerialInv
<1>1. LocksOwn'
  BY <1>0 DEF SerialInv, LiveOwned, Phase, Labelled, LocksOwn, Unset, table
<1>2. LiveOwned'
  BY <1>0 DEF SerialInv, LiveOwned, Unset, table
<1>3. Labelled(t)'
  BY <1>0 DEF Phase, Labelled, VisibleDefaults, Unset, table
<1>4. Holding(t)'
  BY <1>0 DEF Phase, Labelled, Holding, VisibleDefaults, Unset, table
<1>5. Targeting(t)'
  BY <1>0 DEF Phase, Labelled, Targeting, Unset, table
<1>6. Seeing(t)'
  BY <1>0 DEF Phase, Labelled, Seeing, VisibleDefaults, VisibleAddresses, Unset, table
<1>7. Achieved(t)'
  BY <1>0 DEF Phase, Labelled, Achieved, VisibleDefaults, VisibleAddresses, LiveOf, Holding, Unset, table
<1> QED
  BY <1>1, <1>2, <1>3, <1>4, <1>5, <1>6, <1>7 DEF OwnPart, Phase

LEMMA UnsetRowOwn ==
  ASSUME TypeOK, SerialInv, NEW t \in Request, NEW a \in Row, UnsetRow(t, a)
  PROVE  OwnPart(t)'
<1> USE DEF TypeOK, Active, Goto, Throw, Live, Visible, TargetUser, Book_of,
    AddressesOf, PCs, Statements, Commands
<1>0. t \in Active /\ Phase(t)
  BY DEF UnsetRow, SerialInv
<1>1. LocksOwn'
  BY <1>0 DEF SerialInv, LiveOwned, Phase, Labelled, LocksOwn, UnsetRow, WriteRow, Available, table
<1>2. LiveOwned'
  BY <1>0 DEF SerialInv, LiveOwned, UnsetRow, WriteRow, Available, table
<1>3. Labelled(t)'
  BY <1>0 DEF Phase, Labelled, VisibleDefaults, UnsetRow, WriteRow, Available, table
<1>4. Holding(t)'
  <2>1. CASE Visible(t, a) # "default"
    BY <1>0, <2>1 DEF Phase, Labelled, Holding, UnsetRow, table
  <2>2. CASE Visible(t, a) = "default"
    <3>1. db[a] = "default"
      BY <1>0, <2>2 DEF Phase, Labelled, Holding, UnsetRow
    <3>2. op[t] = "add" => a # arg[t] /\ isDefault[t]
      BY <1>0, <3>1 DEF Phase, Labelled, Targeting, UnsetRow
    <3> QED
      BY <1>0, <2>2, <3>1, <3>2 DEF Phase, Labelled, Holding, UnsetRow, WriteRow
  <2> QED
    BY <2>1, <2>2
<1>5. Targeting(t)'
  BY <1>0 DEF Phase, Labelled, Targeting, UnsetRow, WriteRow, Available, table
<1>6. Seeing(t)'
  BY <1>0 DEF Phase, Labelled, Seeing, VisibleDefaults, VisibleAddresses, UnsetRow, WriteRow, Available, table
<1>7. Achieved(t)'
  BY <1>0 DEF Phase, Labelled, Achieved, VisibleDefaults, VisibleAddresses, LiveOf, Holding, UnsetRow, WriteRow, Available, table
<1> QED
  BY <1>1, <1>2, <1>3, <1>4, <1>5, <1>6, <1>7 DEF OwnPart, Phase

LEMMA UnsetDoneOwn ==
  ASSUME TypeOK, SerialInv, NEW t \in Request, UnsetDone(t)
  PROVE  OwnPart(t)'
<1> USE DEF TypeOK, Active, Goto, Throw, Live, Visible, TargetUser, Book_of,
    AddressesOf, PCs, Statements, Commands
<1>0. t \in Active /\ Phase(t)
  BY DEF UnsetDone, SerialInv
<1>1. LocksOwn'
  BY <1>0 DEF SerialInv, LiveOwned, Phase, Labelled, LocksOwn, UnsetDone, table, locals
<1>2. LiveOwned'
  BY <1>0 DEF SerialInv, LiveOwned, UnsetDone, table, locals
<1>3. Labelled(t)'
  BY <1>0 DEF Phase, Labelled, VisibleDefaults, UnsetDone, table, locals
<1>4. Holding(t)'
  BY <1>0 DEF Phase, Labelled, Holding, VisibleDefaults, UnsetDone, table, locals
<1>5. Targeting(t)'
  BY <1>0 DEF Phase, Labelled, Targeting, UnsetDone, table, locals
<1>6. Seeing(t)'
  BY <1>0 DEF Phase, Labelled, Seeing, VisibleDefaults, VisibleAddresses, UnsetDone, table, locals
<1>7. Achieved(t)'
  BY <1>0 DEF Phase, Labelled, Achieved, VisibleDefaults, VisibleAddresses, LiveOf, Holding, UnsetDone, table, locals
<1> QED
  BY <1>1, <1>2, <1>3, <1>4, <1>5, <1>6, <1>7 DEF OwnPart, Phase

LEMMA FindOwn ==
  ASSUME TypeOK, SerialInv, NEW t \in Request, Find(t)
  PROVE  OwnPart(t)'
<1> USE DEF TypeOK, Active, Goto, Throw, Live, Visible, TargetUser, Book_of,
    AddressesOf, PCs, Statements, Commands
<1>0. t \in Active /\ Phase(t)
  BY DEF Find, SerialInv
<1>1. LocksOwn'
  BY <1>0 DEF SerialInv, LiveOwned, Phase, Labelled, LocksOwn, Find, table
<1>2. LiveOwned'
  BY <1>0 DEF SerialInv, LiveOwned, Find, table
<1>3. Labelled(t)'
  BY <1>0 DEF Phase, Labelled, VisibleDefaults, Find, table
<1>4. Holding(t)'
  BY <1>0 DEF Phase, Labelled, Holding, VisibleDefaults, Find, table
<1>5. Targeting(t)'
  <2>1. Visible(t, arg[t]) = db[arg[t]]
    BY <1>0 DEF Phase, Labelled, Holding, Find
  <2> QED
    BY <1>0, <2>1 DEF Phase, Labelled, Targeting, Find, table
<1>6. Seeing(t)'
  BY <1>0 DEF Phase, Labelled, Seeing, VisibleDefaults, VisibleAddresses, Find, table
<1>7. Achieved(t)'
  BY <1>0 DEF Phase, Labelled, Achieved, VisibleDefaults, VisibleAddresses, LiveOf, Holding, Find, table
<1> QED
  BY <1>1, <1>2, <1>3, <1>4, <1>5, <1>6, <1>7 DEF OwnPart, Phase

LEMMA SetOwn ==
  ASSUME TypeOK, SerialInv, NEW t \in Request, Set(t)
  PROVE  OwnPart(t)'
<1> USE DEF TypeOK, Active, Goto, Throw, Live, Visible, TargetUser, Book_of,
    AddressesOf, PCs, Statements, Commands
<1>0. t \in Active /\ Phase(t)
  BY DEF Set, SerialInv
<1>1. LocksOwn'
  BY <1>0 DEF SerialInv, LiveOwned, Phase, Labelled, LocksOwn, Set, PointWrite, WriteRow, Available, table, locals
<1>2. LiveOwned'
  BY <1>0 DEF SerialInv, LiveOwned, Set, PointWrite, WriteRow, Available, table, locals
<1>3. Labelled(t)'
  BY <1>0 DEF Phase, Labelled, VisibleDefaults, Set, PointWrite, WriteRow, Available, table, locals
<1>4. Holding(t)'
  BY <1>0 DEF Phase, Labelled, Holding, VisibleDefaults, Set, PointWrite, WriteRow, Available, table, locals
<1>5. Targeting(t)'
  BY <1>0 DEF Phase, Labelled, Targeting, Set, PointWrite, WriteRow, Available, table, locals
<1>6. Seeing(t)'
  BY <1>0 DEF Phase, Labelled, Seeing, VisibleDefaults, VisibleAddresses, Set, PointWrite, WriteRow, Available, table, locals
<1>7. Achieved(t)'
  <2>1. VisibleDefaults(t) = {} /\ op[t] = "setDefault" /\ op' = op /\ arg' = arg
        /\ users' = users
    BY <1>0 DEF Phase, Labelled, Seeing, Set, PointWrite, locals
  <2>2. CASE Visible(t, arg[t]) \in Live
    <3>1. owner'[arg[t]] = t /\ VisibleDefaults(t)' = {arg[t]}
      BY <2>1, <2>2 DEF VisibleDefaults, Set, PointWrite, WriteRow
    <3> QED
      BY <2>1, <3>1 DEF Achieved
  <2>3. CASE Visible(t, arg[t]) \notin Live
    <3>1. TargetUser(t) \notin users
      BY <1>0, <2>3 DEF Phase, Labelled, Targeting, Holding, Set
    <3> QED
      BY <2>1, <3>1 DEF Achieved
  <2> QED
    BY <2>2, <2>3
<1> QED
  BY <1>1, <1>2, <1>3, <1>4, <1>5, <1>6, <1>7 DEF OwnPart, Phase

LEMMA EraseOwn ==
  ASSUME TypeOK, SerialInv, NEW t \in Request, Erase(t)
  PROVE  OwnPart(t)'
<1> USE DEF TypeOK, Active, Goto, Throw, Live, Visible, TargetUser, Book_of,
    AddressesOf, PCs, Statements, Commands
<1>0. t \in Active /\ Phase(t)
  BY DEF Erase, SerialInv
<1>1. LocksOwn'
  BY <1>0 DEF SerialInv, LiveOwned, Phase, Labelled, LocksOwn, Erase, PointWrite, WriteRow, Available, table, locals
<1>2. LiveOwned'
  BY <1>0 DEF SerialInv, LiveOwned, Erase, PointWrite, WriteRow, Available, table, locals
<1>3. Labelled(t)'
  BY <1>0 DEF Phase, Labelled, VisibleDefaults, Erase, PointWrite, WriteRow, Available, table, locals
<1>4. Holding(t)'
  <2>1. Visible(t, arg[t]) = db[arg[t]] /\ db[arg[t]] # "default"
    BY <1>0 DEF Phase, Labelled, Holding, Targeting, Erase
  <2> QED
    BY <1>0, <2>1 DEF Phase, Labelled, Holding, Erase, PointWrite, WriteRow, table,
       locals
<1>5. Targeting(t)'
  BY <1>0 DEF Phase, Labelled, Targeting, Erase, PointWrite, WriteRow, Available, table, locals
<1>6. Seeing(t)'
  BY <1>0 DEF Phase, Labelled, Seeing, VisibleDefaults, VisibleAddresses, Erase, PointWrite, WriteRow, Available, table, locals
<1>7. Achieved(t)'
  BY <1>0 DEF Phase, Labelled, Achieved, VisibleDefaults, VisibleAddresses, LiveOf, Holding, Erase, PointWrite, WriteRow, Available, table, locals
<1> QED
  BY <1>1, <1>2, <1>3, <1>4, <1>5, <1>6, <1>7 DEF OwnPart, Phase

LEMMA WriteOwn ==
  ASSUME TypeOK, SerialInv, NEW t \in Request, Write(t)
  PROVE  OwnPart(t)'
<1> USE DEF TypeOK, Active, Goto, Throw, Live, Visible, TargetUser, Book_of,
    AddressesOf, PCs, Statements, Commands
<1>0. t \in Active /\ Phase(t)
  BY DEF Write, SerialInv
<1>1. LocksOwn'
  BY <1>0 DEF SerialInv, LiveOwned, Phase, Labelled, LocksOwn, Write, PointWrite, WriteRow, Available, table, locals
<1>2. LiveOwned'
  BY <1>0 DEF SerialInv, LiveOwned, Write, PointWrite, WriteRow, Available, table, locals
<1>3. Labelled(t)'
  BY <1>0 DEF Phase, Labelled, VisibleDefaults, Write, PointWrite, WriteRow, Available, table, locals
<1>4. Holding(t)'
  BY <1>0 DEF Phase, Labelled, Holding, VisibleDefaults, Write, PointWrite, WriteRow, Available, table, locals
<1>5. Targeting(t)'
  BY <1>0 DEF Phase, Labelled, Targeting, Write, PointWrite, WriteRow, Available, table, locals
<1>6. Seeing(t)'
  BY <1>0 DEF Phase, Labelled, Seeing, VisibleDefaults, VisibleAddresses, Write, PointWrite, WriteRow, Available, table, locals
<1>7. Achieved(t)'
  BY <1>0 DEF Phase, Labelled, Achieved, VisibleDefaults, VisibleAddresses, LiveOf, Holding, Write, PointWrite, WriteRow, Available, table, locals
<1> QED
  BY <1>1, <1>2, <1>3, <1>4, <1>5, <1>6, <1>7 DEF OwnPart, Phase

LEMMA RereadOwn ==
  ASSUME TypeOK, SerialInv, NEW t \in Request, Reread(t)
  PROVE  OwnPart(t)'
<1> USE DEF TypeOK, Active, Goto, Throw, Live, Visible, TargetUser, Book_of,
    AddressesOf, PCs, Statements, Commands
<1>0. t \in Active /\ Phase(t)
  BY DEF Reread, SerialInv
<1>1. LocksOwn'
  BY <1>0 DEF SerialInv, LiveOwned, Phase, Labelled, LocksOwn, Reread, table
<1>2. LiveOwned'
  BY <1>0 DEF SerialInv, LiveOwned, Reread, table
<1>3. Labelled(t)'
  BY <1>0 DEF Phase, Labelled, VisibleDefaults, Reread, table
<1>4. Holding(t)'
  BY <1>0 DEF Phase, Labelled, Holding, VisibleDefaults, Reread, table
<1>5. Targeting(t)'
  BY <1>0 DEF Phase, Labelled, Targeting, Reread, table
<1>6. Seeing(t)'
  BY <1>0 DEF Phase, Labelled, Seeing, VisibleDefaults, VisibleAddresses, Reread, table
<1>7. Achieved(t)'
  BY <1>0 DEF Phase, Labelled, Achieved, VisibleDefaults, VisibleAddresses, LiveOf, Holding, Reread, table
<1> QED
  BY <1>1, <1>2, <1>3, <1>4, <1>5, <1>6, <1>7 DEF OwnPart, Phase

LEMMA DeadlockAbortOwn ==
  ASSUME TypeOK, SerialInv, NEW t \in Request, DeadlockAbort(t)
  PROVE  OwnPart(t)'
<1> USE DEF TypeOK, Active, Goto, Throw, Live, Visible, TargetUser, Book_of,
    AddressesOf, PCs, Statements, Commands
<1>0. t \in Active /\ Phase(t)
  BY AbortedWaits DEF SerialInv
<1>1. LocksOwn'
  BY <1>0 DEF SerialInv, LiveOwned, Phase, Labelled, LocksOwn, DeadlockAbort, table
<1>2. LiveOwned'
  BY <1>0 DEF SerialInv, LiveOwned, DeadlockAbort, table
<1>3. Labelled(t)'
  BY <1>0 DEF Phase, Labelled, VisibleDefaults, DeadlockAbort, table
<1>4. Holding(t)'
  BY <1>0 DEF Phase, Labelled, Holding, VisibleDefaults, DeadlockAbort, table
<1>5. Targeting(t)'
  BY <1>0 DEF Phase, Labelled, Targeting, DeadlockAbort, table
<1>6. Seeing(t)'
  BY <1>0 DEF Phase, Labelled, Seeing, VisibleDefaults, VisibleAddresses, DeadlockAbort, table
<1>7. Achieved(t)'
  BY <1>0 DEF Phase, Labelled, Achieved, VisibleDefaults, VisibleAddresses, LiveOf, Holding, DeadlockAbort, table
<1> QED
  BY <1>1, <1>2, <1>3, <1>4, <1>5, <1>6, <1>7 DEF OwnPart, Phase

(* The end of a transaction, whichever way it ends.                        *)
Ends(t) ==
    /\ (pc[t] = "commit" /\ CommitRows(t)) \/ RollbackRows(t)
    /\ Goto(t, "idle")
    /\ UNCHANGED <<users, op, arg>>

LEMMA EndOwn ==
  ASSUME TypeOK, SerialInv, NEW t \in Active, Ends(t)
  PROVE  OwnPart(t)'
<1> USE DEF TypeOK, Active, Goto, Live, TargetUser
<1>1. t \notin Active'
  BY DEF Ends
<1>2. LocksOwn'
  BY DEF SerialInv, LocksOwn, Ends, CommitRows, RollbackRows, ReleaseLocks
<1>3. LiveOwned'
  BY DEF SerialInv, LocksOwn, LiveOwned, Ends, CommitRows, RollbackRows, ReleaseLocks
<1> QED
  BY <1>1, <1>2, <1>3 DEF OwnPart

LEMMA RemoveUserStep ==
  ASSUME TypeOK, SerialInv, NEW u \in User, RemoveUser(u)
  PROVE  SerialInv'
<1> USE DEF TypeOK, Active, Live, TargetUser
<1>1. Alone'
  BY DEF SerialInv, Alone, RemoveUser, locals
<1>2. LocksOwn'
  BY DEF SerialInv, LocksOwn, RemoveUser, locals, AddressesOf
<1>3. LiveOwned'
  BY DEF SerialInv, LiveOwned, RemoveUser
<1>4. ASSUME NEW s \in Active' PROVE Phase(s)'
  <2>1. s \in Active /\ Phase(s)
    BY <1>4 DEF RemoveUser, locals, SerialInv
  <2>2. /\ pc'[s] = pc[s] /\ op'[s] = op[s] /\ arg'[s] = arg[s]
        /\ isDefault'[s] = isDefault[s] /\ todo'[s] = todo[s] /\ owner' = owner
    BY DEF RemoveUser, locals
  <2>3. Book_of(s)' = Book_of(s) /\ arg[s] \in Book_of(s)
    BY <2>1, <2>2 DEF Book_of, AddressesOf
  <2>4. CASE TargetUser(s) # u
    <3>2. \A a \in Book_of(s) : db'[a] = db[a] /\ dirty'[a] = dirty[a]
      BY <2>4 DEF RemoveUser, Book_of, AddressesOf
    <3>3. TargetUser(s) \in users' <=> TargetUser(s) \in users
      BY <2>4 DEF RemoveUser
    <3>4. VisibleDefaults(s)' = VisibleDefaults(s)
      BY <2>2, <2>3, <3>2 DEF VisibleDefaults, Visible, Book_of
    <3>5. LiveOf(TargetUser(s))' = LiveOf(TargetUser(s))
      BY <2>2, <2>3, <3>2 DEF LiveOf, Book_of
    <3>6. Labelled(s)'
      BY <2>1, <2>2, <2>3 DEF Phase, Labelled
    <3>7. Holding(s)'
      BY <2>1, <2>2, <2>3, <3>2 DEF Phase, Holding
    <3>8. Targeting(s)'
      BY <2>1, <2>2, <2>3, <3>2, <3>3 DEF Phase, Targeting
    <3>9. Seeing(s)'
      BY <2>1, <2>2, <3>4 DEF Phase, Seeing
    <3>10. Achieved(s)'
      BY <2>1, <2>2, <3>3, <3>4, <3>5 DEF Phase, Achieved
    <3> QED
      BY <3>6, <3>7, <3>8, <3>9, <3>10 DEF Phase
  <2>5. CASE TargetUser(s) = u
    <3>1. \A a \in Book_of(s) : owner[a] = NoRequest /\ owner'[a] # s
      BY <2>1, <2>2, <2>5 DEF RemoveUser, Book_of, AddressesOf
    <3>2. \A a \in Book_of(s) :
            db'[a] # "default" /\ (db[a] = "unborn" => db'[a] = "unborn")
      BY <2>5 DEF RemoveUser, Book_of, AddressesOf, Status
    <3>3. TargetUser(s)' \notin users'
      BY <2>2, <2>5 DEF RemoveUser
    <3>4. VisibleDefaults(s)' = {}
      BY <2>2, <2>3, <3>1, <3>2 DEF VisibleDefaults, Visible, Book_of
    <3>5. Labelled(s)'
      BY <2>1, <2>2, <2>3 DEF Phase, Labelled
    <3>6. Holding(s)'
      BY <2>2, <2>3, <3>1 DEF Holding
    <3>7. Targeting(s)'
      BY <2>1, <2>2, <2>3, <3>2, <3>3 DEF Phase, Targeting
    <3>8. Seeing(s)'
      BY <3>4 DEF Seeing
    <3>9. ~ (op[s] = "add" /\ pc[s] = "commit")
      BY <2>1, <2>3, <3>1 DEF Phase, Achieved
    <3>10. Achieved(s)'
      BY <2>2, <3>3, <3>9 DEF Achieved
    <3> QED
      BY <3>5, <3>6, <3>7, <3>8, <3>10 DEF Phase
  <2> QED
    BY <2>4, <2>5
<1> QED
  BY <1>1, <1>2, <1>3, <1>4 DEF SerialInv

(* The invariant is preserved as long as a request about a user waits for  *)
(* the earlier one.                                                        *)
LEMMA SerialStep ==
  ASSUME TypeOK, TypeOK', SerialInv, Overlap = FALSE, [Next]_vars
  PROVE  SerialInv'
<1>1. ASSUME NEW t \in Request, StepOf(t) PROVE SerialInv'
  <2>1. Apart(t)
    BY <1>1, StepsApart
  <2>2. /\ \A s \in Active \ {t} : s \in Request /\ TargetUser(s) # UserOf[arg'[t]]
        /\ t \in Active \/ \E c \in Ops, a \in Row, w \in BOOLEAN : Start(t, c, a, w)
    <3> USE DEF Active, TargetUser, Goto, Throw, TypeOK
    <3>1. ASSUME NEW c \in Ops, NEW a \in Row, NEW w \in BOOLEAN, Start(t, c, a, w)
          PROVE  \A s \in Active \ {t} : TargetUser(s) # UserOf[arg'[t]]
      BY <3>1 DEF Start
    <3>2. CASE ConnectionLost(t)
      BY <3>2 DEF ConnectionLost, Answer, SerialInv, Alone
    <3>3. CASE Advance(t)
      <4>1. t \in Active
        BY <3>3, AbortedWaits DEF Advance, FindDefault, FindAll, Insert, Unset,
           UnsetRow, UnsetDone, Find, Set, Erase, Write, Reread, Commit, Rollback
      <4>2. arg' = arg
        BY <3>3 DEF Advance, FindDefault, FindAll, Insert, Unset, UnsetRow, UnsetDone,
           Find, Set, Erase, Write, Reread, Commit, Rollback, DeadlockAbort, PointWrite,
           Answer, locals
      <4> QED
        BY <4>1, <4>2 DEF SerialInv, Alone
    <3> QED
      BY <1>1, <3>1, <3>2, <3>3 DEF StepOf
  <2>3. OwnPart(t)'
    <3>1. CASE \E c \in Ops, a \in Row, w \in BOOLEAN : Start(t, c, a, w)
      BY <3>1, StartOwn
    <3>2. ASSUME NEW a \in Row, UnsetRow(t, a) PROVE OwnPart(t)'
      BY <3>2, UnsetRowOwn
    <3>3. CASE Commit(t) \/ Rollback(t) \/ ConnectionLost(t)
      <4>1. t \in Active /\ Ends(t)
        BY <3>3 DEF Commit, Rollback, ConnectionLost, Ends, Answer, Active
      <4> QED
        BY <4>1, EndOwn
    <3> QED
      BY <1>1, <3>1, <3>2, <3>3, FindDefaultOwn, FindAllOwn, InsertOwn, UnsetOwn,
         UnsetDoneOwn, FindOwn, SetOwn, EraseOwn, WriteOwn, RereadOwn, DeadlockAbortOwn
         DEF StepOf, Advance
  <2>4. ASSUME NEW s \in Active', s # t
        PROVE  s \in Active /\ TargetUser(s)' = TargetUser(s) /\ Phase(s)'
    <3>1. s \in Active /\ TargetUser(s)' = TargetUser(s)
      BY <2>1, <2>4 DEF Apart, Active, TargetUser
    <3>2. TargetUser(s) # UserOf[arg'[t]] /\ Phase(s)
      BY <2>2, <2>4, <3>1 DEF SerialInv
    <3> QED
      BY <2>1, <2>4, <3>1, <3>2, OthersKept
  <2>5. Alone'
    <3> SUFFICES ASSUME NEW r \in Active', NEW s \in Active', r # s
                 PROVE  TargetUser(r)' # TargetUser(s)'
      BY DEF Alone
    <3>1. TargetUser(t)' = UserOf[arg'[t]]
      BY DEF TargetUser
    <3>2. CASE r # t /\ s # t
      BY <2>4, <3>2 DEF SerialInv, Alone
    <3>3. CASE r = t \/ s = t
      BY <2>2, <2>4, <3>1, <3>3
    <3> QED
      BY <3>2, <3>3
  <2> QED
    BY <2>3, <2>4, <2>5 DEF SerialInv, OwnPart
<1>2. ASSUME NEW u \in User, RemoveUser(u) PROVE SerialInv'
  BY <1>2, RemoveUserStep
<1>3. CASE UNCHANGED vars
  BY <1>3 DEF vars, table, locals, SerialInv, Alone, LocksOwn, LiveOwned, Phase,
     Labelled, Holding, Targeting, Seeing, Achieved, Active, TargetUser, Book_of,
     VisibleDefaults, Visible, LiveOf, AddressesOf
<1> QED
  BY <1>1, <1>2, <1>3 DEF Next, StepOf

-----------------------------------------------------------------------------
(* What a commit does to the table, by command.                            *)

Committed(t) == pc[t] = "commit" /\ CommitRows(t) /\ UNCHANGED users

LEMMA CommitOfOwn ==
  ASSUME TypeOK, SerialInv, NEW t \in Request, Committed(t)
  PROVE  /\ t \in Active /\ Phase(t)
         /\ \A a \in Row : db'[a] = Visible(t, a)
         /\ \A a \in Row : owner[a] = t => a \in Book_of(t) /\ TargetUser(t) \in users
         /\ \A u \in User : u # TargetUser(t) =>
                LiveOf(u)' = LiveOf(u) /\ DefaultsOf(u)' = DefaultsOf(u)
<1> USE DEF Committed, CommitRows, Visible
<1>1. t \in Active /\ Phase(t)
  BY DEF Active, SerialInv
<1>2. \A a \in Row : db'[a] = Visible(t, a)
  OBVIOUS
<1>3. \A a \in Row : owner[a] = t => a \in Book_of(t) /\ TargetUser(t) \in users
  BY DEF SerialInv, LocksOwn, Book_of, AddressesOf
<1>4. ASSUME NEW u \in User, u # TargetUser(t)
      PROVE  LiveOf(u)' = LiveOf(u) /\ DefaultsOf(u)' = DefaultsOf(u)
  <2>1. \A a \in AddressesOf(u) : db'[a] = db[a]
    BY <1>2, <1>3, <1>4 DEF Book_of, AddressesOf
  <2> QED
    BY <2>1 DEF LiveOf, DefaultsOf, AddressesOf
<1> QED
  BY <1>1, <1>2, <1>3, <1>4

LEMMA CommitAdd ==
  ASSUME TypeOK, SerialInv, NEW t \in Request, Committed(t), op[t] = "add"
  PROVE  \E w \in BOOLEAN : Book!Add(TargetUser(t), arg[t], w)
<1>0. PICK u \in User, a \in Row : u = TargetUser(t) /\ a = arg[t]
  BY DEF TypeOK, TargetUser
<1> USE DEF Live
<1>1. /\ t \in Active /\ Phase(t)
      /\ \A b \in Row : db'[b] = Visible(t, b)
      /\ \A b \in Row : owner[b] = t => b \in Book_of(t) /\ u \in users
      /\ \A v \in User : v # u => LiveOf(v)' = LiveOf(v) /\ DefaultsOf(v)' = DefaultsOf(v)
  BY <1>0, CommitOfOwn
<1>2. a \in Row /\ u \in User /\ a \in AddressesOf(u) /\ owner[a] = t /\ db[a] = "unborn"
  BY <1>0, <1>1 DEF TypeOK, TargetUser, AddressesOf, Phase, Achieved, Targeting, Committed
<1>3. dirty[a] = IF isDefault[t] THEN "default" ELSE "plain"
  BY <1>0, <1>1, <1>2 DEF Phase, Holding, Book_of, Committed
<1>4. \A b \in Row : owner[b] = t /\ b # a =>
        db[b] \in Live /\ dirty[b] = "plain" /\ isDefault[t]
  BY <1>0, <1>1 DEF Phase, Holding, Committed
<1>5. u \in users
  BY <1>0, <1>1, <1>2
<1>6. \A b \in Row : b # a => (db'[b] # "unborn" <=> db[b] # "unborn")
                           /\ (db'[b] \in Live <=> db[b] \in Live)
  BY <1>0, <1>1, <1>4 DEF Visible
<1>7. db'[a] = IF isDefault[t] THEN "default" ELSE "plain"
  BY <1>0, <1>1, <1>2, <1>3 DEF Visible
<1>8. {b \in Row : db'[b] # "unborn"} = {b \in Row : db[b] # "unborn"} \cup {a}
  BY <1>0, <1>2, <1>6, <1>7
<1>9. LiveOf(u)' = LiveOf(u) \cup {a}
  BY <1>0, <1>2, <1>6, <1>7 DEF LiveOf, AddressesOf
<1>10. DefaultsOf(u)' = IF isDefault[t] THEN {a} ELSE DefaultsOf(u)
  <2>1. CASE isDefault[t]
    <3>1. VisibleDefaults(t) = {a}
      BY <1>0, <1>1, <2>1 DEF Phase, Achieved, Committed
    <3> QED
      BY <1>0, <1>1, <2>1, <3>1 DEF VisibleDefaults, DefaultsOf, AddressesOf
  <2>2. CASE ~ isDefault[t]
    <3>1. \A b \in Row : db'[b] = "default" <=> db[b] = "default"
      BY <1>0, <1>1, <1>2, <1>4, <1>7, <2>2 DEF Visible
    <3> QED
      BY <2>2, <3>1 DEF DefaultsOf, AddressesOf
  <2> QED
    BY <2>1, <2>2
<1>11. isDefault[t] \/ LiveOf(u) # {}
  BY <1>0, <1>1, <1>5 DEF Phase, Achieved, Committed
<1>12. [v \in User |-> LiveOf(v)]' = [[v \in User |-> LiveOf(v)] EXCEPT ![u] = @ \cup {a}]
  BY <1>0, <1>1, <1>2, <1>9
<1>13. [v \in User |-> DefaultsOf(v)]' =
         IF isDefault[t] THEN [[v \in User |-> DefaultsOf(v)] EXCEPT ![u] = {a}]
                         ELSE [v \in User |-> DefaultsOf(v)]
  BY <1>0, <1>1, <1>2, <1>10
<1>14. [v \in User |-> LiveOf(v)][u] = LiveOf(u)
  BY <1>0, <1>2
<1>15. CASE isDefault[t]
  <2>1. Book!Add(u, a, TRUE)
    BY <1>2, <1>5, <1>8, <1>12, <1>13, <1>15 DEF Book!Add, Committed
  <2> QED
    BY <1>0, <2>1
<1>16. CASE ~ isDefault[t]
  <2>1. Book!Add(u, a, FALSE)
    BY <1>2, <1>5, <1>8, <1>11, <1>12, <1>13, <1>14, <1>16 DEF Book!Add, Committed
  <2> QED
    BY <1>0, <2>1
<1> QED
  BY <1>15, <1>16

LEMMA CommitSetDefault ==
  ASSUME TypeOK, SerialInv, NEW t \in Request, Committed(t), op[t] = "setDefault"
  PROVE  Book!SetDefault(TargetUser(t), arg[t]) \/ UNCHANGED Book!vars
<1>0. PICK u \in User, a \in Row : u = TargetUser(t) /\ a = arg[t]
  BY DEF TypeOK, TargetUser
<1> USE DEF Live
<1>1. /\ t \in Active /\ Phase(t)
      /\ \A b \in Row : db'[b] = Visible(t, b)
      /\ \A b \in Row : owner[b] = t => b \in Book_of(t) /\ u \in users
      /\ \A v \in User : v # u => LiveOf(v)' = LiveOf(v) /\ DefaultsOf(v)' = DefaultsOf(v)
  BY <1>0, CommitOfOwn
<1>2. a \in Row /\ u \in User /\ a \in AddressesOf(u)
  BY <1>0 DEF TypeOK, TargetUser, AddressesOf
<1>3. \A b \in Row : owner[b] = t => db[b] \in Live /\ dirty[b] \in Live
  BY <1>0, <1>1 DEF Phase, Holding, Committed
<1>4. CASE u \notin users
  <2>1. \A b \in Row : db'[b] = db[b]
    BY <1>0, <1>1, <1>4 DEF Visible
  <2>2. UNCHANGED <<users, {b \in Row : db[b] # "unborn"},
                    [v \in User |-> LiveOf(v)], [v \in User |-> DefaultsOf(v)]>>
    BY <2>1 DEF LiveOf, DefaultsOf, AddressesOf, Committed
  <2> QED
    BY <2>2 DEF Book!vars
<1>5. CASE u \in users
  <2>1. owner[a] = t /\ VisibleDefaults(t) = {a}
    BY <1>0, <1>1, <1>5 DEF Phase, Achieved, Committed
  <2>2. \A b \in Row : (db'[b] # "unborn" <=> db[b] # "unborn")
                       /\ (db'[b] \in Live <=> db[b] \in Live)
    BY <1>0, <1>1, <1>3 DEF Visible
  <2>3. {b \in Row : db'[b] # "unborn"} = {b \in Row : db[b] # "unborn"}
    BY <2>2
  <2>4. LiveOf(u)' = LiveOf(u)
    BY <2>2 DEF LiveOf, AddressesOf
  <2>5. DefaultsOf(u)' = {a}
    BY <1>0, <1>1, <2>1 DEF VisibleDefaults, DefaultsOf, AddressesOf
  <2>6. a \in LiveOf(u)
    BY <1>0, <1>2, <1>3, <2>1 DEF LiveOf
  <2>7. [v \in User |-> LiveOf(v)]' = [v \in User |-> LiveOf(v)]
    BY <1>0, <1>1, <2>4
  <2>8. [v \in User |-> DefaultsOf(v)]' = [[v \in User |-> DefaultsOf(v)] EXCEPT ![u] = {a}]
    BY <1>0, <1>1, <1>2, <2>5
  <2> QED
    BY <1>0, <1>2, <2>3, <2>6, <2>7, <2>8 DEF Book!SetDefault, Committed
<1> QED
  BY <1>4, <1>5

LEMMA CommitUpdate ==
  ASSUME TypeOK, SerialInv, NEW t \in Request, Committed(t), op[t] = "update"
  PROVE  UNCHANGED Book!vars
<1>1. \A b \in Row : db'[b] = db[b]
  BY CommitOfOwn DEF Phase, Holding, Committed, Visible
<1>2. UNCHANGED <<users, {b \in Row : db[b] # "unborn"},
                  [v \in User |-> LiveOf(v)], [v \in User |-> DefaultsOf(v)]>>
  BY <1>1 DEF LiveOf, DefaultsOf, AddressesOf, Committed
<1> QED
  BY <1>2 DEF Book!vars

LEMMA CommitDelete ==
  ASSUME TypeOK, SerialInv, NEW t \in Request, Committed(t), op[t] = "delete"
  PROVE  Book!Delete(TargetUser(t), arg[t]) \/ UNCHANGED Book!vars
<1>0. PICK u \in User, a \in Row : u = TargetUser(t) /\ a = arg[t]
  BY DEF TypeOK, TargetUser
<1> USE DEF Live
<1>1. /\ t \in Active /\ Phase(t)
      /\ \A b \in Row : db'[b] = Visible(t, b)
      /\ \A b \in Row : owner[b] = t => b \in Book_of(t) /\ u \in users
      /\ \A v \in User : v # u => LiveOf(v)' = LiveOf(v) /\ DefaultsOf(v)' = DefaultsOf(v)
  BY <1>0, CommitOfOwn
<1>2. a \in Row /\ u \in User /\ a \in AddressesOf(u)
  BY <1>0 DEF TypeOK, TargetUser, AddressesOf
<1>3. \A b \in Row : owner[b] = t => b = a /\ db[b] = "plain" /\ dirty[b] = "deleted"
  BY <1>0, <1>1 DEF Phase, Holding, Committed
<1>4. CASE owner[a] # t
  <2>1. \A b \in Row : db'[b] = db[b]
    BY <1>0, <1>1, <1>3, <1>4 DEF Visible
  <2>2. UNCHANGED <<users, {b \in Row : db[b] # "unborn"},
                    [v \in User |-> LiveOf(v)], [v \in User |-> DefaultsOf(v)]>>
    BY <2>1 DEF LiveOf, DefaultsOf, AddressesOf, Committed
  <2> QED
    BY <2>2 DEF Book!vars
<1>5. CASE owner[a] = t
  <2>1. /\ \A b \in Row : b # a => db'[b] = db[b]
        /\ db[a] = "plain" /\ db'[a] = "deleted"
    BY <1>0, <1>1, <1>2, <1>3, <1>5 DEF Visible
  <2>2. {b \in Row : db'[b] # "unborn"} = {b \in Row : db[b] # "unborn"}
    BY <2>1
  <2>3. LiveOf(u)' = LiveOf(u) \ {a} /\ DefaultsOf(u)' = DefaultsOf(u)
    BY <1>0, <1>2, <2>1 DEF LiveOf, DefaultsOf, AddressesOf
  <2>4. a \in LiveOf(u) \ DefaultsOf(u)
    BY <1>0, <1>2, <2>1 DEF LiveOf, DefaultsOf
  <2>5. [v \in User |-> LiveOf(v)]' = [[v \in User |-> LiveOf(v)] EXCEPT ![u] = @ \ {a}]
    BY <1>0, <1>1, <1>2, <2>3
  <2>6. [v \in User |-> DefaultsOf(v)]' = [v \in User |-> DefaultsOf(v)]
    BY <1>0, <1>1, <2>3
  <2> QED
    BY <1>0, <1>2, <2>2, <2>4, <2>5, <2>6 DEF Book!Delete, Committed
<1> QED
  BY <1>4, <1>5

-----------------------------------------------------------------------------
(* Every step is a step of the address book or changes nothing of it.      *)

LEMMA RemovalOfUser ==
  ASSUME TypeOK, NEW u \in User, RemoveUser(u)
  PROVE  Book!RemoveUser(u)
<1> USE DEF TypeOK, Live, Status
<1>1. \A a \in Row : /\ db'[a] # "unborn" <=> db[a] # "unborn"
                     /\ UserOf[a] = u => db'[a] \notin Live
                     /\ UserOf[a] # u => db'[a] = db[a]
  BY DEF RemoveUser
<1>2. {a \in Row : db'[a] # "unborn"} = {a \in Row : db[a] # "unborn"}
  BY <1>1
<1>3. LiveOf(u)' = {} /\ DefaultsOf(u)' = {}
  BY <1>1 DEF LiveOf, DefaultsOf, AddressesOf
<1>4. \A v \in User : v # u => LiveOf(v)' = LiveOf(v) /\ DefaultsOf(v)' = DefaultsOf(v)
  BY <1>1 DEF LiveOf, DefaultsOf, AddressesOf
<1>5. [v \in User |-> LiveOf(v)]' = [[v \in User |-> LiveOf(v)] EXCEPT ![u] = {}]
  BY <1>3, <1>4
<1>6. [v \in User |-> DefaultsOf(v)]' = [[v \in User |-> DefaultsOf(v)] EXCEPT ![u] = {}]
  BY <1>3, <1>4
<1> QED
  BY <1>2, <1>5, <1>6 DEF Book!RemoveUser, RemoveUser

LEMMA BookStep ==
  ASSUME TypeOK, SerialInv, [Next]_vars
  PROVE  [Book!Next]_(Book!vars)
<1>1. CASE UNCHANGED <<db, users>>
  <2>1. UNCHANGED <<users, {b \in Row : db[b] # "unborn"},
                    [v \in User |-> LiveOf(v)], [v \in User |-> DefaultsOf(v)]>>
    BY <1>1 DEF LiveOf, DefaultsOf, AddressesOf
  <2> QED
    BY <2>1 DEF Book!vars
<1>2. ASSUME NEW t \in Request, Committed(t) PROVE [Book!Next]_(Book!vars)
  <2>1. TargetUser(t) \in User /\ arg[t] \in Row /\ op[t] \in Commands
    BY DEF TypeOK, TargetUser
  <2>2. CASE op[t] = "add"
    BY <1>2, <2>1, <2>2, CommitAdd DEF Book!Next
  <2>3. CASE op[t] = "setDefault"
    BY <1>2, <2>1, <2>3, CommitSetDefault DEF Book!Next
  <2>4. CASE op[t] = "update"
    BY <1>2, <2>4, CommitUpdate
  <2>5. CASE op[t] = "delete"
    BY <1>2, <2>1, <2>5, CommitDelete DEF Book!Next
  <2> QED
    BY <2>1, <2>2, <2>3, <2>4, <2>5 DEF Commands
<1>3. ASSUME NEW u \in User, RemoveUser(u) PROVE [Book!Next]_(Book!vars)
  BY <1>3, RemovalOfUser DEF Book!Next
<1>4. ASSUME NEW t \in Request, ConnectionLost(t)
      PROVE  Committed(t) \/ UNCHANGED <<db, users>>
  BY <1>4 DEF ConnectionLost, Committed, RollbackRows, Answer
<1>5. ASSUME NEW t \in Request, Advance(t)
      PROVE  Committed(t) \/ UNCHANGED <<db, users>>
  BY <1>5 DEF Advance, FindDefault, FindAll, Insert, Unset, UnsetRow, UnsetDone, Find,
     Set, Erase, Write, Reread, Commit, Rollback, DeadlockAbort, PointWrite, WriteRow,
     RollbackRows, Committed, Answer, table, locals
<1>6. ASSUME NEW t \in Request, NEW c \in Ops, NEW a \in Row, NEW w \in BOOLEAN,
             Start(t, c, a, w)
      PROVE  UNCHANGED <<db, users>>
  BY <1>6 DEF Start, table
<1> QED
  BY <1>1, <1>2, <1>3, <1>4, <1>5, <1>6 DEF Next, vars, table

LEMMA SerialInit == Init => SerialInv
BY DEF Init, SerialInv, Alone, LocksOwn, LiveOwned, Active, Live

-----------------------------------------------------------------------------

(* While the requests about one user come one after the other, each finds  *)
(* and leaves the addresses in the state its statements count on.          *)
THEOREM SerialInvariance ==
  ASSUME Overlap = FALSE
  PROVE  Spec => []SerialInv
<1>1. TypeOK /\ TypeOK' /\ SerialInv /\ [Next]_vars => SerialInv'
  BY SerialStep
<1> QED
  BY <1>1, SerialInit, TypeCorrect, PTL DEF Spec

(* The four commands, statement by statement and with lost connections,    *)
(* implement the address book: each takes effect at its commit, at once or *)
(* not at all.                                                             *)
THEOREM ImplementsAddressBookHolds ==
  ASSUME Overlap = FALSE
  PROVE  Spec => ImplementsAddressBook
<1>1. Init => Book!Init
  <2> SUFFICES ASSUME Init PROVE Book!Init
    OBVIOUS
  <2>1. /\ {b \in Row : db[b] # "unborn"} = {}
        /\ \A v \in User : LiveOf(v) = {} /\ DefaultsOf(v) = {}
    BY DEF Init, LiveOf, DefaultsOf, AddressesOf, Live
  <2> QED
    BY <2>1 DEF Init, Book!Init
<1>2. TypeOK /\ SerialInv /\ [Next]_vars => [Book!Next]_(Book!vars)
  BY BookStep
<1> QED
  BY <1>1, <1>2, TypeCorrect, SerialInvariance, PTL DEF Spec, ImplementsAddressBook, Book!Spec

(* A user never has two default addresses: no step of the address book     *)
(* makes a second one.                                                     *)
THEOREM AtMostOneDefaultHolds ==
  ASSUME Overlap = FALSE
  PROVE  Spec => []AtMostOneDefault
<1>1. Init => AtMostOneDefault
  BY DEF Init, AtMostOneDefault, DefaultsOf, AddressesOf
<1>2. TypeOK /\ SerialInv /\ AtMostOneDefault /\ [Next]_vars => AtMostOneDefault'
  <2> SUFFICES ASSUME TypeOK, SerialInv, AtMostOneDefault, [Next]_vars,
                      NEW u \in User
               PROVE  \A a, b \in DefaultsOf(u)' : a = b
    BY DEF AtMostOneDefault
  <2>1. [Book!Next]_(Book!vars)
    BY BookStep
  <2>2. /\ DefaultsOf(u) = [v \in User |-> DefaultsOf(v)][u]
        /\ DefaultsOf(u)' = [v \in User |-> DefaultsOf(v)]'[u]
    OBVIOUS
  <2>3. \/ DefaultsOf(u)' = DefaultsOf(u)
        \/ \E a : DefaultsOf(u)' = {a}
        \/ DefaultsOf(u)' = {}
    BY <2>1, <2>2 DEF Book!Next, Book!vars, Book!Add, Book!SetDefault, Book!Delete,
       Book!RemoveUser
  <2> QED
    BY <2>3 DEF AtMostOneDefault
<1> QED
  BY <1>1, <1>2, TypeCorrect, SerialInvariance, PTL DEF Spec

(* No request deletes the address that is the default when it commits.     *)
THEOREM DefaultNotDeletedHolds ==
  ASSUME Overlap = FALSE
  PROVE  Spec => DefaultNotDeleted
<1> DEFINE Step == \A a \in Row :
      db[a] = "default" /\ db'[a] = "deleted" => UserOf[a] \notin users'
<1>1. TypeOK /\ SerialInv /\ [Next]_vars => [Step]_vars
  <2> SUFFICES ASSUME TypeOK, SerialInv, [Next]_vars, NEW a \in Row,
                      db[a] = "default", db'[a] = "deleted"
               PROVE  UserOf[a] \notin users'
    OBVIOUS
  <2>1. PICK u \in User : u = UserOf[a]
    OBVIOUS
  <2>2. [Book!Next]_(Book!vars)
    BY BookStep
  <2>3. a \in LiveOf(u) /\ a \in DefaultsOf(u) /\ a \notin LiveOf(u)'
    BY <2>1 DEF LiveOf, DefaultsOf, AddressesOf, Live
  <2>4. /\ a \in [v \in User |-> LiveOf(v)][u]
        /\ a \in [v \in User |-> DefaultsOf(v)][u]
        /\ a \notin [v \in User |-> LiveOf(v)]'[u]
    BY <2>3
  <2>5. ASSUME NEW v \in User, Book!RemoveUser(v) PROVE UserOf[a] \notin users'
    BY <2>1, <2>4, <2>5 DEF Book!RemoveUser
  <2>6. ASSUME NEW v \in User, NEW b \in Row, NEW w \in BOOLEAN, Book!Add(v, b, w)
        PROVE  FALSE
    BY <2>4, <2>6 DEF Book!Add
  <2>7. ASSUME NEW v \in User, NEW b \in Row, Book!SetDefault(v, b) PROVE FALSE
    BY <2>4, <2>7 DEF Book!SetDefault
  <2>8. ASSUME NEW v \in User, NEW b \in Row, Book!Delete(v, b) PROVE FALSE
    BY <2>4, <2>8 DEF Book!Delete
  <2> QED
    BY <2>2, <2>4, <2>5, <2>6, <2>7, <2>8 DEF Book!Next, Book!vars
<1> QED
  BY <1>1, TypeCorrect, SerialInvariance, PTL DEF Spec, DefaultNotDeleted

(* A transaction locks addresses of its own user only.                     *)
THEOREM OwnBookOnlyHolds ==
  ASSUME Overlap = FALSE
  PROVE  Spec => []OwnBookOnly
<1>1. SerialInv => OwnBookOnly
  BY DEF SerialInv, LocksOwn, OwnBookOnly, Locked, AddressesOf
<1> QED
  BY <1>1, SerialInvariance, PTL
=============================================================================
