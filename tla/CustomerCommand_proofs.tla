------------------------- MODULE CustomerCommand_proofs -------------------------
(***************************************************************************)
(* Proofs about CustomerCommand, for any number of rows in each table, any *)
(* foreign keys between them and any number of requests.                   *)
(***************************************************************************)
EXTENDS CustomerCommand, TLAPS

USE NullsAssumption, VersionsAssumption

-----------------------------------------------------------------------------
(* Commands, keys and rows                                                 *)

LEMMA Kinds ==
  /\ \A c \in Creates : c \notin Updates /\ c \notin Removals /\ c # "none"
  /\ \A c \in Updates : c \notin Removals /\ c # "none"
  /\ "none" \notin Removals
  /\ RemovalsById \subseteq Removals
  /\ \A c \in Commands : c # "none" /\ (c \in Creates \/ c \in Updates \/ c \in Removals)
BY CommandsAssumption DEF Creates, Updates, Removals, RemovalsById

LEMMA Tables == \A c : TableOf(c) \subseteq Row
BY DEF TableOf, Row, Dependent

LEMMA Values == \A c : ValuesOf(c) \subseteq Content
BY DEF ValuesOf, Content

(* The rows that r refers to are rows, and r is not among them.            *)
LEMMA ParentRows ==
  ASSUME NEW r \in Row
  PROVE  Parents(r) \subseteq Row /\ r \notin Parents(r)
BY ColumnsAssumption, TablesAssumption DEF Parents, Row, Dependent

LEMMA ChildRows ==
  ASSUME NEW p
  PROVE  /\ Children(p) \subseteq Dependent /\ Dependent \subseteq Row
         /\ \A c \in Dependent : c \in Children(p) <=> p \in Parents(c)
BY DEF Children, Row, Dependent

(* Rows that a unique key sets against each other are rivals both ways.    *)
LEMMA TwinRows ==
  ASSUME NEW r \in Row, NEW s \in Twins(r)
  PROVE  s \in Row /\ s # r /\ r \in Twins(s)
<1> USE TablesAssumption DEF Row, Dependent
<1>1. CASE r \in User
  <2>1. Twins(r) = {q \in User \ {r} : EmailOf[q] = EmailOf[r]}
    BY <1>1 DEF Twins
  <2>2. Twins(s) = {q \in User \ {s} : EmailOf[q] = EmailOf[s]}
    BY <2>1 DEF Twins
  <2> QED
    BY <1>1, <2>1, <2>2
<1>2. CASE r \in Cart
  <2>1. Twins(r) = {q \in Cart \ {r} : UserOf[q] = UserOf[r]}
    BY <1>2 DEF Twins
  <2>2. Twins(s) = {q \in Cart \ {s} : UserOf[q] = UserOf[s]}
    BY <2>1 DEF Twins
  <2> QED
    BY <1>2, <2>1, <2>2
<1>3. CASE r \in Item
  <2>1. Twins(r) = {q \in Item \ {r} : Parents(q) = Parents(r)}
    BY <1>3 DEF Twins
  <2>2. Twins(s) = {q \in Item \ {s} : Parents(q) = Parents(s)}
    BY <2>1 DEF Twins
  <2> QED
    BY <1>3, <2>1, <2>2
<1>4. CASE r \in Favourite
  <2>1. Twins(r) = {q \in Favourite \ {r} : Parents(q) = Parents(r)}
    BY <1>4 DEF Twins
  <2>2. Twins(s) = {q \in Favourite \ {s} : Parents(q) = Parents(s)}
    BY <2>1 DEF Twins
  <2> QED
    BY <1>4, <2>1, <2>2
<1>5. CASE r \notin User /\ r \notin Cart /\ r \notin Item /\ r \notin Favourite
  BY <1>5 DEF Twins
<1> QED
  BY <1>1, <1>2, <1>3, <1>4, <1>5

(* What a request may do next, by name.                                    *)
LEMMA Steps ==
  ASSUME [Next]_vars
  PROVE  \/ UNCHANGED vars
         \/ \E t \in Request :
              \/ \E c \in Commands : \E r \in TableOf(c), v \in ValuesOf(c), o \in PathsOf(c) :
                    Start(t, c, r, v, o)
              \/ Look(t) \/ Insert(t) \/ Reference(t) \/ Find(t) \/ Write(t) \/ Reread(t)
              \/ Erase(t) \/ (\E r \in Row : Sweep(t, r)) \/ SweepDone(t)
              \/ Commit(t) \/ Rollback(t) \/ Abort(t)
BY DEF Next

-----------------------------------------------------------------------------
(* Types                                                                   *)

Version == Content \cup {Unborn, Deleted}

(* The types of the tables ...                                             *)
TableTypes ==
    /\ db \in [Row -> Version]
    /\ owner \in [Row -> Request \cup {NoRequest}]
    /\ dirty \in [Row -> Version]

(* ... of what a request was sent ...                                      *)
InputTypes ==
    /\ op \in [Request -> Commands \cup {"none"}]
    /\ id \in [Request -> Row \cup {NoRow}]
    /\ value \in [Request -> Content]
    /\ own \in [Request -> BOOLEAN]

(* ... and of what it keeps.                                               *)
LocalTypes ==
    /\ pc \in [Request -> PCs]
    /\ todo \in [Request -> SUBSET Row]
    /\ answer \in [Request -> Content \cup {Unborn}]
    /\ result \in [Request -> Results]

Busy == \A t \in Request : pc[t] # "idle" => op[t] # "none" /\ id[t] \in TableOf(op[t])

LEMMA TypesSplit == TypeOK <=> TableTypes /\ InputTypes /\ LocalTypes /\ Busy
BY DEF TypeOK, TableTypes, InputTypes, LocalTypes, Busy, Version

LEMMA WriteTypes ==
  ASSUME TableTypes, NEW t \in Request, NEW r \in Row, NEW v \in Version,
         R!WriteRow(t, r, v)
  PROVE  TableTypes'
BY DEF TableTypes, R!WriteRow

LEMMA EndTypes ==
  ASSUME TableTypes, NEW t \in Request, R!CommitRows(t) \/ R!RollbackRows(t)
  PROVE  TableTypes'
BY DEF TableTypes, R!CommitRows, R!RollbackRows, R!ReleaseLocks

LEMMA AnswerTypes ==
  ASSUME InputTypes, LocalTypes, Busy, NEW t \in Request, Answer(t)
  PROVE  InputTypes' /\ LocalTypes' /\ Busy'
BY DEF InputTypes, LocalTypes, Busy, Answer, Goto, PCs, Results, Content

(* A request that is at work has a row of its command's table.             *)
LEMMA AtWork ==
  ASSUME TypeOK, NEW t \in Request, pc[t] # "idle"
  PROVE  /\ id[t] \in Row /\ id[t] \in TableOf(op[t])
         /\ op[t] \in Commands
BY Tables DEF TypeOK

LEMMA InitTypes == Init => TypeOK
<1> SUFFICES ASSUME Init PROVE TypeOK
  OBVIOUS
<1>1. \A r \in Row : (IF r \notin Initial THEN Unborn
                     ELSE IF r \in User THEN CHOOSE n \in Name : TRUE ELSE Present) \in Version
  BY InitialAssumption DEF Version, Content
<1>2. TableTypes
  BY <1>1 DEF Init, TableTypes
<1>3. InputTypes /\ LocalTypes /\ Busy
  BY DEF Init, InputTypes, LocalTypes, Busy, PCs, Results, Content
<1> QED
  BY <1>2, <1>3, TypesSplit

LEMMA TypesKept ==
  ASSUME TypeOK, [Next]_vars
  PROVE  TypeOK'
<1> USE DEF PCs, Statements, Results, Goto, Throw, inputs, locals, table
<1>a. TableTypes /\ InputTypes /\ LocalTypes /\ Busy
  BY TypesSplit
<1>b. SUFFICES TableTypes' /\ InputTypes' /\ LocalTypes' /\ Busy'
  BY DEF TypeOK, TableTypes, InputTypes, LocalTypes, Busy, Version
<1>c. ASSUME UNCHANGED table PROVE TableTypes'
  BY <1>a, <1>c DEF TableTypes
<1>1. ASSUME NEW t \in Request, NEW c \in Commands, NEW r \in TableOf(c),
             NEW v \in ValuesOf(c), NEW o \in PathsOf(c), Start(t, c, r, v, o)
      PROVE  TableTypes' /\ InputTypes' /\ LocalTypes' /\ Busy'
  <2>1. r \in Row /\ v \in Content /\ o \in BOOLEAN
    BY Tables, Values DEF PathsOf
  <2>2. InputTypes'
    BY <1>a, <1>1, <2>1 DEF Start, InputTypes
  <2>3. LocalTypes'
    BY <1>a, <1>1 DEF Start, LocalTypes
  <2>4. Busy'
    BY <1>a, <1>1, Kinds DEF Start, Busy, InputTypes, LocalTypes
  <2> QED
    BY <1>c, <1>1, <2>2, <2>3, <2>4 DEF Start
<1>2. ASSUME NEW t \in Request, Look(t) \/ Find(t) \/ SweepDone(t)
      PROVE  TableTypes' /\ InputTypes' /\ LocalTypes' /\ Busy'
  <2>1. UNCHANGED <<table, inputs>> /\ LocalTypes' /\ Busy'
    BY <1>a, <1>2 DEF Look, Find, SweepDone, LocalTypes, Busy, Updates
  <2> QED
    BY <1>a, <1>c, <2>1 DEF InputTypes
<1>3. ASSUME NEW t \in Request, Insert(t)
      PROVE  TableTypes' /\ InputTypes' /\ LocalTypes' /\ Busy'
  <2>1. id[t] \in Row /\ value[t] \in Version /\ Parents(id[t]) \subseteq Row
    BY <1>3, AtWork, ParentRows DEF Insert, TypeOK, Version
  <2>2. TableTypes'
    BY <1>3, <1>a, <1>c, <2>1, WriteTypes DEF Insert
  <2>3. LocalTypes' /\ Busy'
    BY <1>3, <1>a, <2>1 DEF Insert, LocalTypes, Busy
  <2> QED
    BY <1>3, <1>a, <2>2, <2>3 DEF Insert, InputTypes
<1>4. ASSUME NEW t \in Request, Reference(t)
      PROVE  TableTypes' /\ InputTypes' /\ LocalTypes' /\ Busy'
  <2>1. LocalTypes' /\ Busy'
    BY <1>4, <1>a DEF Reference, LocalTypes, Busy
  <2> QED
    BY <1>4, <1>a, <1>c, <2>1 DEF Reference, InputTypes
<1>5. ASSUME NEW t \in Request, Write(t)
      PROVE  TableTypes' /\ InputTypes' /\ LocalTypes' /\ Busy'
  <2>1. id[t] \in Row /\ value[t] \in Version
    BY <1>5, AtWork DEF Write, TypeOK, Version
  <2>2. TableTypes'
    BY <1>5, <1>a, <1>c, <2>1, WriteTypes DEF Write
  <2>3. LocalTypes' /\ Busy'
    BY <1>5, <1>a DEF Write, LocalTypes, Busy
  <2> QED
    BY <1>5, <1>a, <2>2, <2>3 DEF Write, InputTypes
<1>6. ASSUME NEW t \in Request, Reread(t)
      PROVE  TableTypes' /\ InputTypes' /\ LocalTypes' /\ Busy'
  <2>1. LocalTypes' /\ Busy'
    BY <1>6, <1>a DEF Reread, LocalTypes, Busy, Live, Exists
  <2> QED
    BY <1>6, <1>a, <1>c, <2>1 DEF Reread, InputTypes
<1>7. ASSUME NEW t \in Request, Erase(t)
      PROVE  TableTypes' /\ InputTypes' /\ LocalTypes' /\ Busy'
  <2>1. Targets(t) \subseteq Row
    BY <1>7, AtWork, TwinRows DEF Erase, Targets
  <2>2. LocalTypes' /\ Busy'
    BY <1>7, <1>a, <2>1 DEF Erase, LocalTypes, Busy
  <2> QED
    BY <1>7, <1>a, <1>c, <2>2 DEF Erase, InputTypes
<1>8. ASSUME NEW t \in Request, NEW r \in Row, Sweep(t, r)
      PROVE  TableTypes' /\ InputTypes' /\ LocalTypes' /\ Busy'
  <2>1. TableTypes'
    BY <1>8, <1>a, <1>c, WriteTypes DEF Sweep, Version
  <2>2. LocalTypes' /\ Busy'
    BY <1>8, <1>a, ChildRows DEF Sweep, LocalTypes, Busy
  <2> QED
    BY <1>8, <1>a, <2>1, <2>2 DEF Sweep, InputTypes
<1>9. ASSUME NEW t \in Request, Commit(t) \/ Rollback(t) \/ Abort(t)
      PROVE  TableTypes' /\ InputTypes' /\ LocalTypes' /\ Busy'
  BY <1>9, <1>a, EndTypes, AnswerTypes DEF Commit, Rollback, Abort
<1>10. CASE UNCHANGED vars
  BY <1>10, <1>a, <1>c DEF vars, InputTypes, LocalTypes, Busy
<1> QED
  BY <1>1, <1>2, <1>3, <1>4, <1>5, <1>6, <1>7, <1>8, <1>9, <1>10, Steps

(* Every variable keeps its type.                                          *)
THEOREM TypeCorrect == Spec => []TypeOK
BY InitTypes, TypesKept, PTL DEF Spec

-----------------------------------------------------------------------------
(* The inductive invariant but for SweepExact, action by action.  Most     *)
(* requests only read: then the tables are as they were, and so is every   *)
(* other request.                                                          *)

Core ==
    /\ TypeOK
    /\ OwnStatements
    /\ LocksHeld
    /\ NewIds
    /\ InsertedAlone
    /\ FoundBefore
    /\ ReferencesHeld
    /\ SweepComplete
    /\ WorkDone
    /\ UniqueKeys
    /\ NoOrphanRows

(* A request that holds no lock: what it locks is described by LocksHeld.  *)
LEMMA NoLocksYet ==
  ASSUME Core, NEW t \in Request,
         pc[t] \in {"idle", "look", "insert", "find", "write", "erase"},
         NEW r \in Row
  PROVE  owner[r] # t
<1>1. op[t] = "none" \/ op[t] \in Creates \/ op[t] \in Updates \/ op[t] \in Removals
  BY Kinds DEF Core, TypeOK
<1> QED
  BY <1>1 DEF Core, LocksHeld

(* A row that somebody has locked was inserted by nobody else: it is in    *)
(* the table, or it is the new row of its owner.                           *)
LEMMA LockedRow ==
  ASSUME Core, NEW t \in Request, NEW r \in Row, owner[r] = t
  PROVE  \/ op[t] \in Creates /\ r = id[t] /\ db[r] = Unborn /\ dirty[r] = value[t]
         \/ op[t] \in Updates /\ r = id[t] /\ Exists(db[r]) /\ dirty[r] = value[t]
         \/ op[t] \in Removals /\ Exists(db[r]) /\ dirty[r] = Deleted
<1>1. op[t] = "none" \/ op[t] \in Creates \/ op[t] \in Updates \/ op[t] \in Removals
  BY Kinds DEF Core, TypeOK
<1> QED
  BY <1>1 DEF Core, LocksHeld

LEMMA StartKeeps ==
  ASSUME Core, TypeOK', NEW t \in Request, NEW c \in Commands, NEW r \in TableOf(c),
         NEW v \in ValuesOf(c), NEW o \in PathsOf(c), Start(t, c, r, v, o)
  PROVE  Core'
<1> USE DEF Start, Goto, table, locals
<1>a. op[t] = "none" /\ r \in Row
  BY Tables DEF Core, OwnStatements
<1>b. \A q \in Row : owner[q] # t
  BY NoLocksYet
<1>1. OwnStatements'
  BY Kinds DEF Core, OwnStatements, TypeOK
<1>2. LocksHeld'
  BY <1>b DEF Core, LocksHeld, TypeOK
<1>3. NewIds'
  <2>1. c \in Creates => owner[r] = NoRequest
    BY <1>a, LockedRow DEF Core, TypeOK, Fresh, Exists
  <2> QED
    BY <2>1, Kinds DEF Core, NewIds, TypeOK, Fresh
<1>4. InsertedAlone'
  BY <1>a, <1>b DEF Core, InsertedAlone, TypeOK
<1>5. FoundBefore'
  BY Kinds DEF Core, FoundBefore, TypeOK
<1>6. ReferencesHeld'
  BY DEF Core, ReferencesHeld, TypeOK
<1>7. SweepComplete'
  BY <1>b DEF Core, SweepComplete, TypeOK
<1>8. WorkDone'
  BY DEF Core, WorkDone, TypeOK
<1>9. UniqueKeys' /\ NoOrphanRows'
  BY DEF Core, UniqueKeys, NoOrphanRows
<1> QED
  BY <1>1, <1>2, <1>3, <1>4, <1>5, <1>6, <1>7, <1>8, <1>9 DEF Core

LEMMA ReadKeeps ==
  ASSUME Core, TypeOK', NEW t \in Request,
         Look(t) \/ Find(t) \/ SweepDone(t)
  PROVE  Core'
<1> USE DEF Look, Find, SweepDone, Goto, Throw, table, inputs, locals
<1>1. OwnStatements'
  BY Kinds DEF Core, OwnStatements, TypeOK, Updates, Removals
<1>2. LocksHeld'
  BY NoLocksYet DEF Core, LocksHeld, TypeOK, OwnStatements
<1>3. NewIds'
  BY Kinds DEF Core, NewIds, TypeOK, OwnStatements
<1>4. InsertedAlone'
  BY DEF Core, InsertedAlone
<1>5. FoundBefore'
  <2>1. ASSUME Find(t), op[t] \in Updates \cup RemovalsById, pc'[t] # "rollback"
        PROVE  db[id[t]] # Unborn
    <3>1. id[t] \in Row /\ owner[id[t]] # t /\ Live(t, id[t])
      BY <2>1, NoLocksYet, AtWork DEF Core, TypeOK, Targets, RemovalsById, Updates
    <3> QED
      BY <3>1 DEF Live, Exists, R!Visible
  <2>2. ASSUME SweepDone(t), op[t] \in Updates \cup RemovalsById
        PROVE  db[id[t]] # Unborn
    BY <2>2 DEF Core, FoundBefore
  <2>3. ASSUME Look(t) PROVE op[t] \notin Updates \cup RemovalsById
    BY <2>3, Kinds DEF Core, OwnStatements
  <2> QED
    BY <2>1, <2>2, <2>3 DEF Core, FoundBefore, TypeOK
<1>6. ReferencesHeld'
  <2>1. op[t] \notin Creates \/ pc'[t] \notin {"reference", "commit"}
    BY Kinds DEF Core, OwnStatements, TypeOK
  <2> QED
    BY <2>1 DEF Core, ReferencesHeld, TypeOK
<1>7. SweepComplete'
  BY DEF Core, SweepComplete
<1>8. WorkDone'
  <2>1. op[t] \in Updates => pc'[t] \notin {"reread", "commit"}
    BY Kinds DEF Core, OwnStatements, TypeOK
  <2>2. op[t] \in RemovalsById /\ pc'[t] \in {"sweep", "commit"} => pc[t] = "sweep"
    BY Kinds DEF Core, OwnStatements, TypeOK
  <2> QED
    BY <2>1, <2>2 DEF Core, WorkDone, TypeOK
<1>9. UniqueKeys' /\ NoOrphanRows'
  BY DEF Core, UniqueKeys, NoOrphanRows
<1> QED
  BY <1>1, <1>2, <1>3, <1>4, <1>5, <1>6, <1>7, <1>8, <1>9 DEF Core

LEMMA ReferenceKeeps ==
  ASSUME Core, TypeOK', NEW t \in Request, Reference(t)
  PROVE  Core'
<1> USE DEF Reference, Goto, Throw, table, inputs, locals
<1>a. op[t] \in Creates /\ id[t] \in Row
  BY AtWork DEF Core, OwnStatements
<1>1. OwnStatements'
  BY <1>a, Kinds DEF Core, OwnStatements, TypeOK
<1>2. LocksHeld'
  BY <1>a, Kinds DEF Core, LocksHeld, TypeOK
<1>3. NewIds'
  BY DEF Core, NewIds, TypeOK
<1>4. InsertedAlone'
  BY DEF Core, InsertedAlone
<1>5. FoundBefore'
  BY <1>a, Kinds DEF Core, FoundBefore, TypeOK
<1>6. ReferencesHeld'
  <2>1. ASSUME NEW p \in todo[t], Live(t, p), ~ BeingDeleted(t, p)
        PROVE  Exists(db[p]) /\ (owner[p] = NoRequest \/ dirty[p] # Deleted)
    <3>1. p \in Row /\ p # id[t]
      BY <1>a, <2>1, ParentRows DEF Core, ReferencesHeld
    <3>2. owner[p] # t
      BY <1>a, <3>1, LockedRow, Kinds
    <3> QED
      BY <3>1, <3>2, <2>1 DEF BeingDeleted, Live, Exists, R!Visible, R!Available
  <2> QED
    BY <2>1 DEF Core, ReferencesHeld, TypeOK
<1>7. SweepComplete'
  BY <1>a, Kinds DEF Core, SweepComplete, TypeOK
<1>8. WorkDone'
  BY <1>a, Kinds DEF Core, WorkDone, TypeOK
<1>9. UniqueKeys' /\ NoOrphanRows'
  BY DEF Core, UniqueKeys, NoOrphanRows
<1> QED
  BY <1>1, <1>2, <1>3, <1>4, <1>5, <1>6, <1>7, <1>8, <1>9 DEF Core

LEMMA RereadKeeps ==
  ASSUME Core, TypeOK', NEW t \in Request, Reread(t)
  PROVE  Core'
<1> USE DEF Reread, Goto, Throw, table, inputs, locals
<1>a. op[t] \in Updates /\ id[t] \in Row
  BY AtWork DEF Core, OwnStatements
<1>1. OwnStatements'
  BY <1>a, Kinds DEF Core, OwnStatements, TypeOK
<1>2. LocksHeld'
  BY <1>a, Kinds DEF Core, LocksHeld, TypeOK
<1>3. NewIds'
  BY <1>a, Kinds DEF Core, NewIds, TypeOK
<1>4. InsertedAlone'
  BY DEF Core, InsertedAlone
<1>5. FoundBefore'
  BY DEF Core, FoundBefore, TypeOK
<1>6. ReferencesHeld'
  BY <1>a, Kinds DEF Core, ReferencesHeld, TypeOK
<1>7. SweepComplete'
  BY DEF Core, SweepComplete, TypeOK
<1>8. WorkDone'
  <2>1. ASSUME Live(t, id[t])
        PROVE  owner[id[t]] = t /\ R!Visible(t, id[t]) = value[t]
    <3>1. owner[id[t]] = t
      BY <1>a, <2>1 DEF Core, WorkDone, Live, R!Visible
    <3> QED
      BY <1>a, <3>1, LockedRow, Kinds DEF R!Visible
  <2> QED
    BY <1>a, <2>1, Kinds DEF Core, WorkDone, TypeOK
<1>9. UniqueKeys' /\ NoOrphanRows'
  BY DEF Core, UniqueKeys, NoOrphanRows
<1> QED
  BY <1>1, <1>2, <1>3, <1>4, <1>5, <1>6, <1>7, <1>8, <1>9 DEF Core

LEMMA EraseKeeps ==
  ASSUME Core, TypeOK', NEW t \in Request, Erase(t)
  PROVE  Core'
<1> USE DEF Erase, Goto, table, inputs
<1>a. op[t] \in Removals /\ id[t] \in Row
  BY AtWork DEF Core, OwnStatements
<1>b. \A r \in Row : owner[r] # t
  BY NoLocksYet
<1>1. OwnStatements'
  BY <1>a, Kinds DEF Core, OwnStatements, TypeOK
<1>2. LocksHeld'
  BY <1>b DEF Core, LocksHeld, TypeOK
<1>3. NewIds'
  BY <1>a, Kinds DEF Core, NewIds, TypeOK
<1>4. InsertedAlone'
  BY DEF Core, InsertedAlone
<1>5. FoundBefore'
  BY <1>a, Kinds DEF Core, FoundBefore, TypeOK
<1>6. ReferencesHeld'
  BY <1>a, Kinds DEF Core, ReferencesHeld, TypeOK
<1>7. SweepComplete'
  BY <1>b DEF Core, SweepComplete, TypeOK
<1>8. WorkDone'
  <2>1. op[t] \in RemovalsById => todo'[t] = {r \in {id[t]} : Live(t, r)}
    BY DEF Core, TypeOK, Targets, RemovalsById
  <2>2. op[t] \in RemovalsById => ~ Exists(db[id[t]]) \/ id[t] \in todo'[t]
    BY <1>a, <1>b, <2>1 DEF Live, R!Visible
  <2> QED
    BY <1>a, <2>2, Kinds DEF Core, WorkDone, TypeOK
<1>9. UniqueKeys' /\ NoOrphanRows'
  BY DEF Core, UniqueKeys, NoOrphanRows
<1> QED
  BY <1>1, <1>2, <1>3, <1>4, <1>5, <1>6, <1>7, <1>8, <1>9 DEF Core

(* INSERT: the new row has no rival, and is nobody else's.                 *)
LEMMA InsertKeeps ==
  ASSUME Core, TypeOK', NEW t \in Request, Insert(t)
  PROVE  Core'
<1> USE DEF Insert, Goto, Throw, inputs, table
<1>a. op[t] \in Creates /\ id[t] \in Row
  BY AtWork DEF Core, OwnStatements
<1>b. \A r \in Row : owner[r] # t
  BY NoLocksYet
<1>c. db[id[t]] = Unborn /\ owner[id[t]] = NoRequest
  BY <1>a DEF Core, NewIds
<1>d. \/ UNCHANGED <<table, todo>> /\ pc' = [pc EXCEPT ![t] = "rollback"]
      \/ /\ db' = db /\ owner' = [owner EXCEPT ![id[t]] = t]
         /\ dirty' = [dirty EXCEPT ![id[t]] = value[t]]
         /\ todo' = [todo EXCEPT ![t] = Parents(id[t])]
         /\ pc' = [pc EXCEPT ![t] = "reference"]
         /\ \A s \in Twins(id[t]) : ~ Exists(db[s]) /\ owner[s] = NoRequest
  BY <1>a, <1>b, TwinRows DEF R!WriteRow, R!Available, Live, R!Visible
<1>e. db' = db /\ UNCHANGED <<op, id, value, own, answer>>
  BY <1>d
<1>f. \A s \in Request : pc[s] # "idle" => id[s] \in Row
  BY AtWork DEF Core
<1>g. \A s \in Request \ {t} : op[s] \in Creates => id[s] \in Row /\ id[s] # id[t]
  BY <1>a, <1>f, Kinds DEF Core, NewIds, OwnStatements
<1> HIDE DEF Insert
<1>1. OwnStatements'
  BY <1>a, <1>d, <1>e, Kinds DEF Core, OwnStatements, TypeOK
<1>2. LocksHeld'
  BY <1>a, <1>b, <1>c, <1>d, <1>e, Kinds DEF Core, LocksHeld, TypeOK
<1>3. NewIds'
  <2>1. ASSUME NEW s \in Request \ {t}, op[s] \in Creates
        PROVE  owner'[id[s]] = owner[id[s]] /\ pc'[s] = pc[s]
    BY <2>1, <1>d, <1>g DEF Core, TypeOK
  <2>2. pc'[t] = "rollback" \/ (pc'[t] = "reference" /\ owner'[id[t]] = t)
    BY <1>a, <1>d DEF Core, TypeOK
  <2> QED
    BY <1>a, <1>c, <1>e, <2>1, <2>2, Kinds DEF Core, NewIds, TypeOK
<1>4. InsertedAlone'
  <2>1. ASSUME NEW s \in Request \ {t}, op[s] \in Creates, owner'[id[s]] = s
        PROVE  \A q \in Twins(id[s]) : ~ Exists(db[q]) /\ owner'[q] = NoRequest
    <3>1. id[s] \in Row /\ id[s] # id[t] /\ owner[id[s]] = s
      BY <2>1, <1>d, <1>g DEF Core, TypeOK
    <3>2. id[t] \in Twins(id[s]) => UNCHANGED owner
      BY <3>1, <1>d, TwinRows
    <3> QED
      BY <2>1, <3>1, <3>2, <1>d, TwinRows DEF Core, InsertedAlone, TypeOK
  <2>2. ASSUME owner'[id[t]] = t
        PROVE  \A q \in Twins(id[t]) : ~ Exists(db[q]) /\ owner'[q] = NoRequest
    BY <2>2, <1>a, <1>c, <1>d, TwinRows DEF Core, TypeOK
  <2> QED
    BY <2>1, <2>2, <1>e DEF InsertedAlone
<1>5. FoundBefore'
  BY <1>a, <1>d, <1>e, Kinds DEF Core, FoundBefore, TypeOK
<1>6. ReferencesHeld'
  <2>1. \A p \in Row : Exists(db[p]) => owner'[p] = owner[p] /\ dirty'[p] = dirty[p]
    BY <1>c, <1>d DEF Core, TypeOK, Exists
  <2>2. ASSUME NEW s \in Request \ {t}, op[s] \in Creates
        PROVE  pc'[s] = pc[s] /\ todo'[s] = todo[s] /\ Parents(id[s]) \subseteq Row
    BY <2>2, <1>d, <1>g, ParentRows DEF Core, TypeOK
  <2>3. pc'[t] = "rollback" \/ todo'[t] = Parents(id[t])
    BY <1>a, <1>d DEF Core, TypeOK
  <2> QED
    BY <1>e, <2>1, <2>2, <2>3 DEF Core, ReferencesHeld, TypeOK
<1>7. SweepComplete'
  <2>1. ASSUME NEW s \in Request, NEW p \in Row, op[s] \in Removals, owner'[p] = s
        PROVE  s # t /\ owner[p] = s /\ todo'[s] = todo[s]
    BY <1>a, <1>d, <2>1, Kinds DEF Core, TypeOK
  <2>2. ASSUME NEW c \in Row, Exists(db[c]) PROVE owner'[c] = owner[c]
    BY <2>2, <1>c, <1>d DEF Core, TypeOK, Exists
  <2> QED
    BY <1>e, <2>1, <2>2, ChildRows DEF Core, SweepComplete
<1>8. WorkDone'
  <2>1. op[t] \notin Updates /\ op[t] \notin RemovalsById
    BY <1>a, Kinds
  <2>2. ASSUME NEW s \in Request \ {t}, pc[s] # "idle"
        PROVE  /\ pc'[s] = pc[s] /\ todo'[s] = todo[s] /\ answer'[s] = answer[s]
               /\ owner[id[s]] = s => owner'[id[s]] = s
    BY <2>2, <1>c, <1>d, <1>e, <1>f DEF Core, TypeOK
  <2>3. \A s \in Request \ {t} : pc'[s] = pc[s]
    BY <1>d DEF Core, TypeOK
  <2> QED
    BY <1>e, <2>1, <2>2, <2>3 DEF Core, WorkDone, TypeOK
<1>9. UniqueKeys' /\ NoOrphanRows'
  BY <1>e DEF Core, UniqueKeys, NoOrphanRows
<1> QED
  BY <1>1, <1>2, <1>3, <1>4, <1>5, <1>6, <1>7, <1>8, <1>9 DEF Core

(* UPDATE: the row is there and unlocked, or nothing is written.           *)
LEMMA WriteKeeps ==
  ASSUME Core, TypeOK', NEW t \in Request, Write(t)
  PROVE  Core'
<1> USE DEF Write, Goto, inputs, locals, table
<1>a. op[t] \in Updates /\ id[t] \in Row /\ value[t] \in Content
  BY AtWork DEF Core, OwnStatements, TypeOK
<1>b. \A r \in Row : owner[r] # t
  BY NoLocksYet
<1>c. owner[id[t]] = NoRequest
  BY <1>a, <1>b DEF R!Available
<1>d. \/ UNCHANGED table /\ ~ Exists(db[id[t]])
      \/ /\ db' = db /\ owner' = [owner EXCEPT ![id[t]] = t]
         /\ dirty' = [dirty EXCEPT ![id[t]] = value[t]]
         /\ Exists(db[id[t]])
  BY <1>a, <1>b DEF R!WriteRow, Live, R!Visible
<1>e. db' = db /\ UNCHANGED <<op, id, value, own, todo, answer>>
      /\ pc' = [pc EXCEPT ![t] = "reread"]
  BY <1>d
<1>f. \A s \in Request : pc[s] # "idle" => id[s] \in Row
  BY AtWork DEF Core
<1>g. \A r \in Row : owner[r] # NoRequest => owner'[r] = owner[r]
  BY <1>c, <1>d DEF Core, TypeOK
<1>h. \A r \in Row, s \in Request \ {t} : owner'[r] = s <=> owner[r] = s
  BY <1>c, <1>d DEF Core, TypeOK
<1>i. \A r \in Row : ~ Exists(db[r]) => owner'[r] = owner[r]
  BY <1>d DEF Core, TypeOK
<1> HIDE DEF Write
<1>pc. pc[t] = "write"
  BY DEF Write
<1>1. OwnStatements'
  BY <1>a, <1>e, <1>pc, Kinds DEF Core, OwnStatements, TypeOK
<1>2. LocksHeld'
  BY <1>a, <1>b, <1>d, <1>e, Kinds DEF Core, LocksHeld, TypeOK
<1>3. NewIds'
  <2>1. ASSUME NEW s \in Request, op[s] \in Creates
        PROVE  s # t /\ owner'[id[s]] = owner[id[s]] /\ pc'[s] = pc[s]
    <3>1. s # t /\ id[s] \in Row /\ ~ Exists(db[id[s]])
      BY <1>a, <1>f, <2>1, Kinds DEF Core, OwnStatements, NewIds, Exists
    <3> QED
      BY <3>1, <1>e, <1>i DEF Core, TypeOK
  <2> QED
    BY <1>e, <2>1 DEF Core, NewIds
<1>4. InsertedAlone'
  <2>1. ASSUME NEW s \in Request, op[s] \in Creates, owner'[id[s]] = s
        PROVE  \A q \in Twins(id[s]) : ~ Exists(db[q]) /\ owner'[q] = NoRequest
    <3>1. s # t /\ id[s] \in Row
      BY <1>a, <1>f, <2>1, Kinds DEF Core, OwnStatements
    <3>2. owner[id[s]] = s
      BY <3>1, <2>1, <1>h
    <3> QED
      BY <3>1, <3>2, <2>1, <1>i, TwinRows DEF Core, InsertedAlone
  <2> QED
    BY <1>e, <2>1 DEF InsertedAlone
<1>5. FoundBefore'
  BY <1>a, <1>e, <1>pc DEF Core, FoundBefore, TypeOK
<1>6. ReferencesHeld'
  <2>1. ASSUME NEW p \in Row, owner[p] = NoRequest \/ dirty[p] # Deleted
        PROVE  owner'[p] = NoRequest \/ dirty'[p] # Deleted
    BY <1>a, <1>d, <2>1 DEF Core, TypeOK
  <2>2. ASSUME NEW s \in Request, op[s] \in Creates, pc'[s] \in {"reference", "commit"}
        PROVE  pc'[s] = pc[s] /\ Parents(id[s]) \subseteq Row
    BY <1>a, <1>e, <1>f, <2>2, ParentRows DEF Core, TypeOK
  <2> QED
    BY <1>e, <2>1, <2>2 DEF Core, ReferencesHeld
<1>7. SweepComplete'
  <2>1. ASSUME NEW s \in Request, NEW p \in Row, op[s] \in Removals, owner'[p] = s
        PROVE  s # t /\ owner[p] = s
    BY <1>a, <1>h, <2>1, Kinds
  <2> QED
    BY <1>e, <1>h, <2>1, ChildRows DEF Core, SweepComplete
<1>8. WorkDone'
  <2>1. owner'[id[t]] = t \/ ~ Exists(db[id[t]])
    BY <1>a, <1>d DEF Core, TypeOK
  <2>2. op[t] \notin RemovalsById
    BY <1>a, Kinds
  <2>3. ASSUME NEW s \in Request \ {t}
        PROVE  /\ pc'[s] = pc[s]
               /\ pc[s] # "idle" /\ owner[id[s]] = s => owner'[id[s]] = s
    BY <2>3, <1>e, <1>f, <1>h DEF Core, TypeOK
  <2> QED
    BY <1>e, <2>1, <2>2, <2>3 DEF Core, WorkDone, TypeOK
<1>9. UniqueKeys' /\ NoOrphanRows'
  BY <1>e DEF Core, UniqueKeys, NoOrphanRows
<1> QED
  BY <1>1, <1>2, <1>3, <1>4, <1>5, <1>6, <1>7, <1>8, <1>9 DEF Core

(* DELETE of one row: it is there, unlocked and not referred to by a row   *)
(* that is being inserted, or it is passed over.                           *)
LEMMA SweepKeeps ==
  ASSUME Core, TypeOK', NEW t \in Request, NEW r \in Row, Sweep(t, r)
  PROVE  Core'
<1> USE DEF Sweep, inputs, table
<1>a. op[t] \in Removals /\ id[t] \in Row /\ pc[t] = "sweep"
  BY AtWork DEF Core, OwnStatements
<1>b. owner[r] = t => dirty[r] = Deleted
  BY <1>a, LockedRow, Kinds
<1>c. \/ /\ UNCHANGED table /\ todo' = [todo EXCEPT ![t] = @ \ {r}]
         /\ owner[r] = t \/ ~ Exists(db[r])
      \/ /\ db' = db /\ owner' = [owner EXCEPT ![r] = t]
         /\ dirty' = [dirty EXCEPT ![r] = Deleted]
         /\ todo' = [todo EXCEPT ![t] = (@ \ {r}) \cup {c \in Children(r) : Live(t, c)}]
         /\ owner[r] = NoRequest /\ Exists(db[r])
  BY <1>b DEF R!WriteRow, R!Available, Live, R!Visible, Exists
<1>d. db' = db /\ UNCHANGED <<pc, op, id, value, own, answer>>
  BY <1>c
<1>e. \A s \in Request : ~ RefersTo(s, r)
  OBVIOUS
<1> HIDE DEF Sweep
<1>f. \A s \in Request : pc[s] # "idle" => id[s] \in Row
  BY AtWork DEF Core
<1>g. \A q \in Row, s \in Request \ {t} : owner'[q] = s <=> owner[q] = s
  BY <1>c DEF Core, TypeOK
<1>h. \A q \in Row : ~ Exists(db[q]) => owner'[q] = owner[q]
  BY <1>c DEF Core, TypeOK
<1>i. \A s \in Request \ {t} : todo'[s] = todo[s]
  BY <1>c DEF Core, TypeOK
<1>j. \A q \in Row : owner[q] = t => owner'[q] = t
  BY <1>c DEF Core, TypeOK
<1>1. OwnStatements'
  BY <1>a, <1>d, <1>i DEF Core, OwnStatements, TypeOK
<1>2. LocksHeld'
  BY <1>a, <1>c, <1>d, Kinds DEF Core, LocksHeld, TypeOK
<1>3. NewIds'
  <2>1. ASSUME NEW s \in Request, op[s] \in Creates
        PROVE  owner'[id[s]] = owner[id[s]]
    BY <1>f, <1>h, <2>1, Kinds DEF Core, OwnStatements, NewIds, Exists
  <2> QED
    BY <1>d, <2>1 DEF Core, NewIds
<1>4. InsertedAlone'
  <2>1. ASSUME NEW s \in Request, op[s] \in Creates, owner'[id[s]] = s
        PROVE  \A q \in Twins(id[s]) : ~ Exists(db[q]) /\ owner'[q] = NoRequest
    <3>1. s # t /\ id[s] \in Row
      BY <1>a, <1>f, <2>1, Kinds DEF Core, OwnStatements
    <3>2. owner[id[s]] = s
      BY <3>1, <2>1, <1>g
    <3> QED
      BY <3>1, <3>2, <2>1, <1>h, TwinRows DEF Core, InsertedAlone
  <2> QED
    BY <1>d, <2>1 DEF InsertedAlone
<1>5. FoundBefore'
  BY <1>d DEF Core, FoundBefore
<1>6. ReferencesHeld'
  <2>1. ASSUME NEW s \in Request, op[s] \in Creates, pc[s] \in {"reference", "commit"}
        PROVE  /\ s # t /\ Parents(id[s]) \subseteq Row
               /\ \A p \in Parents(id[s]) \ todo[s] : p # r
    BY <1>a, <1>e, <1>f, <2>1, ParentRows, Kinds DEF RefersTo
  <2>2. \A q \in Row \ {r} : owner'[q] = owner[q] /\ dirty'[q] = dirty[q]
    BY <1>c DEF Core, TypeOK
  <2> QED
    BY <1>d, <1>i, <2>1, <2>2 DEF Core, ReferencesHeld
<1>7. SweepComplete'
  <2>1. ASSUME NEW s \in Request \ {t}, NEW p \in Row, op[s] \in Removals, owner'[p] = s,
               NEW c \in Children(p), Exists(db[c])
        PROVE  c \in todo'[s] \/ owner'[c] = s
    BY <1>g, <1>i, <2>1, ChildRows DEF Core, SweepComplete
  <2>2. ASSUME NEW p \in Row, owner'[p] = t, NEW c \in Children(p), Exists(db[c])
        PROVE  c \in todo'[t] \/ owner'[c] = t
    <3>1. c \in Row
      BY ChildRows
    <3>2. c = r => owner'[c] = t
      BY <1>c, <2>2 DEF Core, TypeOK
    <3>3. c # r /\ c \in todo[t] => c \in todo'[t]
      BY <1>c, <1>a DEF Core, TypeOK
    <3>4. CASE owner[p] = t
      BY <3>1, <3>2, <3>3, <3>4, <1>a, <1>j, <2>2 DEF Core, SweepComplete
    <3>5. CASE owner[p] # t
      <4>1. p = r /\ {x \in Children(r) : Live(t, x)} \subseteq todo'[t]
        BY <1>c, <2>2, <3>5 DEF Core, TypeOK
      <4> QED
        BY <4>1, <3>1, <1>j, <2>2 DEF Live, R!Visible
    <3> QED
      BY <3>4, <3>5
  <2> QED
    BY <1>d, <2>1, <2>2 DEF SweepComplete
<1>8. WorkDone'
  <2>1. ASSUME NEW s \in Request, pc[s] # "idle", owner[id[s]] = s
        PROVE  owner'[id[s]] = s
    BY <2>1, <1>f, <1>g, <1>j
  <2>2. id[t] \in todo[t] => id[t] \in todo'[t] \/ owner'[id[t]] = t \/ ~ Exists(db[id[t]])
    BY <1>a, <1>c DEF Core, TypeOK
  <2> QED
    BY <1>a, <1>d, <1>i, <2>1, <2>2 DEF Core, WorkDone
<1>9. UniqueKeys' /\ NoOrphanRows'
  BY <1>d DEF Core, UniqueKeys, NoOrphanRows
<1> QED
  BY <1>1, <1>2, <1>3, <1>4, <1>5, <1>6, <1>7, <1>8, <1>9 DEF Core

(* ROLLBACK: nothing that was committed changes.                           *)
LEMMA RollbackKeeps ==
  ASSUME Core, TypeOK', NEW t \in Request, pc[t] # "idle", R!RollbackRows(t), Answer(t)
  PROVE  Core'
<1> USE DEF Answer, Goto
<1>a. db' = db
  BY DEF R!RollbackRows
<1>b. \A r \in Row : owner[r] = t => owner'[r] = NoRequest
  BY DEF R!RollbackRows, R!ReleaseLocks
<1>c. \A r \in Row : owner[r] # t => owner'[r] = owner[r] /\ dirty'[r] = dirty[r]
  BY DEF R!RollbackRows, R!ReleaseLocks
<1>d. \A r \in Row : owner'[r] # t
  BY <1>b, <1>c
<1>e. op'[t] = "none" /\ pc'[t] = "idle" /\ todo'[t] = {}
  BY DEF Core, TypeOK
<1>f. \A s \in Request \ {t} :
         /\ pc'[s] = pc[s] /\ op'[s] = op[s] /\ id'[s] = id[s] /\ value'[s] = value[s]
         /\ todo'[s] = todo[s] /\ answer'[s] = answer[s]
  BY DEF Core, TypeOK
<1> HIDE DEF Answer, Goto
<1>g. \A s \in Request : pc[s] # "idle" => id[s] \in Row
  BY AtWork DEF Core
<1>1. OwnStatements'
  BY <1>e, <1>f DEF Core, OwnStatements
<1>2. LocksHeld'
  BY <1>a, <1>b, <1>c, <1>d, <1>f DEF Core, LocksHeld
<1>3. NewIds'
  BY <1>a, <1>b, <1>c, <1>e, <1>f, <1>g, Kinds DEF Core, NewIds, OwnStatements
<1>4. InsertedAlone'
  BY <1>a, <1>b, <1>c, <1>e, <1>f, <1>g, Kinds, TwinRows DEF Core, InsertedAlone, OwnStatements
<1>5. FoundBefore'
  BY <1>a, <1>e, <1>f, Kinds DEF Core, FoundBefore
<1>6. ReferencesHeld'
  <2>1. \A p \in Row : owner[p] = NoRequest \/ dirty[p] # Deleted
                        => owner'[p] = NoRequest \/ dirty'[p] # Deleted
    BY <1>b, <1>c
  <2> QED
    BY <1>a, <1>e, <1>f, <1>g, <2>1, ParentRows, Kinds DEF Core, ReferencesHeld
<1>7. SweepComplete'
  BY <1>a, <1>b, <1>c, <1>d, <1>e, <1>f, ChildRows DEF Core, SweepComplete
<1>8. WorkDone'
  BY <1>a, <1>b, <1>c, <1>e, <1>f, <1>g, Kinds DEF Core, WorkDone
<1>9. UniqueKeys' /\ NoOrphanRows'
  BY <1>a DEF Core, UniqueKeys, NoOrphanRows
<1> QED
  BY <1>1, <1>2, <1>3, <1>4, <1>5, <1>6, <1>7, <1>8, <1>9 DEF Core

(* What a COMMIT of t does to row r: nothing, or what LockedRow tells.     *)
LEMMA Committed ==
  ASSUME Core, NEW t \in Request, R!CommitRows(t), NEW r \in Row
  PROVE  \/ owner[r] # t /\ db'[r] = db[r] /\ owner'[r] = owner[r] /\ dirty'[r] = dirty[r]
         \/ /\ owner[r] = t /\ owner'[r] = NoRequest /\ dirty'[r] = dirty[r]
            /\ \/ /\ op[t] \in Creates /\ r = id[t]
                  /\ db[r] = Unborn /\ ~ Exists(db[r]) /\ db'[r] = value[t] /\ Exists(db'[r])
               \/ /\ op[t] \in Updates /\ r = id[t]
                  /\ Exists(db[r]) /\ db'[r] = value[t] /\ Exists(db'[r])
               \/ op[t] \in Removals /\ Exists(db[r]) /\ db'[r] = Deleted /\ ~ Exists(db'[r])
<1>1. CASE owner[r] # t
  BY <1>1 DEF R!CommitRows, R!ReleaseLocks, Core, TypeOK
<1>2. CASE owner[r] = t
  <2>1. db'[r] = dirty[r] /\ owner'[r] = NoRequest /\ dirty'[r] = dirty[r]
    BY <1>2 DEF R!CommitRows, R!ReleaseLocks
  <2>2. value[t] \in Content
    BY DEF Core, TypeOK
  <2> QED
    BY <1>2, <2>1, <2>2, LockedRow DEF Exists
<1> QED
  BY <1>1, <1>2

(* COMMIT: what is inserted has its parents and no rival, what is deleted  *)
(* takes all its children along.                                           *)
LEMMA CommitKeeps ==
  ASSUME Core, TypeOK', NEW t \in Request, pc[t] = "commit", R!CommitRows(t), Answer(t)
  PROVE  Core'
<1> USE DEF Answer, Goto
<1>a. todo[t] = {} /\ id[t] \in Row
  BY AtWork DEF Core, OwnStatements
<1>d. \A r \in Row : owner'[r] # t
  BY Committed
<1>e. op'[t] = "none" /\ pc'[t] = "idle" /\ todo'[t] = {}
  BY DEF Core, TypeOK
<1>f. \A s \in Request \ {t} :
         /\ pc'[s] = pc[s] /\ op'[s] = op[s] /\ id'[s] = id[s] /\ value'[s] = value[s]
         /\ todo'[s] = todo[s] /\ answer'[s] = answer[s]
  BY DEF Core, TypeOK
<1> HIDE DEF Answer, Goto
<1>g. \A s \in Request : pc[s] # "idle" => id[s] \in Row
  BY AtWork DEF Core
<1>h. \A r \in Row, s \in Request \ {t} : owner'[r] = s <=> owner[r] = s
  BY Committed
<1>i. \A r \in Row : owner[r] # t => db'[r] = db[r] /\ owner'[r] = owner[r]
                                     /\ dirty'[r] = dirty[r]
  BY Committed
<1>j. \A r \in Row : db[r] # Unborn => db'[r] # Unborn /\ (~ Exists(db[r]) => ~ Exists(db'[r]))
  BY Committed, Kinds DEF Exists, Core, TypeOK
<1>k. \A r \in Row : Exists(db'[r]) /\ ~ Exists(db[r])
                    => op[t] \in Creates /\ r = id[t] /\ owner[r] = t
  BY Committed DEF Exists
<1>l. \A r \in Row : Exists(db[r]) /\ ~ Exists(db'[r])
                    => op[t] \in Removals /\ owner[r] = t
  BY Committed DEF Exists
<1>1. OwnStatements'
  BY <1>e, <1>f DEF Core, OwnStatements
<1>2. LocksHeld'
  BY <1>d, <1>f, <1>h, <1>i DEF Core, LocksHeld
<1>3. NewIds'
  <2>1. ASSUME NEW s \in Request \ {t}, op[s] \in Creates
        PROVE  id[s] \in Row /\ owner[id[s]] # t
    <3>1. id[s] \in Row /\ db[id[s]] = Unborn /\ (op[t] \in Creates => id[t] # id[s])
      BY <1>g, <2>1, Kinds DEF Core, OwnStatements, NewIds
    <3> QED
      BY <3>1, LockedRow, Kinds DEF Exists
  <2> QED
    BY <1>e, <1>f, <1>i, <2>1, Kinds DEF Core, NewIds
<1>4. InsertedAlone'
  <2>1. ASSUME NEW s \in Request \ {t}, op[s] \in Creates, owner'[id[s]] = s
        PROVE  \A q \in Twins(id[s]) : ~ Exists(db'[q]) /\ owner'[q] = NoRequest
    <3>1. id[s] \in Row /\ owner[id[s]] = s
      BY <1>g, <1>h, <2>1, Kinds DEF Core, OwnStatements
    <3> QED
      BY <3>1, <2>1, <1>i, TwinRows DEF Core, InsertedAlone
  <2> QED
    BY <1>e, <1>f, <2>1, Kinds DEF InsertedAlone
<1>5. FoundBefore'
  BY <1>e, <1>f, <1>g, <1>j, Kinds DEF Core, FoundBefore, OwnStatements
<1>6. ReferencesHeld'
  <2>1. ASSUME NEW p \in Row, Exists(db[p]), owner[p] = NoRequest \/ dirty[p] # Deleted
        PROVE  Exists(db'[p]) /\ (owner'[p] = NoRequest \/ dirty'[p] # Deleted)
    BY <2>1, Committed, LockedRow, Kinds DEF Core, TypeOK
  <2> QED
    BY <1>e, <1>f, <1>g, <2>1, ParentRows, Kinds DEF Core, ReferencesHeld
<1>7. SweepComplete'
  <2>1. ASSUME NEW s \in Request \ {t}, NEW p \in Row, op[s] \in Removals, owner'[p] = s,
               NEW c \in Children(p), Exists(db'[c])
        PROVE  c \in todo'[s] \/ owner'[c] = s
    <3>1. owner[p] = s /\ dirty[p] = Deleted /\ c \in Row /\ p \in Parents(c)
      BY <1>h, <2>1, LockedRow, ChildRows, Kinds
    <3>2. CASE Exists(db[c])
      BY <3>1, <3>2, <2>1, <1>f, <1>h DEF Core, SweepComplete
    <3>3. CASE ~ Exists(db[c])
      <4>1. op[t] \in Creates /\ p \in Parents(id[t])
        BY <1>k, <2>1, <3>1, <3>3
      <4> QED
        BY <1>a, <3>1, <4>1 DEF Core, ReferencesHeld
    <3> QED
      BY <3>2, <3>3
  <2> QED
    BY <1>d, <1>e, <1>f, <2>1 DEF SweepComplete
<1>8. WorkDone'
  <2>1. ASSUME NEW s \in Request \ {t}, pc[s] # "idle", db[id[s]] # Unborn
        PROVE  /\ owner[id[s]] = s => owner'[id[s]] = s
               /\ ~ Exists(db[id[s]]) => ~ Exists(db'[id[s]])
    BY <1>g, <1>h, <1>j, <2>1
  <2> QED
    BY <1>e, <1>f, <2>1, Kinds DEF Core, WorkDone, FoundBefore
<1>9. UniqueKeys'
  <2>1. ASSUME NEW r \in Row, NEW q \in Twins(r), Exists(db'[r]), Exists(db'[q])
        PROVE  FALSE
    <3>1. q \in Row /\ r \in Twins(q) /\ r # q
      BY TwinRows
    <3>2. ~ Exists(db[r]) \/ ~ Exists(db[q])
      BY DEF Core, UniqueKeys
    <3>3. CASE ~ Exists(db[r])
      BY <1>i, <1>k, <2>1, <3>1, <3>3 DEF Core, InsertedAlone
    <3>4. CASE ~ Exists(db[q])
      BY <1>i, <1>k, <2>1, <3>1, <3>4 DEF Core, InsertedAlone
    <3> QED
      BY <3>2, <3>3, <3>4
  <2> QED
    BY <2>1 DEF UniqueKeys
<1>10. NoOrphanRows'
  <2>1. ASSUME NEW c \in Dependent, Exists(db'[c]), NEW p \in Parents(c)
        PROVE  Exists(db'[p])
    <3>1. c \in Row /\ p \in Row /\ c \in Children(p)
      BY ChildRows, ParentRows
    <3>2. CASE Exists(db[c])
      <4>1. Exists(db[p])
        BY <3>2 DEF Core, NoOrphanRows
      <4>2. ASSUME ~ Exists(db'[p]) PROVE FALSE
        <5>1. op[t] \in Removals /\ owner[p] = t
          BY <1>l, <3>1, <4>1, <4>2
        <5>2. owner[c] = t
          BY <1>a, <3>1, <3>2, <5>1 DEF Core, SweepComplete
        <5> QED
          BY <2>1, <3>1, <5>1, <5>2, Committed, Kinds
      <4> QED
        BY <4>2
    <3>3. CASE ~ Exists(db[c])
      <4>1. op[t] \in Creates /\ p \in Parents(id[t])
        BY <1>k, <2>1, <3>1, <3>3
      <4>2. Exists(db[p])
        BY <1>a, <4>1 DEF Core, ReferencesHeld
      <4> QED
        BY <1>l, <3>1, <4>1, <4>2, Kinds
    <3> QED
      BY <3>2, <3>3
  <2> QED
    BY <2>1 DEF NoOrphanRows
<1> QED
  BY <1>1, <1>2, <1>3, <1>4, <1>5, <1>6, <1>7, <1>8, <1>9, <1>10 DEF Core

LEMMA CoreInit == Init => Core
<1> SUFFICES ASSUME Init PROVE Core
  OBVIOUS
<1>1. \A r \in Row : Exists(db[r]) => r \in Initial
  BY DEF Init, Exists
<1>2. UniqueKeys
  <2>1. ASSUME NEW r \in Row, NEW s \in Twins(r), r \in Initial, s \in Initial
        PROVE  FALSE
    <3>1. CASE r \in User
      <4>1. Twins(r) = {q \in User \ {r} : EmailOf[q] = EmailOf[r]}
        BY <3>1, TablesAssumption DEF Twins, Dependent
      <4> QED
        BY <2>1, <3>1, <4>1, InitialAssumption
    <3>2. CASE r \notin User
      <4>1. r \in Product
        BY <2>1, <3>2, InitialAssumption
      <4> QED
        BY <4>1, TablesAssumption DEF Twins, Dependent
    <3> QED
      BY <3>1, <3>2
  <2> QED
    BY <1>1, <2>1, TwinRows DEF UniqueKeys
<1>3. NoOrphanRows
  BY <1>1, InitialAssumption, TablesAssumption, ChildRows DEF NoOrphanRows, Row
<1>4. OwnStatements /\ LocksHeld /\ NewIds /\ InsertedAlone /\ FoundBefore
      /\ ReferencesHeld /\ SweepComplete /\ WorkDone
  BY Kinds DEF Init, OwnStatements, LocksHeld, NewIds, InsertedAlone, FoundBefore,
     ReferencesHeld, SweepComplete, WorkDone
<1> QED
  BY <1>2, <1>3, <1>4, InitTypes DEF Core

LEMMA CoreStep ==
  ASSUME Core, [Next]_vars
  PROVE  Core'
<1>0. TypeOK'
  BY TypesKept DEF Core
<1>1. ASSUME NEW t \in Request, Commit(t) PROVE Core'
  BY <1>0, <1>1, CommitKeeps DEF Commit
<1>2. ASSUME NEW t \in Request, Rollback(t) PROVE Core'
  BY <1>0, <1>2, RollbackKeeps DEF Rollback
<1>3. ASSUME NEW t \in Request, Abort(t) PROVE Core'
  BY <1>0, <1>3, CommitKeeps, RollbackKeeps DEF Abort
<1>4. CASE UNCHANGED vars
  BY <1>0, <1>4 DEF vars, table, inputs, locals, Core, OwnStatements, LocksHeld, NewIds,
     InsertedAlone, FoundBefore, ReferencesHeld, SweepComplete, WorkDone, UniqueKeys, NoOrphanRows
<1> QED
  BY <1>0, <1>1, <1>2, <1>3, <1>4, Steps, StartKeeps, ReadKeeps, ReferenceKeeps, RereadKeeps,
     EraseKeeps, InsertKeeps, WriteKeeps, SweepKeeps

(* What a request deletes, or has yet to visit, hangs from its targets.    *)
LEMMA SweepExactKept ==
  ASSUME Core, SweepExact, [Next]_vars
  PROVE  SweepExact'
<1> USE DEF inputs, locals, table, Goto, Throw
<1>a. TypeOK /\ OwnStatements /\ NewIds
  BY DEF Core
<1>t. /\ op \in [Request -> Commands \cup {"none"}] /\ id \in [Request -> Row \cup {NoRow}]
      /\ todo \in [Request -> SUBSET Row] /\ owner \in [Row -> Request \cup {NoRequest}]
  BY <1>a DEF TypeOK
<1>b. ASSUME UNCHANGED <<op, id, todo, owner>>
      PROVE  SweepExact'
  BY <1>b DEF SweepExact, Targets
<1>c. ASSUME NEW t \in Request, op'[t] \notin Removals,
             \A s \in Request \ {t} : op'[s] = op[s] /\ id'[s] = id[s] /\ todo'[s] = todo[s],
             \A s \in Request \ {t}, r \in Row : owner'[r] = s <=> owner[r] = s
      PROVE  SweepExact'
  <2>1. ASSUME NEW s \in Request, NEW r \in Row,
               op'[s] \in Removals, r \in todo'[s] \/ owner'[r] = s
        PROVE  r \in Targets(s)' \/ \E p \in Parents(r) : owner'[p] = s
    <3>1. s # t
      BY <1>c, <2>1
    <3>2. r \in Targets(s) \/ \E p \in Parents(r) : owner[p] = s
      BY <1>c, <2>1, <3>1 DEF SweepExact
    <3>3. Targets(s)' = Targets(s)
      BY <1>c, <3>1 DEF Targets
    <3> QED
      BY <1>c, <3>1, <3>2, <3>3, ParentRows
  <2> QED
    BY <2>1 DEF SweepExact
<1>1. ASSUME NEW t \in Request, NEW c \in Commands, NEW r \in TableOf(c),
             NEW v \in ValuesOf(c), NEW o \in PathsOf(c), Start(t, c, r, v, o)
      PROVE  SweepExact'
  <2>1. todo[t] = {} /\ \A q \in Row : owner[q] # t
    BY <1>1, <1>a, NoLocksYet DEF Start, OwnStatements
  <2>2. UNCHANGED <<todo, owner>>
        /\ \A s \in Request \ {t} : op'[s] = op[s] /\ id'[s] = id[s]
    BY <1>1, <1>t DEF Start
  <2>3. ASSUME NEW s \in Request, NEW q \in Row,
               op'[s] \in Removals, q \in todo'[s] \/ owner'[q] = s
        PROVE  q \in Targets(s)' \/ \E p \in Parents(q) : owner'[p] = s
    <3>1. s # t
      BY <2>1, <2>2, <2>3
    <3>2. q \in Targets(s) \/ \E p \in Parents(q) : owner[p] = s
      BY <2>2, <2>3, <3>1 DEF SweepExact
    <3> QED
      BY <2>2, <3>1, <3>2 DEF Targets
  <2> QED
    BY <2>3 DEF SweepExact
<1>2. ASSUME NEW t \in Request, Look(t) \/ Find(t) \/ Reread(t) \/ SweepDone(t)
      PROVE  SweepExact'
  BY <1>2, <1>b DEF Look, Find, Reread, SweepDone
<1>3. ASSUME NEW t \in Request, Insert(t)
      PROVE  SweepExact'
  <2>1. op[t] \in Creates /\ id[t] \in Row /\ owner[id[t]] = NoRequest
    BY <1>3, <1>a, AtWork DEF Insert, OwnStatements, NewIds
  <2>2. \A s \in Request \ {t} : todo'[s] = todo[s] /\ op'[s] = op[s] /\ id'[s] = id[s]
    BY <1>3, <1>t DEF Insert
  <2>3. \A s \in Request \ {t}, r \in Row : owner'[r] = s <=> owner[r] = s
    BY <1>3, <1>t, <2>1 DEF Insert, R!WriteRow
  <2>4. op'[t] \notin Removals
    BY <1>3, <2>1, Kinds DEF Insert
  <2> QED
    BY <1>c, <2>2, <2>3, <2>4
<1>4. ASSUME NEW t \in Request, Reference(t)
      PROVE  SweepExact'
  <2>1. op'[t] \notin Removals
    BY <1>4, <1>a, Kinds DEF Reference, OwnStatements
  <2>2. \A s \in Request \ {t} : todo'[s] = todo[s] /\ op'[s] = op[s] /\ id'[s] = id[s]
    BY <1>4, <1>t DEF Reference
  <2>3. owner' = owner
    BY <1>4 DEF Reference
  <2> QED
    BY <1>c, <2>1, <2>2, <2>3
<1>5. ASSUME NEW t \in Request, Write(t)
      PROVE  SweepExact'
  <2>1. op[t] \in Updates /\ id[t] \in Row /\ owner[id[t]] \in {t, NoRequest}
    BY <1>5, <1>a, AtWork DEF Write, OwnStatements, R!Available
  <2>2. \A s \in Request \ {t} : todo'[s] = todo[s] /\ op'[s] = op[s] /\ id'[s] = id[s]
    BY <1>5 DEF Write
  <2>3. \A s \in Request \ {t}, r \in Row : owner'[r] = s <=> owner[r] = s
    BY <1>5, <1>t, <2>1 DEF Write, R!WriteRow
  <2>4. op'[t] \notin Removals
    BY <1>5, <2>1, Kinds DEF Write
  <2> QED
    BY <1>c, <2>2, <2>3, <2>4
<1>6. ASSUME NEW t \in Request, Erase(t)
      PROVE  SweepExact'
  <2>1. UNCHANGED <<op, id, owner>> /\ todo'[t] \subseteq Targets(t)
        /\ \A s \in Request \ {t} : todo'[s] = todo[s]
    BY <1>6, <1>t DEF Erase
  <2>2. \A s \in Request : Targets(s)' = Targets(s)
    BY <2>1 DEF Targets
  <2> QED
    BY <2>1, <2>2 DEF SweepExact
<1>7. ASSUME NEW t \in Request, NEW r \in Row, Sweep(t, r)
      PROVE  SweepExact'
  <2>1. UNCHANGED <<op, id>> /\ r \in todo[t] /\ owner[r] \in {t, NoRequest}
        /\ \A s \in Request \ {t} : todo'[s] = todo[s]
    BY <1>7, <1>t DEF Sweep, R!Available
  <2>2. \A s \in Request : Targets(s)' = Targets(s)
    BY <2>1 DEF Targets
  <2>3. \A q \in Row : q # r => owner'[q] = owner[q]
    BY <1>7, <1>t DEF Sweep, R!WriteRow
  <2>4. \A s \in Request, q \in Row : owner[q] = s => owner'[q] = s
    BY <1>7, <1>t, <2>1 DEF Sweep, R!WriteRow
  <2>5. owner'[r] = t \/ owner'[r] = owner[r]
    BY <1>7, <1>t DEF Sweep, R!WriteRow
  <2>6. \A q \in todo'[t] : q \in todo[t] \/ (owner'[r] = t /\ r \in Parents(q))
    BY <1>7, <1>t, ChildRows DEF Sweep, R!WriteRow
  <2>7. ASSUME NEW s \in Request, NEW q \in Row,
               op'[s] \in Removals, q \in todo'[s] \/ owner'[q] = s
        PROVE  q \in Targets(s) \/ \E p \in Parents(q) : owner'[p] = s
    <3>1. CASE q \in todo[s] \/ owner[q] = s
      <4>1. q \in Targets(s) \/ \E p \in Parents(q) : owner[p] = s
        BY <3>1, <2>1, <2>7 DEF SweepExact
      <4> QED
        BY <4>1, <2>4, ParentRows
    <3>2. CASE ~ (q \in todo[s] \/ owner[q] = s)
      BY <3>2, <2>1, <2>3, <2>5, <2>6, <2>7
    <3> QED
      BY <3>1, <3>2
  <2> QED
    BY <2>2, <2>7 DEF SweepExact
<1>8. ASSUME NEW t \in Request, Answer(t), R!RollbackRows(t) \/ R!CommitRows(t)
      PROVE  SweepExact'
  <2>1. op'[t] \notin Removals
        /\ \A s \in Request \ {t} : todo'[s] = todo[s] /\ op'[s] = op[s] /\ id'[s] = id[s]
    BY <1>8, <1>t, Kinds DEF Answer
  <2>2. \A s \in Request \ {t}, r \in Row : owner'[r] = s <=> owner[r] = s
    BY <1>8 DEF R!RollbackRows, R!CommitRows, R!ReleaseLocks
  <2> QED
    BY <1>c, <2>1, <2>2
<1>9. CASE UNCHANGED vars
  BY <1>9, <1>b DEF vars
<1> QED
  BY <1>1, <1>2, <1>3, <1>4, <1>5, <1>6, <1>7, <1>8, <1>9, Steps DEF Commit, Rollback, Abort

LEMMA InitKeeps == Init => CustomerInv
<1> SUFFICES ASSUME Init PROVE CustomerInv
  OBVIOUS
<1>1. SweepExact
  BY Kinds DEF Init, SweepExact
<1> QED
  BY <1>1, CoreInit DEF Core, CustomerInv

LEMMA InductiveStep ==
  ASSUME CustomerInv, [Next]_vars
  PROVE  CustomerInv'
<1>1. Core /\ SweepExact
  BY DEF Core, CustomerInv
<1>2. Core' /\ SweepExact'
  BY <1>1, CoreStep, SweepExactKept
<1> QED
  BY <1>2 DEF Core, CustomerInv

(* The inductive invariant, in every reachable state.                      *)
THEOREM Invariance == Spec => []CustomerInv
BY InitKeeps, InductiveStep, PTL DEF Spec

LEMMA CoreHolds == (CustomerInv => Core /\ SweepExact) /\ (CustomerInv' => Core')
BY DEF Core, CustomerInv

-----------------------------------------------------------------------------
(* What it is for                                                          *)

(* No cart, item or favourite outlives what it belongs to.                 *)
THEOREM NoOrphanRowsHolds == Spec => []NoOrphanRows
<1>1. CustomerInv => NoOrphanRows
  BY DEF CustomerInv
<1> QED
  BY <1>1, Invariance, PTL

(* One e-mail per user, one cart per user, one item and one favourite per  *)
(* product, whoever looks and inserts at the same time.                    *)
THEOREM UniqueKeysHolds == Spec => []UniqueKeys
<1>1. CustomerInv => UniqueKeys
  BY DEF CustomerInv
<1> QED
  BY <1>1, Invariance, PTL

(* Whoever answers a deletion with success leaves nothing of it behind.    *)
THEOREM RemovedWithAllHolds == Spec => RemovedWithAll
<1>1. ASSUME Core, Core', NEW t \in Request, Succeeds(t, RemovalsById)
      PROVE  /\ ~ Exists(db'[id[t]])
             /\ \A c \in Children(id[t]) :
                   ~ Exists(db'[c]) /\ \A d \in Children(c) : ~ Exists(db'[d])
  <2>1. op[t] \in RemovalsById /\ pc[t] = "commit" /\ R!CommitRows(t)
    BY <1>1 DEF Succeeds, Commit
  <2>2. id[t] \in Row /\ todo[t] = {} /\ op[t] \in Removals
    BY <1>1, <2>1, AtWork, Kinds DEF Core, OwnStatements
  <2>3. owner[id[t]] = t \/ ~ Exists(db[id[t]])
    BY <1>1, <2>1, <2>2 DEF Core, WorkDone
  <2>4. ~ Exists(db'[id[t]])
    BY <1>1, <2>1, <2>2, <2>3, Committed, Kinds
  <2>5. ASSUME NEW p, ~ Exists(db'[p]), NEW c \in Children(p)
        PROVE  ~ Exists(db'[c])
    BY <1>1, <2>5, ChildRows DEF Core, NoOrphanRows
  <2> QED
    BY <2>4, <2>5
<1>2. CustomerInv /\ CustomerInv' /\ [Next]_vars =>
        [\A t \in Request :
          Succeeds(t, RemovalsById) =>
              /\ ~ Exists(db'[id[t]])
              /\ \A c \in Children(id[t]) :
                    ~ Exists(db'[c]) /\ \A d \in Children(c) : ~ Exists(db'[d])]_vars
  BY <1>1, CoreHolds
<1> QED
  BY <1>2, Invariance, PTL DEF Spec, RemovedWithAll

(* Whoever answers a creation or an update with success has stored what    *)
(* was sent, and an update answers what it stored.                         *)
THEOREM StoredAsSentHolds == Spec => StoredAsSent
<1>1. ASSUME Core, NEW t \in Request, Succeeds(t, Creates \cup Updates)
      PROVE  db'[id[t]] = value[t] /\ (op[t] \in Updates => answer[t] = value[t])
  <2>1. op[t] \in Creates \cup Updates /\ pc[t] = "commit" /\ R!CommitRows(t)
    BY <1>1 DEF Succeeds, Commit
  <2>2. id[t] \in Row
    BY <1>1, <2>1, AtWork DEF Core
  <2>3. owner[id[t]] = t /\ (op[t] \in Updates => answer[t] = value[t])
    BY <1>1, <2>1, Kinds DEF Core, NewIds, WorkDone
  <2> QED
    BY <1>1, <2>1, <2>2, <2>3, Committed, Kinds
<1>2. CustomerInv /\ [Next]_vars =>
        [\A t \in Request :
          /\ Succeeds(t, Creates \cup Updates) => db'[id[t]] = value[t]
          /\ Succeeds(t, Updates) => answer[t] = value[t]]_vars
  <2>1. ASSUME NEW t \in Request, Succeeds(t, Updates)
        PROVE  Succeeds(t, Creates \cup Updates) /\ op[t] \in Updates
    BY <2>1 DEF Succeeds
  <2> QED
    BY <1>1, <2>1, CoreHolds
<1> QED
  BY <1>2, Invariance, PTL DEF Spec, StoredAsSent

-----------------------------------------------------------------------------
(* The tables as clients see them: every COMMIT is one step of             *)
(* CustomerBook, and no other step shows.                                  *)

(* There are three levels of tables.                                       *)
LEMMA ThreeLevels ==
  ASSUME NEW r \in Row, NEW p \in Parents(r)
  PROVE  /\ r \in Dependent /\ p \in Row
         /\ \A q \in Parents(p) : Parents(q) = {}
<1> USE TablesAssumption, ColumnsAssumption DEF Row, Dependent
<1>1. ASSUME NEW u, u \in User \/ u \in Product
      PROVE  Parents(u) = {}
  BY <1>1 DEF Parents
<1>2. CASE r \in Cart
  BY <1>1, <1>2 DEF Parents
<1>3. CASE r \in Item
  <2>1. p \in Cart \/ p \in Product
    BY <1>3 DEF Parents
  <2>2. ASSUME p \in Cart PROVE Parents(p) \subseteq User
    BY <2>2 DEF Parents
  <2> QED
    BY <1>1, <1>3, <2>1, <2>2
<1>4. CASE r \in Favourite
  BY <1>1, <1>4 DEF Parents
<1> QED
  BY <1>1, <1>2, <1>3, <1>4

(* The rows below r, in the words of this module.                          *)
LEMMA BelowRow ==
  ASSUME NEW r \in Row, NEW s \in Row
  PROVE  s \in Book!Below[r] <=>
            s = r \/ r \in Parents(s) \/ \E p \in Parents(s) : r \in Parents(p)
BY ParentRows DEF Book!Below, References

(* Two targets of one deletion are rivals, so at most one of them exists.  *)
LEMMA OneTarget ==
  ASSUME UniqueKeys, NEW t \in Request, id[t] \in Row,
         NEW g \in Targets(t), NEW h \in Targets(t), Exists(db[g]), Exists(db[h])
  PROVE  g = h
<1> USE TablesAssumption DEF Row, Dependent
<1>1. g = id[t] \/ g \in Twins(id[t])
  BY DEF Targets
<1>2. h = id[t] \/ h \in Twins(id[t])
  BY DEF Targets
<1>3. \A a, b : a \in Row /\ Exists(db[a]) /\ b \in Twins(a) => ~ Exists(db[b])
  BY DEF UniqueKeys
<1>4. g \in Row /\ h \in Row
  BY <1>1, <1>2, TwinRows
<1>5. CASE g = id[t] \/ h = id[t]
  BY <1>1, <1>2, <1>3, <1>4, <1>5
<1>6. CASE g \in Twins(id[t]) /\ h \in Twins(id[t]) /\ g # h
  <2>1. h \in Twins(g)
    <3>1. CASE id[t] \in User
      BY <1>6, <3>1 DEF Twins
    <3>2. CASE id[t] \in Cart
      <4>1. Twins(id[t]) = {q \in Cart \ {id[t]} : UserOf[q] = UserOf[id[t]]}
        BY <3>2 DEF Twins
      <4>2. Twins(g) = {q \in Cart \ {g} : UserOf[q] = UserOf[g]}
        BY <1>6, <4>1 DEF Twins
      <4> QED
        BY <1>6, <4>1, <4>2
    <3>3. CASE id[t] \in Item
      <4>1. Twins(id[t]) = {q \in Item \ {id[t]} : Parents(q) = Parents(id[t])}
        BY <3>3 DEF Twins
      <4>2. Twins(g) = {q \in Item \ {g} : Parents(q) = Parents(g)}
        BY <1>6, <4>1 DEF Twins
      <4> QED
        BY <1>6, <4>1, <4>2
    <3>4. CASE id[t] \in Favourite
      <4>1. Twins(id[t]) = {q \in Favourite \ {id[t]} : Parents(q) = Parents(id[t])}
        BY <3>4 DEF Twins
      <4>2. Twins(g) = {q \in Favourite \ {g} : Parents(q) = Parents(g)}
        BY <1>6, <4>1 DEF Twins
      <4> QED
        BY <1>6, <4>1, <4>2
    <3>5. CASE id[t] \notin User \cup Cart \cup Item \cup Favourite
      <4>1. Twins(id[t]) = {}
        BY <3>5 DEF Twins
      <4> QED
        BY <1>6, <4>1
    <3> QED
      BY <3>1, <3>2, <3>3, <3>4, <3>5
  <2> QED
    BY <1>3, <1>4, <2>1
<1> QED
  BY <1>1, <1>2, <1>5, <1>6

(* A deletion that commits has locked exactly what hangs from its target.  *)
LEMMA LockedIsBelow ==
  ASSUME CustomerInv, NEW t \in Request, op[t] \in Removals, pc[t] = "commit",
         NEW l \in Row, owner[l] = t
  PROVE  \E g \in Row :
            /\ Exists(db[g])
            /\ \A s \in Row : owner[s] = t <=> s \in Book!Below[g] /\ Exists(db[s])
<1>a. /\ TypeOK /\ OwnStatements /\ SweepComplete /\ SweepExact /\ UniqueKeys /\ NoOrphanRows
      /\ Core
  BY CoreHolds DEF Core
<1>b. id[t] \in Row /\ todo[t] = {}
  BY <1>a, AtWork DEF OwnStatements
<1>c. \A s \in Row : owner[s] = t => Exists(db[s])
  BY <1>a, LockedRow, Kinds
<1>d. Targets(t) \subseteq Row
  BY <1>b, TwinRows DEF Targets
<1>1. ASSUME NEW s \in Row, owner[s] = t
      PROVE  \E g \in Targets(t) : owner[g] = t /\ s \in Book!Below[g]
  <2>1. CASE s \in Targets(t)
    BY <1>1, <2>1, BelowRow
  <2>2. CASE s \notin Targets(t)
    <3>1. PICK p \in Parents(s) : owner[p] = t
      BY <1>1, <1>a, <2>2 DEF SweepExact
    <3>2. p \in Row
      BY ParentRows
    <3>3. CASE p \in Targets(t)
      <4>1. s \in Book!Below[p]
        BY <3>2, BelowRow
      <4> QED
        BY <3>1, <3>3, <4>1
    <3>4. CASE p \notin Targets(t)
      <4>1. PICK q \in Parents(p) : owner[q] = t
        BY <3>1, <3>2, <3>4, <1>a DEF SweepExact
      <4>2. q \in Row /\ Parents(q) = {}
        BY <3>2, ParentRows, ThreeLevels
      <4>3. q \in Targets(t)
        BY <1>a, <4>1, <4>2 DEF SweepExact
      <4>4. s \in Book!Below[q]
        BY <4>1, <4>2, BelowRow
      <4> QED
        BY <4>1, <4>3, <4>4
    <3> QED
      BY <3>3, <3>4
  <2> QED
    BY <2>1, <2>2
<1>2. PICK g \in Targets(t) : owner[g] = t
  BY <1>1
<1>3. g \in Row /\ Exists(db[g])
  BY <1>2, <1>c, <1>d
<1>4. ASSUME NEW s \in Row, owner[s] = t
      PROVE  s \in Book!Below[g] /\ Exists(db[s])
  <2>1. PICK h \in Targets(t) : owner[h] = t /\ s \in Book!Below[h]
    BY <1>1, <1>4
  <2>2. Exists(db[h])
    BY <2>1, <1>c, <1>d
  <2>3. g = h
    BY <1>a, <1>b, <1>3, <2>2, OneTarget
  <2> QED
    BY <1>4, <1>c, <2>1, <2>3
<1>5. ASSUME NEW p \in Row, owner[p] = t, NEW s \in Row, p \in Parents(s), Exists(db[s])
      PROVE  owner[s] = t
  <2>1. s \in Children(p)
    BY <1>5, ThreeLevels, ChildRows
  <2> QED
    BY <1>5, <1>a, <1>b, <2>1 DEF SweepComplete
<1>6. ASSUME NEW s \in Row, s \in Book!Below[g], Exists(db[s])
      PROVE  owner[s] = t
  <2>1. s = g \/ g \in Parents(s) \/ \E p \in Parents(s) : g \in Parents(p)
    BY <1>3, <1>6, BelowRow
  <2>2. ASSUME NEW p \in Parents(s), g \in Parents(p)
        PROVE  owner[s] = t
    <3>1. p \in Row /\ Exists(db[p])
      BY <1>6, <1>a, ThreeLevels DEF NoOrphanRows
    <3> QED
      BY <1>2, <1>3, <1>5, <1>6, <2>2, <3>1
  <2> QED
    BY <1>2, <1>3, <1>5, <1>6, <2>1, <2>2
<1> QED
  BY <1>3, <1>4, <1>6

(* A COMMIT is an insertion, an update or a removal, or changes nothing.   *)
LEMMA CommitIsBookStep ==
  ASSUME CustomerInv, NEW t \in Request, pc[t] = "commit", R!CommitRows(t)
  PROVE  Book!Next \/ db' = db
<1>a. Core
  BY CoreHolds
<1>b. /\ db \in [Row -> Version] /\ id[t] \in Row /\ value[t] \in Content /\ op[t] \in Commands
      /\ id[t] \in TableOf(op[t]) /\ todo[t] = {}
  BY <1>a, AtWork DEF Core, TypeOK, OwnStatements, Version
<1>c. db' = [r \in Row |-> IF owner[r] = t THEN dirty[r] ELSE db[r]]
  BY DEF R!CommitRows
<1>d. References[id[t]] = Parents(id[t]) /\ Rivalries[id[t]] = Twins(id[t])
  BY <1>b DEF References, Rivalries
<1>e. \A r \in Row : Book!Exists(r) <=> Exists(db[r])
  BY DEF Book!Exists, Exists
<1>1. ASSUME op[t] \in Creates \/ op[t] \in Updates, owner[id[t]] = t
      PROVE  db' = [db EXCEPT ![id[t]] = value[t]]
  <2>1. \A r \in Row : owner[r] = t => r = id[t] /\ dirty[r] = value[t]
    BY <1>1, <1>a, LockedRow, Kinds
  <2> QED
    BY <1>1, <1>b, <1>c, <2>1
<1>2. CASE op[t] \in Creates
  <2>1. owner[id[t]] = t /\ db[id[t]] = Unborn
    BY <1>2, <1>a DEF Core, NewIds
  <2>2. \A p \in Parents(id[t]) : p \in Row /\ Exists(db[p])
    BY <1>2, <1>a, <1>b, ParentRows DEF Core, ReferencesHeld
  <2>3. \A s \in Twins(id[t]) : s \in Row /\ ~ Exists(db[s])
    BY <1>2, <1>a, <1>b, <2>1, TwinRows DEF Core, InsertedAlone
  <2>4. Book!Insert(id[t], value[t])
    BY <1>2, <1>1, <1>d, <1>e, <2>1, <2>2, <2>3 DEF Book!Insert, Book!Anchored, Book!Alone
  <2> QED
    BY <1>b, <2>4 DEF Book!Next
<1>3. CASE op[t] \in Updates
  <2>1. owner[id[t]] = t
    BY <1>3, <1>a DEF Core, WorkDone
  <2>2. Exists(db[id[t]])
    BY <1>3, <1>a, <1>b, <2>1, LockedRow, Kinds
  <2>3. id[t] \in User \cup Item
    BY <1>3, <1>b DEF Updates, TableOf
  <2>4. Book!Update(id[t], value[t])
    BY <1>3, <1>1, <1>b, <1>e, <2>1, <2>2, <2>3 DEF Book!Update
  <2> QED
    BY <1>b, <2>4 DEF Book!Next
<1>4. CASE op[t] \in Removals /\ \E r \in Row : owner[r] = t
  <2>1. PICK g \in Row :
            /\ Exists(db[g])
            /\ \A s \in Row : owner[s] = t <=> s \in Book!Below[g] /\ Exists(db[s])
    BY <1>4, LockedIsBelow
  <2>2. \A s \in Row : owner[s] = t => dirty[s] = Deleted
    BY <1>4, <1>a, LockedRow, Kinds
  <2>3. db' = [s \in Row |-> IF s \in Book!Below[g] /\ Book!Exists(s) THEN Deleted ELSE db[s]]
    BY <1>c, <1>e, <2>1, <2>2
  <2>4. Book!Remove(g)
    BY <1>e, <2>1, <2>3 DEF Book!Remove
  <2> QED
    BY <2>4 DEF Book!Next
<1>5. CASE \A r \in Row : owner[r] # t
  BY <1>5, <1>b, <1>c
<1>6. op[t] \in Creates \/ op[t] \in Updates \/ op[t] \in Removals
  BY <1>b, Kinds
<1> QED
  BY <1>2, <1>3, <1>4, <1>5, <1>6

LEMMA BookStep ==
  ASSUME CustomerInv, [Next]_vars
  PROVE  [Book!Next]_db
<1> USE DEF table
<1>1. ASSUME NEW t \in Request,
             Look(t) \/ Insert(t) \/ Reference(t) \/ Find(t) \/ Write(t) \/ Reread(t)
             \/ Erase(t) \/ SweepDone(t) \/ Rollback(t)
      PROVE  db' = db
  BY <1>1 DEF Look, Insert, Reference, Find, Write, Reread, Erase, SweepDone, Rollback,
     R!WriteRow, R!RollbackRows
<1>2. ASSUME NEW t \in Request, NEW r \in Row, Sweep(t, r)
      PROVE  db' = db
  BY <1>2 DEF Sweep, R!WriteRow
<1>3. ASSUME NEW t \in Request, NEW c \in Commands, NEW r \in TableOf(c),
             NEW v \in ValuesOf(c), NEW o \in PathsOf(c), Start(t, c, r, v, o)
      PROVE  db' = db
  BY <1>3 DEF Start
<1>4. ASSUME NEW t \in Request, Commit(t) \/ Abort(t)
      PROVE  Book!Next \/ db' = db
  <2>1. (pc[t] = "commit" /\ R!CommitRows(t)) \/ R!RollbackRows(t)
    BY <1>4 DEF Commit, Abort
  <2> QED
    BY <2>1, CommitIsBookStep DEF R!RollbackRows
<1>5. CASE UNCHANGED vars
  BY <1>5 DEF vars
<1> QED
  BY <1>1, <1>2, <1>3, <1>4, <1>5, Steps

LEMMA BookInit == Init => Book!Init
<1> SUFFICES ASSUME Init PROVE Book!Init
  OBVIOUS
<1>1. CustomerInv
  BY InitKeeps
<1>2. db \in [Row -> Content \cup {Unborn}]
  BY InitialAssumption DEF Init, Content
<1>3. ASSUME NEW r \in Row, Exists(db[r])
      PROVE  Book!Anchored(r) /\ Book!Alone(r)
  <2>1. \A p \in Parents(r) : Exists(db[p])
    BY <1>1, <1>3, ThreeLevels DEF CustomerInv, NoOrphanRows
  <2>2. \A s \in Twins(r) : ~ Exists(db[s])
    BY <1>1, <1>3 DEF CustomerInv, UniqueKeys
  <2> QED
    BY <2>1, <2>2 DEF References, Rivalries, Book!Anchored, Book!Alone, Book!Exists, Exists
<1> QED
  BY <1>2, <1>3 DEF Book!Init, Book!Exists, Exists

(* A client that sees only what is committed sees each command happen at   *)
(* once: an insertion among rows that are there and without a rival, an    *)
(* update of a row that is there, or the removal of a row with all that    *)
(* hangs from it and nothing else.                                         *)
THEOREM ImplementsCustomerBookHolds == Spec => ImplementsCustomerBook
BY BookInit, BookStep, Invariance, PTL DEF Spec, ImplementsCustomerBook, Book!Spec

=============================================================================
