----------------------------- MODULE Catalog_proofs -----------------------------
(***************************************************************************)
(* Proofs about Catalog, for any number of products, categories and        *)
(* requests, and any range of the stock column.                            *)
(***************************************************************************)
EXTENDS Catalog, TLAPS

USE NoRequestAssumption, CommandsAssumption, VersionsAssumption, PatchedAssumption,
    StockAssumption, NoRowAssumption

(* What a request may do next, by name.                                    *)
LEMMA Steps ==
  ASSUME [Next]_vars
  PROVE  \/ UNCHANGED vars
         \/ \E t \in Request :
              \/ \E c \in Commands : \E r \in RowsOf(c), body \in Bodies(c) :
                    Start(t, c, r, body)
              \/ Reference(t) \/ Insert(t) \/ Find(t) \/ Write(t) \/ Reread(t)
              \/ Erase(t) \/ InsertCategory(t) \/ FindCategory(t) \/ Rename(t)
              \/ EraseCategory(t) \/ (\E p \in Product : Cascade(t, p))
              \/ CascadeDone(t) \/ Commit(t) \/ Rollback(t) \/ Abort(t)
BY DEF Next

-----------------------------------------------------------------------------
(* Types                                                                   *)

Version == Entity \cup {Unborn, Deleted}
CategoryStatus == {"unborn", "live", "deleted"}

(* The types of the two tables ...                                         *)
TableTypes ==
    /\ products \in [Product -> Version]
    /\ productLock \in [Product -> Request \cup {NoRequest}]
    /\ productDraft \in [Product -> Version]
    /\ categories \in [Category -> CategoryStatus]
    /\ categoryLock \in [Category -> Request \cup {NoRequest}]
    /\ categoryDraft \in [Category -> CategoryStatus]

(* ... and of what the requests keep.                                      *)
Body == Whole \cup Given(Put) \cup Given(Patched) \cup [is_active : BOOLEAN] \cup Adjustment \cup NoBody

RequestTypes ==
    /\ pc \in [Request -> PCs]
    /\ op \in [Request -> Commands \cup {"none"}]
    /\ id \in [Request -> Product \cup Category \cup {NoRow}]
    /\ \A t \in Request : pc[t] # "idle" => id[t] \in RowsOf(op[t])
    /\ dto \in [Request -> Body]
    /\ \A t \in Request : dto[t] \in Bodies(op[t])
    /\ product \in [Request -> Version]
    /\ todo \in [Request -> SUBSET Product]
    /\ result \in [Request -> Results]

LEMMA TypesSplit == TypeOK <=> TableTypes /\ RequestTypes
BY DEF TypeOK, TableTypes, RequestTypes, Version, CategoryStatus, Body

(* Committing and rolling back keep the types of the tables.               *)
LEMMA EndTypes ==
  ASSUME TableTypes, NEW t \in Request, CommitBoth(t) \/ RollbackBoth(t)
  PROVE  TableTypes'
BY DEF TableTypes, CommitBoth, RollbackBoth, P!CommitRows, P!RollbackRows,
   P!ReleaseLocks, C!CommitRows, C!RollbackRows, C!ReleaseLocks

LEMMA SwitchBody ==
  ASSUME NEW t \in Request, dto[t] \in Bodies(op[t]),
         op[t] \in {"activate", "deactivate"}
  PROVE  DOMAIN dto[t] = {"is_active"} /\ dto[t]["is_active"] \in BOOLEAN
<1>1. dto[t] \in [is_active : BOOLEAN]
  BY DEF Bodies
<1> QED
  BY <1>1

(* What a put or a patch brings is a part of an entity.                    *)
FromEntity(body, S, e) == e.stock \in Entered /\ body = [x \in S |-> e[x]]

LEMMA GivenPart ==
  ASSUME NEW t \in Request, dto[t] \in Bodies(op[t]), op[t] \in {"put", "patch"}
  PROVE  \E S \in SUBSET Columns : \E e \in Entity :
            /\ FromEntity(dto[t], S, e)
            /\ op[t] = "put" => S \in Put
<1>1. ASSUME NEW sets, NEW body \in Given(sets)
      PROVE  \E S \in sets : \E e \in Entity : FromEntity(body, S, e)
  BY DEF Given, Whole, Restrict, FromEntity
<1>2. CASE op[t] = "put"
  <2>1. dto[t] \in Given(Put)
    BY <1>2 DEF Bodies
  <2>2. PICK S \in Put : \E e \in Entity : FromEntity(dto[t], S, e)
    BY <1>1, <2>1
  <2>3. S \in SUBSET Columns
    BY PutAssumption
  <2> QED
    BY <2>2, <2>3
<1>3. CASE op[t] = "patch"
  <2>1. dto[t] \in Given(Patched)
    BY <1>3 DEF Bodies
  <2>2. PICK S \in Patched : \E e \in Entity : FromEntity(dto[t], S, e)
    BY <1>1, <2>1
  <2>3. S \in SUBSET Columns
    OBVIOUS
  <2> QED
    BY <1>3, <2>2, <2>3
<1> QED
  BY <1>2, <1>3

(* What a patch, a put or an adjustment makes of an entity is one, as far  *)
(* as the column can hold the stock.                                       *)
LEMMA AssignedEntity ==
  ASSUME NEW t \in Request, NEW v \in Entity,
         op[t] \in Commands \cup {"none"}, dto[t] \in Bodies(op[t]),
         op[t] \in {"put", "patch", "activate", "deactivate", "adjust"},
         product[t] \in Entity, Fits(Assigned(t, v))
  PROVE  Assigned(t, v) \in Entity
<1>0. op[t] \in {"put", "patch"} =>
         \E S \in SUBSET Columns, e \in Entity : FromEntity(dto[t], S, e)
  BY GivenPart
<1> USE DEF Assigned, Bodies, Entity, Columns, Fits
<1>1. CASE op[t] \in {"put", "patch"}
  <2>1. PICK S \in SUBSET Columns, e \in Entity : FromEntity(dto[t], S, e)
    BY <1>0, <1>1
  <2> QED
    BY <1>1, <2>1 DEF FromEntity
<1>3. CASE op[t] \in {"activate", "deactivate"}
  <2>2. DOMAIN dto[t] = {"is_active"} /\ dto[t]["is_active"] \in BOOLEAN
    BY <1>3, SwitchBody
  <2>3. Assigned(t, v) =
          [c \in Columns |-> IF c = "is_active" THEN dto[t]["is_active"] ELSE v[c]]
    BY <1>3, <2>2 DEF Columns
  <2>4. v["category_id"] \in Category /\ v["stock"] \in Stock
    OBVIOUS
  <2> QED
    BY <2>2, <2>3, <2>4
<1>4. CASE op[t] = "adjust"
  BY <1>4 DEF Adjustment
<1> QED
  BY <1>1, <1>3, <1>4

(* A switch or an adjustment leaves the category alone.                    *)
LEMMA CategoryKept ==
  ASSUME NEW t \in Request, dto[t] \in Bodies(op[t]),
         op[t] \in {"activate", "deactivate", "adjust"}, NEW v
  PROVE  Assigned(t, v).category_id = v.category_id
<1>1. CASE op[t] \in {"activate", "deactivate"}
  BY <1>1, SwitchBody DEF Assigned, Columns
<1>2. CASE op[t] = "adjust"
  BY <1>2 DEF Bodies, Assigned, Columns, Adjustment
<1> QED
  BY <1>1, <1>2

LEMMA CreateBody ==
  ASSUME NEW t \in Request, dto[t] \in Bodies(op[t]), op[t] = "create"
  PROVE  dto[t] \in Entity
BY DEF Bodies, Whole

LEMMA BodyOf ==
  ASSUME NEW c, NEW body \in Bodies(c)
  PROVE  body \in Body
<1>1. CASE c \in {"create", "put", "patch", "adjust"}
  BY <1>1 DEF Bodies, Body
<1>2. CASE c = "activate"
  BY <1>2 DEF Bodies, Body
<1>3. CASE c = "deactivate"
  BY <1>3 DEF Bodies, Body
<1>4. CASE c \notin {"create", "put", "patch", "activate", "deactivate", "adjust"}
  BY <1>4 DEF Bodies, Body
<1> QED
  BY <1>1, <1>2, <1>3, <1>4

(* A request that starts has a body and an id of its command.              *)
LEMMA StartTypes ==
  ASSUME RequestTypes, NEW t \in Request, NEW c \in Commands, NEW r \in RowsOf(c),
         NEW body \in Bodies(c), Start(t, c, r, body)
  PROVE  RequestTypes'
<1>1. body \in Body
  BY BodyOf
<1>2. r \in Product \cup Category
  BY DEF RowsOf
<1>3. pc' \in [Request -> PCs]
  BY DEF RequestTypes, Start, Goto, PCs, Statements
<1>4. \A s \in Request :
        /\ op'[s] = (IF s = t THEN c ELSE op[s])
        /\ id'[s] = (IF s = t THEN r ELSE id[s])
        /\ dto'[s] = (IF s = t THEN body ELSE dto[s])
        /\ s # t => pc'[s] = pc[s]
  BY DEF RequestTypes, Start, Goto
<1>5. \A s \in Request : dto'[s] \in Bodies(op'[s])
  BY <1>4 DEF RequestTypes
<1>6. \A s \in Request : pc'[s] # "idle" => id'[s] \in RowsOf(op'[s])
  BY <1>4 DEF RequestTypes
<1> QED
  BY <1>1, <1>2, <1>3, <1>5, <1>6 DEF RequestTypes, Start, locals

(* The answer leaves nothing of the request.                               *)
LEMMA AnswerTypes ==
  ASSUME RequestTypes, NEW t \in Request, Answer(t)
  PROVE  RequestTypes'
<1>1. << >> \in NoBody /\ Bodies("none") = NoBody
  BY DEF NoBody, Bodies
<1> QED
  BY <1>1 DEF RequestTypes, Answer, Goto, PCs, Results, Version, Body

(* A statement leaves the request's command, id and body as they are.      *)
LEMMA StatementTypes ==
  ASSUME RequestTypes, NEW t \in Request, pc[t] # "idle", UNCHANGED inputs,
         NEW label \in PCs, Goto(t, label) \/ UNCHANGED pc,
         product' \in [Request -> Version],
         todo' \in [Request -> SUBSET Product],
         result' \in [Request -> Results]
  PROVE  RequestTypes'
BY DEF RequestTypes, Goto, inputs

(* The product that a request reads.                                       *)
LEMMA SeenVersion ==
  ASSUME TableTypes, NEW t \in Request, id[t] \in Product
  PROVE  Seen(t) \in Version
BY DEF TableTypes, Seen, P!Visible

(* Each command executes its own statements only.                          *)
LEMMA OwnStatementsKept ==
  ASSUME TypeOK, OwnStatements, [Next]_vars
  PROVE  OwnStatements'
<1> USE TypesSplit DEF RequestTypes, OwnStatements, Goto, Throw
<1>1. ASSUME NEW t \in Request, NEW c \in Commands, NEW r \in RowsOf(c),
             NEW body \in Bodies(c), Start(t, c, r, body)
      PROVE  OwnStatements'
  BY <1>1 DEF Start, Updates, ProductCommands, CategoryCommands, locals
<1>2. ASSUME NEW t \in Request, Reference(t) PROVE OwnStatements'
  BY <1>2 DEF Reference, inputs
<1>3. ASSUME NEW t \in Request, Insert(t) \/ Find(t) PROVE OwnStatements'
  BY <1>3 DEF Insert, Find, inputs, Updates, ProductCommands
<1>4. ASSUME NEW t \in Request, Write(t) PROVE OwnStatements'
  <2>1. op[t] \in {"activate", "deactivate", "adjust"} =>
           Assigned(t, Seen(t)).category_id = Seen(t).category_id
    BY CategoryKept
  <2> QED
    BY <1>4, <2>1 DEF Write, inputs, Updates
<1>5. ASSUME NEW t \in Request, Reread(t) \/ Erase(t) PROVE OwnStatements'
  BY <1>5 DEF Reread, Erase, inputs, locals
<1>6. ASSUME NEW t \in Request, InsertCategory(t) \/ FindCategory(t) \/ Rename(t)
      PROVE  OwnStatements'
  BY <1>6 DEF InsertCategory, FindCategory, Rename, inputs
<1>7. ASSUME NEW t \in Request, EraseCategory(t) PROVE OwnStatements'
  BY <1>7 DEF EraseCategory, inputs
<1>8. ASSUME NEW t \in Request, NEW p \in Product, Cascade(t, p) PROVE OwnStatements'
  BY <1>8 DEF Cascade, inputs
<1>9. ASSUME NEW t \in Request, CascadeDone(t) PROVE OwnStatements'
  BY <1>9 DEF CascadeDone, inputs, locals
<1>10. ASSUME NEW t \in Request, Answer(t) PROVE OwnStatements'
  BY <1>10 DEF Answer
<1>11. CASE UNCHANGED vars
  BY <1>11 DEF vars, inputs, locals
<1> QED
  BY <1>1, <1>2, <1>3, <1>4, <1>5, <1>6, <1>7, <1>8, <1>9, <1>10, <1>11, Steps
     DEF Commit, Rollback, Abort

(* An update has found its product.                                        *)
LEMMA ProductFoundKept ==
  ASSUME TypeOK, ProductFound, [Next]_vars
  PROVE  ProductFound'
<1> USE TypesSplit DEF RequestTypes, ProductFound, Exists, Goto, Throw
<1>1. ASSUME NEW t \in Request, NEW c \in Commands, NEW r \in RowsOf(c),
             NEW body \in Bodies(c), Start(t, c, r, body)
      PROVE  ProductFound'
  BY <1>1 DEF Start, locals
<1>2. ASSUME NEW t \in Request, Reference(t) \/ Insert(t) \/ Find(t) \/ Write(t)
      PROVE  ProductFound'
  BY <1>2 DEF Reference, Insert, Find, Write
<1>3. ASSUME NEW t \in Request, Reread(t) \/ Erase(t) PROVE ProductFound'
  BY <1>3 DEF Reread, Erase, locals
<1>4. ASSUME NEW t \in Request, InsertCategory(t) \/ FindCategory(t) \/ Rename(t)
      PROVE  ProductFound'
  BY <1>4 DEF InsertCategory, FindCategory, Rename
<1>5. ASSUME NEW t \in Request,
             EraseCategory(t) \/ CascadeDone(t) \/ \E p \in Product : Cascade(t, p)
      PROVE  ProductFound'
  BY <1>5 DEF EraseCategory, CascadeDone, Cascade, locals
<1>6. ASSUME NEW t \in Request, Answer(t) PROVE ProductFound'
  BY <1>6 DEF Answer
<1>7. CASE UNCHANGED vars
  BY <1>7 DEF vars, locals
<1> QED
  BY <1>1, <1>2, <1>3, <1>4, <1>5, <1>6, <1>7, Steps DEF Commit, Rollback, Abort

LEMMA InitTypes == Init => TypeOK /\ OwnStatements /\ ProductFound
<1>1. << >> \in NoBody /\ Bodies("none") = NoBody
  BY DEF NoBody, Bodies
<1>2. Init => OwnStatements
  BY DEF Init, OwnStatements
<1>3. Init => ProductFound
  BY DEF Init, ProductFound
<1>4. Init => TypeOK
  BY <1>1 DEF Init, TypeOK, PCs, Results
<1> QED
  BY <1>2, <1>3, <1>4

(* No step takes a variable out of its type.                               *)
LEMMA TypesKept ==
  ASSUME TypeOK, OwnStatements, ProductFound, [Next]_vars
  PROVE  TypeOK'
<1> USE TypesSplit DEF Goto, Throw
<1>a. TableTypes /\ RequestTypes
  OBVIOUS
<1>b. \A t \in Request :
        op[t] \in ProductCommands /\ pc[t] # "idle" => id[t] \in Product
  BY <1>a DEF RequestTypes, RowsOf, ProductCommands, CategoryCommands
<1>c. \A t \in Request :
        op[t] \in CategoryCommands /\ pc[t] # "idle" => id[t] \in Category
  BY <1>a DEF RequestTypes, RowsOf
<1> SUFFICES TableTypes' /\ RequestTypes'
  BY DEF TypeOK, TableTypes, RequestTypes, Version, CategoryStatus, Body
<1>1. ASSUME NEW t \in Request, NEW c \in Commands, NEW r \in RowsOf(c),
             NEW body \in Bodies(c), Start(t, c, r, body)
      PROVE  TableTypes' /\ RequestTypes'
  BY <1>1, <1>a, StartTypes DEF Start, TableTypes, table, categoryTable
<1>2. ASSUME NEW t \in Request, Reference(t) PROVE TableTypes' /\ RequestTypes'
  BY <1>2, <1>a, StatementTypes DEF Reference, TableTypes, RequestTypes, table,
     categoryTable, PCs, Statements, Results
<1>3. ASSUME NEW t \in Request, Insert(t) PROVE TableTypes' /\ RequestTypes'
  <2>1. id[t] \in Product /\ dto[t] \in Version
    BY <1>3, <1>a, <1>b, CreateBody
       DEF Insert, OwnStatements, ProductCommands, RequestTypes, Version
  <2>2. TableTypes'
    BY <1>3, <1>a, <2>1 DEF Insert, P!WriteRow, TableTypes, categoryTable
  <2> QED
    BY <1>3, <1>a, <2>1, <2>2, StatementTypes
       DEF Insert, RequestTypes, PCs, Statements
<1>4. ASSUME NEW t \in Request, Find(t) PROVE TableTypes' /\ RequestTypes'
  <2>1. Seen(t) \in Version
    BY <1>4, <1>a, <1>b, SeenVersion DEF Find, OwnStatements
  <2> QED
    BY <1>4, <1>a, <2>1, StatementTypes DEF Find, TableTypes, RequestTypes, table,
       categoryTable, PCs, Statements, Results
<1>5. ASSUME NEW t \in Request, Write(t) PROVE TableTypes' /\ RequestTypes'
  <2>1. op[t] \in Updates /\ id[t] \in Product
    BY <1>5, <1>b DEF Write, OwnStatements, Updates, ProductCommands
  <2>2. Exists(Seen(t)) /\ Fits(Assigned(t, Seen(t))) => Assigned(t, Seen(t)) \in Version
    BY <1>5, <1>a, <2>1, AssignedEntity
       DEF Write, ProductFound, Exists, RequestTypes, Version, Updates
  <2>3. TableTypes'
    BY <1>5, <1>a, <2>1, <2>2 DEF Write, P!WriteRow, TableTypes, table, categoryTable
  <2> QED
    BY <1>5, <1>a, <2>3, StatementTypes
       DEF Write, RequestTypes, PCs, Statements, Results
<1>6. ASSUME NEW t \in Request, Reread(t) PROVE TableTypes' /\ RequestTypes'
  <2>1. Seen(t) \in Version
    BY <1>6, <1>a, <1>b, SeenVersion DEF Reread, OwnStatements, ProductCommands
  <2>2. TableTypes'
    BY <1>6, <1>a DEF Reread, TableTypes, table, categoryTable
  <2>3. product' \in [Request -> Version] /\ result' \in [Request -> Results]
    BY <1>6, <1>a, <2>1 DEF Reread, RequestTypes, Results
  <2> QED
    BY <1>6, <1>a, <2>2, <2>3, StatementTypes DEF Reread, RequestTypes, PCs
<1>7. ASSUME NEW t \in Request, Erase(t) PROVE TableTypes' /\ RequestTypes'
  <2>1. id[t] \in Product
    BY <1>7, <1>b DEF Erase, OwnStatements, ProductCommands
  <2>2. TableTypes'
    BY <1>7, <1>a, <2>1 DEF Erase, P!WriteRow, TableTypes, Version, table, categoryTable
  <2> QED
    BY <1>7, <1>a, <2>2, StatementTypes DEF Erase, RequestTypes, PCs, locals
<1>8. ASSUME NEW t \in Request, InsertCategory(t) \/ FindCategory(t) \/ Rename(t)
      PROVE  TableTypes' /\ RequestTypes'
  <2>1. id[t] \in Category
    BY <1>8, <1>c DEF InsertCategory, FindCategory, Rename, OwnStatements, CategoryCommands
  <2>2. TableTypes'
    BY <1>8, <1>a, <2>1 DEF InsertCategory, FindCategory, Rename, C!WriteRow, TableTypes,
       CategoryStatus, table, categoryTable
  <2> QED
    BY <1>8, <1>a, <2>2, StatementTypes DEF InsertCategory, FindCategory, Rename,
       RequestTypes, PCs, Statements, Results
<1>9. ASSUME NEW t \in Request, EraseCategory(t) PROVE TableTypes' /\ RequestTypes'
  <2>1. id[t] \in Category
    BY <1>9, <1>c DEF EraseCategory, OwnStatements, CategoryCommands
  <2>2. TableTypes'
    BY <1>9, <1>a, <2>1 DEF EraseCategory, C!WriteRow, TableTypes, CategoryStatus, table,
       categoryTable
  <2>3. todo' \in [Request -> SUBSET Product]
    BY <1>9, <1>a DEF EraseCategory, Members, RequestTypes
  <2> QED
    BY <1>9, <1>a, <2>2, <2>3, StatementTypes
       DEF EraseCategory, RequestTypes, PCs, Statements
<1>10. ASSUME NEW t \in Request, NEW p \in Product, Cascade(t, p)
       PROVE  TableTypes' /\ RequestTypes'
  <2>1. TableTypes'
    BY <1>10, <1>a DEF Cascade, P!WriteRow, TableTypes, Version, table, categoryTable
  <2> QED
    BY <1>10, <1>a, <2>1, StatementTypes DEF Cascade, RequestTypes, PCs
<1>11. ASSUME NEW t \in Request, CascadeDone(t) PROVE TableTypes' /\ RequestTypes'
  BY <1>11, <1>a, StatementTypes DEF CascadeDone, TableTypes, RequestTypes, table,
     categoryTable, PCs, locals
<1>12. ASSUME NEW t \in Request, Answer(t), CommitBoth(t) \/ RollbackBoth(t)
       PROVE  TableTypes' /\ RequestTypes'
  BY <1>12, <1>a, AnswerTypes, EndTypes
<1>13. CASE UNCHANGED vars
  BY <1>13, <1>a DEF vars, TableTypes, RequestTypes, table, categoryTable, inputs, locals
<1> QED
  BY <1>1, <1>2, <1>3, <1>4, <1>5, <1>6, <1>7, <1>8, <1>9, <1>10, <1>11, <1>12, <1>13,
     Steps DEF Commit, Rollback, Abort

(* Every variable keeps its type; a stock never leaves its column's range. *)
THEOREM TypeCorrect == Spec => []TypeOK
<1>1. Init => TypeOK /\ OwnStatements /\ ProductFound
  BY InitTypes
<1>2. TypeOK /\ OwnStatements /\ ProductFound /\ [Next]_vars =>
         TypeOK' /\ OwnStatements' /\ ProductFound'
  BY TypesKept, OwnStatementsKept, ProductFoundKept
<1> QED
  BY <1>1, <1>2, PTL DEF Spec

-----------------------------------------------------------------------------
(* The inductive invariant                                                 *)

(* First the parts that make each other inductive; what the abstract       *)
(* catalog needs besides is built on them.                                 *)
Core ==
    /\ OwnStatements
    /\ ProductLocks
    /\ CategoryLocks
    /\ NewIds
    /\ ReferencesHeld
    /\ CascadeComplete
    /\ FoundBefore
    /\ DraftsAssigned
    /\ AnswersReady
    /\ NoOrphans

Old == Core /\ TypeOK /\ TypeOK'

(* The locks that are left when the transaction of t ends.                 *)
LEMMA LocksAfterEnd ==
  ASSUME TypeOK, NEW t \in Request, CommitBoth(t) \/ RollbackBoth(t)
  PROVE  /\ \A p \in Product :
              /\ productLock'[p] # t
              /\ productLock'[p] # NoRequest =>
                    /\ productLock'[p] = productLock[p]
                    /\ products'[p] = products[p] /\ productDraft'[p] = productDraft[p]
         /\ \A c \in Category :
              /\ categoryLock'[c] # t
              /\ categoryLock'[c] # NoRequest =>
                    /\ categoryLock'[c] = categoryLock[c]
                    /\ categories'[c] = categories[c]
                    /\ categoryDraft'[c] = categoryDraft[c]
BY DEF TypeOK, CommitBoth, RollbackBoth, P!CommitRows, P!RollbackRows,
   P!ReleaseLocks, C!CommitRows, C!RollbackRows, C!ReleaseLocks

LEMMA UnlockedAfterEnd ==
  ASSUME TypeOK, NEW t \in Request, CommitBoth(t) \/ RollbackBoth(t)
  PROVE  /\ \A p \in Product : productLock[p] # t =>
              /\ productLock'[p] = productLock[p]
              /\ products'[p] = products[p] /\ productDraft'[p] = productDraft[p]
         /\ \A c \in Category : categoryLock[c] # t =>
              /\ categoryLock'[c] = categoryLock[c]
              /\ categories'[c] = categories[c] /\ categoryDraft'[c] = categoryDraft[c]
BY DEF TypeOK, CommitBoth, RollbackBoth, P!CommitRows, P!RollbackRows,
   P!ReleaseLocks, C!CommitRows, C!RollbackRows, C!ReleaseLocks

(* What the end of t leaves of the requests.                               *)
LEMMA RequestsAfterAnswer ==
  ASSUME TypeOK, NEW t \in Request, Answer(t)
  PROVE  /\ pc'[t] = "idle" /\ op'[t] = "none" /\ todo'[t] = {}
         /\ \A s \in Request \ {t} :
              /\ pc'[s] = pc[s] /\ op'[s] = op[s] /\ id'[s] = id[s] /\ dto'[s] = dto[s]
              /\ product'[s] = product[s] /\ todo'[s] = todo[s]
BY DEF TypeOK, Answer, Goto

LEMMA NoEntity == Deleted \notin Entity /\ Unborn \notin Entity
OBVIOUS

LEMMA ProductLocksKept ==
  ASSUME Old, ProductFound, [Next]_vars
  PROVE  ProductLocks'
<1> USE DEF Old, Core, ProductLocks, Goto, Throw
<1> USE DEF TypeOK
<1>1. ASSUME NEW t \in Request, NEW c \in Commands, NEW r \in RowsOf(c),
             NEW body \in Bodies(c), Start(t, c, r, body)
      PROVE  ProductLocks'
  BY <1>1 DEF Start, table
<1>2. ASSUME NEW t \in Request, Reference(t) PROVE ProductLocks'
  BY <1>2 DEF Reference, inputs, table
<1>3. ASSUME NEW t \in Request, Insert(t) PROVE ProductLocks'
  <2>1. op[t] = "create" /\ Exists(dto[t])
    BY <1>3, CreateBody DEF Insert, OwnStatements, Exists
  <2> QED
    BY <1>3, <2>1 DEF Insert, inputs, P!WriteRow, NewIds, Exists
<1>4. ASSUME NEW t \in Request, Find(t) PROVE ProductLocks'
  BY <1>4 DEF Find, inputs, table
<1>5. ASSUME NEW t \in Request, Write(t) PROVE ProductLocks'
  <2>1. op[t] \in Updates
    BY <1>5 DEF Write, OwnStatements
  <2>2. Exists(Seen(t)) /\ Fits(Assigned(t, Seen(t))) => Exists(Assigned(t, Seen(t)))
    BY <1>5, <2>1, AssignedEntity DEF Write, ProductFound, Exists, Updates
  <2> QED
    BY <1>5, <2>1, <2>2 DEF Write, inputs, table, P!WriteRow, P!Available, P!Visible,
       Seen, Updates
<1>6. ASSUME NEW t \in Request, Reread(t) PROVE ProductLocks'
  BY <1>6 DEF Reread, inputs, table
<1>7. ASSUME NEW t \in Request, Erase(t) PROVE ProductLocks'
  BY <1>7, SMTT(30) DEF Erase, inputs, table, P!WriteRow, P!Available, P!Visible, Seen,
     OwnStatements
<1>8. ASSUME NEW t \in Request, InsertCategory(t) \/ FindCategory(t) \/ Rename(t)
      PROVE  ProductLocks'
  BY <1>8 DEF InsertCategory, FindCategory, Rename, inputs, table
<1>9. ASSUME NEW t \in Request, EraseCategory(t) PROVE ProductLocks'
  BY <1>9 DEF EraseCategory, inputs, table
<1>10. ASSUME NEW t \in Request, NEW p \in Product, Cascade(t, p) PROVE ProductLocks'
  BY <1>10 DEF Cascade, inputs, table, P!WriteRow, P!Available, P!Visible, InCategory, OwnStatements
<1>11. ASSUME NEW t \in Request, CascadeDone(t) PROVE ProductLocks'
  BY <1>11 DEF CascadeDone, inputs, table
<1>12. ASSUME NEW t \in Request, Answer(t), CommitBoth(t) \/ RollbackBoth(t)
       PROVE  ProductLocks'
  <2> SUFFICES ASSUME NEW p \in Product, NEW s \in Request, productLock'[p] = s
               PROVE  /\ pc'[s] \in {"reference", "reread", "commit", "rollback", "cascade"}
                      /\ op'[s] # "deleteCategory" => p = id'[s]
                      /\ IF op'[s] \in {"delete", "deleteCategory"}
                         THEN productDraft'[p] = Deleted ELSE Exists(productDraft'[p])
                      /\ IF op'[s] = "create" THEN products'[p] = Unborn
                                              ELSE Exists(products'[p])
    BY DEF Exists
  <2>1. /\ s # t /\ productLock[p] = s
        /\ products'[p] = products[p] /\ productDraft'[p] = productDraft[p]
    BY <1>12, LocksAfterEnd
  <2> QED
    BY <1>12, <2>1, RequestsAfterAnswer
<1>13. CASE UNCHANGED vars
  BY <1>13 DEF vars, table, inputs
<1> QED
  BY <1>1, <1>2, <1>3, <1>4, <1>5, <1>6, <1>7, <1>8, <1>9, <1>10, <1>11, <1>12, <1>13,
     Steps DEF Commit, Rollback, Abort

LEMMA CategoryLocksKept ==
  ASSUME Old, [Next]_vars
  PROVE  CategoryLocks'
<1> USE DEF Old, Core, CategoryLocks, Goto, Throw, TypeOK
<1>1. ASSUME NEW t \in Request, NEW c \in Commands, NEW r \in RowsOf(c),
             NEW body \in Bodies(c), Start(t, c, r, body)
      PROVE  CategoryLocks'
  BY <1>1 DEF Start, categoryTable
<1>2. ASSUME NEW t \in Request, Reference(t) \/ Insert(t) \/ Find(t) PROVE CategoryLocks'
  BY <1>2 DEF Reference, Insert, Find, inputs, categoryTable
<1>3. ASSUME NEW t \in Request, Write(t) \/ Reread(t) \/ Erase(t) PROVE CategoryLocks'
  BY <1>3 DEF Write, Reread, Erase, inputs, categoryTable
<1>4. ASSUME NEW t \in Request, InsertCategory(t) PROVE CategoryLocks'
  BY <1>4 DEF InsertCategory, inputs, categoryTable, C!WriteRow, OwnStatements, CategoryCommands
<1>5. ASSUME NEW t \in Request, FindCategory(t) PROVE CategoryLocks'
  BY <1>5 DEF FindCategory, inputs, categoryTable
<1>6. ASSUME NEW t \in Request, Rename(t) PROVE CategoryLocks'
  BY <1>6 DEF Rename, inputs, categoryTable, C!WriteRow, OwnStatements, CategoryCommands
<1>7. ASSUME NEW t \in Request, EraseCategory(t) PROVE CategoryLocks'
  BY <1>7 DEF EraseCategory, inputs, categoryTable, C!WriteRow, OwnStatements, CategoryCommands
<1>8. ASSUME NEW t \in Request, NEW p \in Product, Cascade(t, p) PROVE CategoryLocks'
  BY <1>8 DEF Cascade, inputs, categoryTable
<1>9. ASSUME NEW t \in Request, CascadeDone(t) PROVE CategoryLocks'
  BY <1>9 DEF CascadeDone, inputs, categoryTable
<1>10. ASSUME NEW t \in Request, Answer(t), CommitBoth(t) \/ RollbackBoth(t)
       PROVE  CategoryLocks'
  <2> SUFFICES ASSUME NEW c \in Category, NEW s \in Request, categoryLock'[c] = s
               PROVE  /\ pc'[s] \in {"cascade", "commit"}
                      /\ op'[s] \in CategoryCommands
                      /\ c = id'[s]
                      /\ categoryDraft'[c] =
                            IF op'[s] = "deleteCategory" THEN "deleted" ELSE "live"
    OBVIOUS
  <2>1. s # t /\ categoryLock[c] = s /\ categoryDraft'[c] = categoryDraft[c]
    BY <1>10, LocksAfterEnd
  <2> QED
    BY <1>10, <2>1, RequestsAfterAnswer
<1>11. CASE UNCHANGED vars
  BY <1>11 DEF vars, categoryTable, inputs
<1> QED
  BY <1>1, <1>2, <1>3, <1>4, <1>5, <1>6, <1>7, <1>8, <1>9, <1>10, <1>11,
     Steps DEF Commit, Rollback, Abort

(* Statements on a table are about one of its rows.                        *)
LEMMA Ids ==
  ASSUME Old
  PROVE  \A s \in Request :
           /\ pc[s] \in {"insert", "find", "write", "reference", "reread", "erase"} =>
                 id[s] \in Product
           /\ pc[s] \in {"insertCategory", "findCategory", "rename", "eraseCategory",
                         "cascade"} => id[s] \in Category
BY DEF Old, Core, TypeOK, OwnStatements, Updates, RowsOf, ProductCommands, CategoryCommands

(* Rows that are about to be inserted: an id can be locked or taken        *)
(* neither before nor while its command starts.                            *)
LEMMA NewIdsKept ==
  ASSUME Old, [Next]_vars
  PROVE  NewIds'
<1> USE DEF Old, Core, NewIds, Goto, Throw, TypeOK
<1>1. ASSUME NEW t \in Request, NEW c \in Commands, NEW r \in RowsOf(c),
             NEW body \in Bodies(c), Start(t, c, r, body)
      PROVE  NewIds'
  <2>1. c = "create" => r \in Product /\ productLock[r] = NoRequest
    <3>1. c = "create" => r \in Product /\ ~ Exists(products[r]) /\ \A s \in Request : id[s] # r
      BY <1>1, NoEntity DEF Start, Fresh, Exists, RowsOf, CategoryCommands
    <3> QED
      BY <3>1 DEF ProductLocks
  <2>2. c = "createCategory" => r \in Category /\ categoryLock[r] = NoRequest
    BY <1>1 DEF Start, Fresh, CategoryLocks, RowsOf, CategoryCommands
  <2> QED
    BY <1>1, <2>1, <2>2 DEF Start, Fresh, table, categoryTable
<1>2. ASSUME NEW t \in Request, Reference(t) \/ Find(t) PROVE NewIds'
  BY <1>2 DEF Reference, Find, inputs, table, categoryTable
<1>3. ASSUME NEW t \in Request, Insert(t) PROVE NewIds'
  BY <1>3, Ids DEF Insert, inputs, P!WriteRow, categoryTable
<1>4. ASSUME NEW t \in Request, Write(t) PROVE NewIds'
  BY <1>4, Ids DEF Write, inputs, table, P!WriteRow, P!Visible, Seen, Exists, categoryTable
<1>5. ASSUME NEW t \in Request, Reread(t) PROVE NewIds'
  BY <1>5 DEF Reread, inputs, table, categoryTable
<1>6. ASSUME NEW t \in Request, Erase(t) PROVE NewIds'
  BY <1>6, Ids DEF Erase, inputs, table, P!WriteRow, P!Visible, Seen, Exists, categoryTable
<1>7. ASSUME NEW t \in Request, InsertCategory(t) PROVE NewIds'
  BY <1>7, Ids DEF InsertCategory, inputs, C!WriteRow, table, categoryTable
<1>8. ASSUME NEW t \in Request, FindCategory(t) PROVE NewIds'
  BY <1>8 DEF FindCategory, inputs, table, categoryTable
<1>9. ASSUME NEW t \in Request, Rename(t) PROVE NewIds'
  BY <1>9, Ids DEF Rename, inputs, C!WriteRow, C!Visible, table, categoryTable
<1>10. ASSUME NEW t \in Request, EraseCategory(t) PROVE NewIds'
  BY <1>10, Ids DEF EraseCategory, inputs, C!WriteRow, C!Visible, table, categoryTable
<1>11. ASSUME NEW t \in Request, NEW p \in Product, Cascade(t, p) PROVE NewIds'
  BY <1>11, Ids DEF Cascade, inputs, table, P!WriteRow, P!Visible, InCategory, Exists, categoryTable
<1>12. ASSUME NEW t \in Request, CascadeDone(t) PROVE NewIds'
  BY <1>12 DEF CascadeDone, inputs, table, categoryTable
<1>13. ASSUME NEW t \in Request, Answer(t), CommitBoth(t) \/ RollbackBoth(t)
       PROVE  NewIds'
  <2>1. \A p \in Product : productLock[p] = NoRequest =>
           productLock'[p] = NoRequest /\ products'[p] = products[p]
    BY <1>13, UnlockedAfterEnd
  <2>2. \A c \in Category : categoryLock[c] = NoRequest =>
           categoryLock'[c] = NoRequest /\ categories'[c] = categories[c]
    BY <1>13, UnlockedAfterEnd
  <2>3. pc'[t] = "idle" /\ \A s \in Request \ {t} : pc'[s] = pc[s] /\ id'[s] = id[s]
    BY <1>13, RequestsAfterAnswer
  <2>4. ASSUME NEW s \in Request, pc'[s] = "insert"
        PROVE  products'[id'[s]] = Unborn /\ productLock'[id'[s]] = NoRequest
    BY <2>1, <2>3, <2>4, Ids
  <2>5. ASSUME NEW s \in Request, pc'[s] = "insertCategory"
        PROVE  categories'[id'[s]] = "unborn" /\ categoryLock'[id'[s]] = NoRequest
    BY <2>2, <2>3, <2>5, Ids, SMTT(30)
  <2>6. ASSUME NEW s \in Request, pc'[s] \in {"insert", "insertCategory"},
               NEW u \in Request \ {s}, pc'[u] = pc'[s]
        PROVE  id'[u] # id'[s]
    <3>1. s # t /\ u # t
      BY <2>3, <2>6
    <3>2. pc'[s] = pc[s] /\ id'[s] = id[s] /\ pc'[u] = pc[u] /\ id'[u] = id[u]
      BY <2>3, <3>1
    <3>3. NewIds
      OBVIOUS
    <3> HIDE DEF TypeOK, Core, Old
    <3>4. id[u] # id[s]
      BY <2>6, <3>2, <3>3 DEF NewIds
    <3> QED
      BY <3>2, <3>4
  <2> HIDE DEF TypeOK
  <2> QED
    BY <2>4, <2>5, <2>6 DEF NewIds
<1>14. CASE UNCHANGED vars
  BY <1>14 DEF vars, table, categoryTable, inputs
<1> QED
  BY <1>1, <1>2, <1>3, <1>4, <1>5, <1>6, <1>7, <1>8, <1>9, <1>10, <1>11, <1>12, <1>13,
     <1>14, Steps DEF Commit, Rollback, Abort

(* From the check of the foreign key to the COMMIT nobody can take the     *)
(* category away: whoever deletes or renames it would have to exclude the  *)
(* reference.                                                              *)
LEMMA ReferencesHeldKept ==
  ASSUME Old, [Next]_vars
  PROVE  ReferencesHeld'
<1>a. ASSUME NEW t \in Request, Exclusive(t, id[t]), pc[t] \in {"rename", "eraseCategory"},
             UNCHANGED <<table, id>>, \A s \in Request \ {t} : pc'[s] = pc[s],
             NEW v, UNCHANGED categoryTable \/ C!WriteRow(t, id[t], v)
      PROVE  ReferencesHeld'
  <2> SUFFICES ASSUME NEW s \in Request, NEW p \in Product, NEW c \in Category,
                      pc'[s] \in {"reread", "commit"}, productLock[p] = s,
                      InCategory(productDraft[p], c), ~ InCategory(products[p], c)
               PROVE  categories'[c] = "live" /\ categoryLock'[c] = NoRequest
    BY <1>a DEF ReferencesHeld, table, InCategory, Exists
  <2>1. s # t
    BY <1>a DEF Old, Core, ProductLocks
  <2>2. Refers(s, c)
    BY <1>a, <2>1 DEF Refers
  <2>3. c # id[t]
    BY <1>a, <2>1, <2>2 DEF Exclusive
  <2>4. categories[c] = "live" /\ categoryLock[c] = NoRequest
    BY <1>a, <2>1 DEF Old, Core, ReferencesHeld
  <2> QED
    BY <1>a, <2>3, <2>4 DEF categoryTable, C!WriteRow, Old, TypeOK
<1> USE DEF Old, Core, ReferencesHeld, Goto, Throw, TypeOK, InCategory, Exists
<1>1. ASSUME NEW t \in Request, NEW c \in Commands, NEW r \in RowsOf(c),
             NEW body \in Bodies(c), Start(t, c, r, body)
      PROVE  ReferencesHeld'
  BY <1>1 DEF Start, table, categoryTable
<1>2. ASSUME NEW t \in Request, Reference(t) PROVE ReferencesHeld'
  BY <1>2, Ids DEF Reference, table, categoryTable, inputs, ProductLocks, CategoryLocks,
     OwnStatements, Seen, P!Visible, C!Available
<1>3. ASSUME NEW t \in Request, Insert(t) PROVE ReferencesHeld'
  BY <1>3, Ids DEF Insert, P!WriteRow, categoryTable
<1>4. ASSUME NEW t \in Request, Find(t) PROVE ReferencesHeld'
  BY <1>4 DEF Find, table, categoryTable
<1>5. ASSUME NEW t \in Request, Write(t) PROVE ReferencesHeld'
  BY <1>5, Ids, SMTT(30) DEF Write, table, categoryTable, P!WriteRow, P!Visible, Seen, ProductLocks
<1>6. ASSUME NEW t \in Request, Reread(t) PROVE ReferencesHeld'
  BY <1>6 DEF Reread, table, categoryTable
<1>7. ASSUME NEW t \in Request, Erase(t) PROVE ReferencesHeld'
  <2>1. id[t] \in Product /\ \A p \in Product : productLock[p] # t
    BY <1>7, Ids DEF Erase, ProductLocks
  <2>2. CASE UNCHANGED table
    BY <1>7, <2>1, <2>2 DEF Erase, table, categoryTable
  <2>3. CASE P!WriteRow(t, id[t], Deleted)
    BY <1>7, <2>1, <2>3, NoEntity DEF Erase, P!WriteRow, categoryTable
  <2> QED
    BY <1>7, <2>2, <2>3 DEF Erase
<1>8. ASSUME NEW t \in Request, InsertCategory(t) PROVE ReferencesHeld'
  BY <1>8, Ids, SMTT(30) DEF InsertCategory, table, categoryTable, C!WriteRow, ProductLocks, NewIds
<1>9. ASSUME NEW t \in Request, FindCategory(t) PROVE ReferencesHeld'
  BY <1>9 DEF FindCategory, table, categoryTable
<1>10. ASSUME NEW t \in Request, Rename(t) PROVE ReferencesHeld'
  <2>1. UNCHANGED <<table, id>> /\ \A s \in Request \ {t} : pc'[s] = pc[s]
    BY <1>10 DEF Rename, inputs
  <2>2. UNCHANGED categoryTable \/ C!WriteRow(t, id[t], "live")
    BY <1>10 DEF Rename
  <2> QED
    BY <1>10, <1>a, <2>1, <2>2 DEF Rename
<1>11. ASSUME NEW t \in Request, EraseCategory(t) PROVE ReferencesHeld'
  <2>1. UNCHANGED <<table, id>> /\ \A s \in Request \ {t} : pc'[s] = pc[s]
    BY <1>11 DEF EraseCategory, inputs
  <2>2. UNCHANGED categoryTable \/ C!WriteRow(t, id[t], "deleted")
    BY <1>11 DEF EraseCategory
  <2> QED
    BY <1>11, <1>a, <2>1, <2>2 DEF EraseCategory
<1>12. ASSUME NEW t \in Request, NEW p \in Product, Cascade(t, p) PROVE ReferencesHeld'
  <2>1. UNCHANGED <<products, categoryTable, pc>> /\ pc[t] = "cascade"
    BY <1>12 DEF Cascade, table, P!WriteRow
  <2>2. \A q \in Product :
           \/ productLock'[q] = productLock[q] /\ productDraft'[q] = productDraft[q]
           \/ productLock'[q] = t
    BY <1>12 DEF Cascade, table, P!WriteRow
  <2> HIDE DEF TypeOK
  <2> QED
    BY <2>1, <2>2 DEF categoryTable
<1>13. ASSUME NEW t \in Request, CascadeDone(t) PROVE ReferencesHeld'
  BY <1>13 DEF CascadeDone, table, categoryTable, ProductLocks, OwnStatements
<1>14. ASSUME NEW t \in Request, Answer(t), CommitBoth(t) \/ RollbackBoth(t)
       PROVE  ReferencesHeld'
  <2> SUFFICES ASSUME NEW s \in Request, NEW p \in Product, NEW c \in Category,
                      pc'[s] \in {"reread", "commit"}, productLock'[p] = s,
                      InCategory(productDraft'[p], c), ~ InCategory(products'[p], c)
               PROVE  categories'[c] = "live" /\ categoryLock'[c] = NoRequest
    BY DEF InCategory, Exists
  <2>1. /\ s # t /\ productLock[p] = s
        /\ products'[p] = products[p] /\ productDraft'[p] = productDraft[p]
    BY <1>14, LocksAfterEnd
  <2>2. pc'[s] = pc[s]
    BY <1>14, <2>1, RequestsAfterAnswer
  <2>3. ReferencesHeld
    OBVIOUS
  <2> HIDE DEF TypeOK, InCategory
  <2>4. categories[c] = "live" /\ categoryLock[c] = NoRequest
    BY <2>1, <2>2, <2>3 DEF ReferencesHeld
  <2>5. categoryLock[c] # t
    BY <2>4, NoRequestAssumption
  <2> QED
    BY <1>14, <2>4, <2>5, UnlockedAfterEnd
<1>15. CASE UNCHANGED vars
  BY <1>15 DEF vars, table, categoryTable, inputs
<1> QED
  BY <1>1, <1>2, <1>3, <1>4, <1>5, <1>6, <1>7, <1>8, <1>9, <1>10, <1>11, <1>12, <1>13,
     <1>14, <1>15, Steps DEF Commit, Rollback, Abort

(* Nobody gets a product into a category that is being deleted, or out of  *)
(* sight of the cascade.                                                   *)
LEMMA CascadeCompleteKept ==
  ASSUME Old, [Next]_vars
  PROVE  CascadeComplete'
<1> USE DEF Old, Core, CascadeComplete, Goto, Throw, TypeOK, InCategory, Exists
<1>1. ASSUME NEW t \in Request, NEW c \in Commands, NEW r \in RowsOf(c),
             NEW body \in Bodies(c), Start(t, c, r, body)
      PROVE  CascadeComplete'
  BY <1>1, SMTT(30) DEF Start, table, categoryTable, locals, CategoryLocks, RowsOf, CategoryCommands
<1>2. ASSUME NEW t \in Request, Reference(t) \/ Find(t) \/ Reread(t)
      PROVE  CascadeComplete'
  BY <1>2 DEF Reference, Find, Reread, table, categoryTable, inputs
<1>3. ASSUME NEW t \in Request, Insert(t) PROVE CascadeComplete'
  BY <1>3, Ids DEF Insert, P!WriteRow, categoryTable, inputs, NewIds
<1>4. ASSUME NEW t \in Request, Write(t) PROVE CascadeComplete'
  BY <1>4, Ids DEF Write, table, categoryTable, P!WriteRow, P!Available, inputs
<1>5. ASSUME NEW t \in Request, Erase(t) PROVE CascadeComplete'
  BY <1>5, Ids DEF Erase, table, categoryTable, P!WriteRow, P!Available, inputs, locals
<1>6. ASSUME NEW t \in Request, InsertCategory(t) PROVE CascadeComplete'
  BY <1>6, Ids DEF InsertCategory, table, categoryTable, C!WriteRow, inputs, OwnStatements
<1>7. ASSUME NEW t \in Request, FindCategory(t) PROVE CascadeComplete'
  BY <1>7 DEF FindCategory, table, categoryTable, inputs
<1>8. ASSUME NEW t \in Request, Rename(t) PROVE CascadeComplete'
  BY <1>8, Ids DEF Rename, table, categoryTable, C!WriteRow, inputs, OwnStatements
<1>9. ASSUME NEW t \in Request, EraseCategory(t) PROVE CascadeComplete'
  BY <1>9, Ids DEF EraseCategory, table, categoryTable, C!WriteRow, inputs, Members,
     P!Visible, CategoryLocks
<1>10. ASSUME NEW t \in Request, NEW p \in Product, Cascade(t, p) PROVE CascadeComplete'
  BY <1>10 DEF Cascade, table, categoryTable, P!WriteRow, P!Available, P!Visible, inputs,
     CategoryLocks
<1>11. ASSUME NEW t \in Request, CascadeDone(t) PROVE CascadeComplete'
  BY <1>11 DEF CascadeDone, table, categoryTable, inputs, locals
<1>12. ASSUME NEW t \in Request, Answer(t),
              (pc[t] = "commit" /\ CommitBoth(t)) \/ RollbackBoth(t)
       PROVE  CascadeComplete'
  <2> SUFFICES ASSUME NEW s \in Request, NEW c \in Category, NEW p \in Product,
                      op'[s] = "deleteCategory", categoryLock'[c] = s,
                      InCategory(products'[p], c)
               PROVE  p \in todo'[s] \/ productLock'[p] = s
    BY DEF InCategory
  <2>1. s # t /\ categoryLock[c] = s /\ op[s] = "deleteCategory" /\ todo'[s] = todo[s]
    BY <1>12, LocksAfterEnd, RequestsAfterAnswer
  <2>2. InCategory(products[p], c)
    <3>1. CASE productLock[p] # t
      BY <1>12, <3>1, UnlockedAfterEnd
    <3>2. CASE productLock[p] = t /\ RollbackBoth(t)
      BY <3>2 DEF RollbackBoth, P!RollbackRows
    <3>3. CASE productLock[p] = t /\ pc[t] = "commit" /\ CommitBoth(t)
      <4>1. products'[p] = productDraft[p]
        BY <3>3 DEF CommitBoth, P!CommitRows
      <4>2. categoryLock[c] # NoRequest
        BY <2>1
      <4>3. InCategory(productDraft[p], c)
        BY <4>1
      <4> HIDE DEF TypeOK, InCategory, CascadeComplete
      <4>4. ReferencesHeld
        OBVIOUS
      <4> QED
        BY <3>3, <4>2, <4>3, <4>4 DEF ReferencesHeld
    <3> QED
      BY <1>12, <3>1, <3>2, <3>3
  <2>3. productLock[p] = s => productLock'[p] = s
    BY <1>12, <2>1, UnlockedAfterEnd
  <2> QED
    BY <2>1, <2>2, <2>3
<1>13. CASE UNCHANGED vars
  BY <1>13 DEF vars, table, categoryTable, inputs, locals
<1> QED
  BY <1>1, <1>2, <1>3, <1>4, <1>5, <1>6, <1>7, <1>8, <1>9, <1>10, <1>11, <1>12, <1>13,
     Steps DEF Commit, Rollback, Abort

(* What was born stays born.                                               *)
LEMMA NeverUnborn ==
  ASSUME Old, NEW t \in Request, CommitBoth(t) \/ RollbackBoth(t),
         NEW p \in Product, products[p] # Unborn
  PROVE  products'[p] # Unborn
BY NoEntity DEF Old, Core, TypeOK, ProductLocks, Exists, CommitBoth, RollbackBoth,
   P!CommitRows, P!RollbackRows

LEMMA FoundBeforeKept ==
  ASSUME Old, [Next]_vars
  PROVE  FoundBefore'
<1> USE DEF Old, Core, FoundBefore, Goto, Throw, TypeOK
<1>1. ASSUME NEW t \in Request, NEW c \in Commands, NEW r \in RowsOf(c),
             NEW body \in Bodies(c), Start(t, c, r, body)
      PROVE  FoundBefore'
  BY <1>1 DEF Start, table
<1>2. ASSUME NEW t \in Request, Reference(t) \/ Reread(t) PROVE FoundBefore'
  BY <1>2 DEF Reference, Reread, table, inputs
<1>3. ASSUME NEW t \in Request, Find(t) PROVE FoundBefore'
  BY <1>3, Ids, NoEntity DEF Find, table, inputs, Seen, P!Visible, Exists, ProductLocks
<1>4. ASSUME NEW t \in Request, Insert(t) \/ Write(t) \/ Erase(t) PROVE FoundBefore'
  BY <1>4 DEF Insert, Write, Erase, P!WriteRow, table, inputs
<1>5. ASSUME NEW t \in Request, InsertCategory(t) \/ FindCategory(t) \/ Rename(t)
      PROVE  FoundBefore'
  BY <1>5 DEF InsertCategory, FindCategory, Rename, table, inputs
<1>6. ASSUME NEW t \in Request, EraseCategory(t) PROVE FoundBefore'
  BY <1>6 DEF EraseCategory, table, inputs
<1>7. ASSUME NEW t \in Request, NEW p \in Product, Cascade(t, p) PROVE FoundBefore'
  BY <1>7 DEF Cascade, P!WriteRow, table, inputs
<1>8. ASSUME NEW t \in Request, CascadeDone(t) PROVE FoundBefore'
  BY <1>8 DEF CascadeDone, table, inputs
<1>9. ASSUME NEW t \in Request, Answer(t), CommitBoth(t) \/ RollbackBoth(t)
      PROVE  FoundBefore'
  <2>1. ASSUME NEW p \in Product, products[p] # Unborn PROVE products'[p] # Unborn
    BY <1>9, <2>1, NeverUnborn
  <2> QED
    BY <1>9, <2>1, RequestsAfterAnswer
<1>10. CASE UNCHANGED vars
  BY <1>10 DEF vars, table, inputs
<1> QED
  BY <1>1, <1>2, <1>3, <1>4, <1>5, <1>6, <1>7, <1>8, <1>9, <1>10,
     Steps DEF Commit, Rollback, Abort

(* What an update assigns stays the same while its request and the row do, *)
(* and also when the row that it made is read back.                        *)
LEMMA AssignedSame ==
  ASSUME NEW s \in Request, NEW p \in Product, op'[s] = op[s], dto'[s] = dto[s],
         product'[s] = product[s], products'[p] = products[p]
  PROVE  Assigned(s, products[p])' = Assigned(s, products[p])
BY DEF Assigned

LEMMA AssignedAgain ==
  ASSUME NEW s \in Request, NEW p \in Product, op'[s] = op[s], dto'[s] = dto[s],
         product'[s] = Assigned(s, products[p]), products'[p] = products[p]
  PROVE  Assigned(s, products[p])' = Assigned(s, products[p])
BY DEF Assigned, Columns

(* An update is computed from a row that is then locked: it stays the      *)
(* update of the committed row.                                            *)
LEMMA DraftsAssignedKept ==
  ASSUME Old, [Next]_vars
  PROVE  DraftsAssigned'
<1> USE DEF Old, Core, DraftsAssigned, Goto, Throw, TypeOK
<1>0. ASSUME NEW s \in Request, NEW p \in Product, op'[s] = op[s], dto'[s] = dto[s],
             product'[s] = product[s], products'[p] = products[p]
      PROVE  Assigned(s, products[p])' = Assigned(s, products[p])
  BY <1>0, AssignedSame
<1>1. ASSUME NEW t \in Request, NEW c \in Commands, NEW r \in RowsOf(c),
             NEW body \in Bodies(c), Start(t, c, r, body)
      PROVE  DraftsAssigned'
  <2> SUFFICES ASSUME NEW s \in Request, NEW p \in Product,
                      productLock'[p] = s, op'[s] \in Updates
               PROVE  productDraft'[p] = Assigned(s, products[p])'
    BY DEF Assigned
  <2>1. UNCHANGED <<table, product>>
    BY <1>1 DEF Start, locals
  <2>2. productLock[p] = s /\ s # t
    BY <1>1, <2>1 DEF table, Start, ProductLocks
  <2>3. op'[s] = op[s] /\ dto'[s] = dto[s]
    BY <1>1, <2>2 DEF Start
  <2> QED
    BY <1>0, <2>1, <2>2, <2>3 DEF table
<1>2. ASSUME UNCHANGED <<table, op, dto>>,
             \A s \in Request, p \in Product :
                 productLock[p] = s /\ op[s] \in Updates => product'[s] = product[s]
      PROVE  DraftsAssigned'
  <2> SUFFICES ASSUME NEW s \in Request, NEW p \in Product,
                      productLock'[p] = s, op'[s] \in Updates
               PROVE  productDraft'[p] = Assigned(s, products[p])'
    BY DEF Assigned
  <2> QED
    BY <1>0, <1>2 DEF table
<1>10. ASSUME NEW t \in Request, op[t] \notin Updates, UNCHANGED <<op, dto>>,
              \A s \in Request : op[s] \in Updates => product'[s] = product[s],
              NEW p \in Product, NEW v, P!WriteRow(t, p, v)
       PROVE  DraftsAssigned'
  <2>1. UNCHANGED products
    BY <1>10 DEF P!WriteRow
  <2> SUFFICES ASSUME NEW s \in Request, NEW q \in Product,
                      productLock'[q] = s, op[s] \in Updates
               PROVE  productDraft'[q] = Assigned(s, products[q])'
    BY <1>10 DEF Assigned
  <2>2. productLock[q] = s /\ productDraft'[q] = productDraft[q]
    BY <1>10 DEF P!WriteRow
  <2> QED
    BY <1>0, <1>10, <2>1, <2>2
<1>3. ASSUME NEW t \in Request, Insert(t) PROVE DraftsAssigned'
  <2>1. op[t] \notin Updates /\ id[t] \in Product
    BY <1>3, Ids DEF Insert, OwnStatements, Updates
  <2>2. \A s \in Request : op[s] \in Updates => product'[s] = product[s]
    BY <1>3, <2>1 DEF Insert
  <2> QED
    BY <1>3, <1>10, <2>1, <2>2 DEF Insert, inputs
<1>4. ASSUME NEW t \in Request, Write(t) PROVE DraftsAssigned'
  <2>1. UNCHANGED <<op, dto, product, products>>
    BY <1>4 DEF Write, inputs, table, P!WriteRow
  <2>2. CASE UNCHANGED table
    BY <1>2, <2>1, <2>2
  <2>3. CASE P!WriteRow(t, id[t], Assigned(t, Seen(t)))
    <3>1. id[t] \in Product /\ productLock[id[t]] # t
      BY <1>4, Ids DEF Write, ProductLocks
    <3>2. Seen(t) = products[id[t]]
      BY <3>1 DEF Seen, P!Visible
    <3>3. \A s \in Request, p \in Product :
             Assigned(s, products[p])' = Assigned(s, products[p])
      BY <1>0, <2>1
    <3> QED
      BY <2>1, <2>3, <3>1, <3>2, <3>3 DEF P!WriteRow
  <2> QED
    BY <1>4, <2>2, <2>3 DEF Write
<1>5. ASSUME NEW t \in Request, Erase(t) PROVE DraftsAssigned'
  <2>1. op[t] \notin Updates /\ id[t] \in Product
    BY <1>5, Ids DEF Erase, OwnStatements, Updates
  <2>2. UNCHANGED <<op, dto, product>>
    BY <1>5 DEF Erase, inputs, locals
  <2>3. CASE P!WriteRow(t, id[t], Deleted)
    BY <1>10, <2>1, <2>2, <2>3
  <2>4. CASE UNCHANGED table
    BY <1>2, <2>2, <2>4
  <2> QED
    BY <1>5, <2>3, <2>4 DEF Erase
<1>6. ASSUME NEW t \in Request, NEW p \in Product, Cascade(t, p) PROVE DraftsAssigned'
  <2>1. op[t] \notin Updates
    BY <1>6 DEF Cascade, OwnStatements, Updates
  <2>2. UNCHANGED <<op, dto, product>>
    BY <1>6 DEF Cascade, inputs
  <2>3. CASE P!WriteRow(t, p, Deleted)
    BY <1>10, <2>1, <2>2, <2>3
  <2>4. CASE UNCHANGED table
    BY <1>2, <2>2, <2>4
  <2> QED
    BY <1>6, <2>3, <2>4 DEF Cascade
<1>7. ASSUME NEW t \in Request, Answer(t), CommitBoth(t) \/ RollbackBoth(t)
      PROVE  DraftsAssigned'
  <2> SUFFICES ASSUME NEW s \in Request, NEW p \in Product,
                      productLock'[p] = s, op'[s] \in Updates
               PROVE  productDraft'[p] = Assigned(s, products[p])'
    BY DEF Assigned
  <2>1. /\ s # t /\ productLock[p] = s
        /\ products'[p] = products[p] /\ productDraft'[p] = productDraft[p]
    BY <1>7, LocksAfterEnd
  <2>2. op'[s] = op[s] /\ dto'[s] = dto[s] /\ product'[s] = product[s]
    BY <1>7, <2>1, RequestsAfterAnswer
  <2> QED
    BY <1>0, <2>1, <2>2
<1>8. CASE UNCHANGED vars
  BY <1>2, <1>8 DEF vars, inputs, locals
<1>9. ASSUME NEW t \in Request,
             \/ Reference(t) \/ InsertCategory(t) \/ FindCategory(t) \/ Rename(t)
             \/ EraseCategory(t) \/ CascadeDone(t)
      PROVE  UNCHANGED <<table, op, dto, product>>
  BY <1>9 DEF Reference, InsertCategory, FindCategory, Rename, EraseCategory,
     CascadeDone, inputs, locals
<1>11. ASSUME NEW t \in Request, Find(t) PROVE DraftsAssigned'
  <2>1. \A p \in Product : productLock[p] # t
    BY <1>11 DEF Find, ProductLocks
  <2>2. UNCHANGED <<table, op, dto>> /\ \A s \in Request \ {t} : product'[s] = product[s]
    BY <1>11 DEF Find, inputs
  <2> QED
    BY <1>2, <2>1, <2>2
<1>12. ASSUME NEW t \in Request, Reread(t) PROVE DraftsAssigned'
  <2>1. UNCHANGED <<table, op, dto>> /\ \A s \in Request \ {t} : product'[s] = product[s]
    BY <1>12 DEF Reread, inputs
  <2> SUFFICES ASSUME NEW s \in Request, NEW p \in Product,
                      productLock'[p] = s, op'[s] \in Updates
               PROVE  productDraft'[p] = Assigned(s, products[p])'
    BY DEF Assigned
  <2>2. /\ productLock[p] = s /\ op[s] \in Updates /\ UNCHANGED <<products, productDraft>>
        /\ productDraft[p] = Assigned(s, products[p])
    BY <2>1 DEF table
  <2>3. CASE product'[s] = product[s]
    BY <1>0, <2>1, <2>2, <2>3
  <2>4. CASE product'[s] # product[s]
    <3>1. s = t /\ product'[t] = Seen(t) /\ p = id[t]
      BY <1>12, <2>1, <2>2, <2>4 DEF Reread, ProductLocks, Updates
    <3>2. product'[s] = Assigned(s, products[p])
      BY <2>2, <3>1 DEF Seen, P!Visible
    <3> QED
      BY <2>1, <2>2, <3>2, AssignedAgain
  <2> QED
    BY <2>3, <2>4
<1> QED
  BY <1>1, <1>2, <1>3, <1>4, <1>5, <1>6, <1>7, <1>8, <1>9, <1>11, <1>12,
     Steps DEF Commit, Rollback, Abort

(* Between the write and the COMMIT, the version a command answers with is *)
(* in its own hands, or the row is gone for good.                          *)
LEMMA AnswersReadyKept ==
  ASSUME Old, [Next]_vars
  PROVE  AnswersReady'
<1>0. \A s \in Request : op[s] \in StockCommands /\ pc[s] # "idle" => id[s] \in Product
  BY DEF Old, TypeOK, RowsOf, StockCommands, CategoryCommands
<1> USE DEF Old, Core, AnswersReady, Goto, Throw, TypeOK
<1>1. ASSUME NEW t \in Request, NEW c \in Commands, NEW r \in RowsOf(c),
             NEW body \in Bodies(c), Start(t, c, r, body)
      PROVE  AnswersReady'
  BY <1>1 DEF Start, table, locals
<1>2. ASSUME NEW t \in Request, Reference(t) PROVE AnswersReady'
  BY <1>2 DEF Reference, table, inputs
<1>3. ASSUME NEW t \in Request, Insert(t) PROVE AnswersReady'
  BY <1>3, Ids DEF Insert, inputs, P!WriteRow, NewIds
<1>4. ASSUME NEW t \in Request, Find(t) PROVE AnswersReady'
  BY <1>4 DEF Find, table, inputs
<1>5. ASSUME NEW t \in Request, Write(t) PROVE AnswersReady'
  <2>1. id[t] \in Product /\ productLock[id[t]] # t /\ products[id[t]] # Unborn
    BY <1>5, Ids DEF Write, ProductLocks, FoundBefore
  <2>2. Seen(t) = products[id[t]]
    BY <2>1 DEF Seen, P!Visible
  <2>3. op[t] # "create"
    BY <1>5 DEF Write, OwnStatements, Updates
  <2>4. CASE UNCHANGED table
    <3>1. ~ Exists(Seen(t)) \/ pc'[t] = "rollback"
      BY <1>5, <2>1, <2>2, <2>4 DEF Write, P!WriteRow, table
    <3>2. ~ Exists(Seen(t)) => products[id[t]] = Deleted
      BY <2>1, <2>2 DEF Exists
    <3> QED
      BY <1>0, <1>5, <2>1, <2>3, <2>4, <3>1, <3>2 DEF Write, table, inputs, StockCommands
  <2>5. CASE P!WriteRow(t, id[t], Assigned(t, Seen(t)))
    BY <1>0, <1>5, <2>1, <2>3, <2>5 DEF Write, inputs, P!WriteRow, P!Available,
       StockCommands
  <2> QED
    BY <1>5, <2>4, <2>5 DEF Write
<1>6. ASSUME NEW t \in Request, Reread(t) PROVE AnswersReady'
  <2>1. op[t] \in StockCommands \cap Updates /\ id[t] \in Product
    BY <1>0, <1>6 DEF Reread, OwnStatements, StockCommands, Updates
  <2>2. CASE productLock[id[t]] = t
    <3>1. Seen(t) = productDraft[id[t]] /\ Exists(Seen(t))
      BY <2>1, <2>2 DEF Seen, P!Visible, ProductLocks, Updates
    <3> QED
      BY <1>6, <2>2, <3>1 DEF Reread, table, inputs
  <2>3. CASE productLock[id[t]] # t
    <3>1. products[id[t]] = Deleted
      BY <1>6, <2>1, <2>3 DEF Reread
    <3> QED
      BY <1>6, <2>3, <3>1 DEF Reread, table, inputs
  <2> QED
    BY <2>2, <2>3
<1>7. ASSUME NEW t \in Request, Erase(t) PROVE AnswersReady'
  BY <1>0, <1>7, Ids DEF Erase, inputs, locals, table, P!WriteRow, P!Available, OwnStatements,
     StockCommands
<1>8. ASSUME NEW t \in Request,
             \/ InsertCategory(t) \/ FindCategory(t) \/ Rename(t)
             \/ EraseCategory(t) \/ CascadeDone(t)
      PROVE  AnswersReady'
  BY <1>8 DEF InsertCategory, FindCategory, Rename, EraseCategory, CascadeDone, table,
     inputs, locals, OwnStatements, StockCommands
<1>9. ASSUME NEW t \in Request, NEW p \in Product, Cascade(t, p) PROVE AnswersReady'
  BY <1>0, <1>9 DEF Cascade, inputs, table, P!WriteRow, P!Available, OwnStatements,
     StockCommands
<1>10. ASSUME NEW t \in Request, Answer(t), CommitBoth(t) \/ RollbackBoth(t)
       PROVE  AnswersReady'
  <2>1. ASSUME NEW p \in Product, products[p] = Deleted PROVE products'[p] = Deleted
    BY <1>10, <2>1, NoEntity DEF CommitBoth, RollbackBoth, P!CommitRows, P!RollbackRows,
       ProductLocks, Exists
  <2> SUFFICES ASSUME NEW s \in Request, op'[s] \in StockCommands,
                      pc'[s] \in {"reference", "reread", "commit"}
               PROVE  /\ productLock'[id'[s]] = productLock[id[s]] \/ productLock[id[s]] # s
                      /\ productLock[id[s]] # s => productLock'[id'[s]] # s
                      /\ productLock[id[s]] = s =>
                            productDraft'[id'[s]] = productDraft[id[s]]
                      /\ products[id[s]] = Deleted => products'[id'[s]] = Deleted
                      /\ pc'[s] = pc[s] /\ op'[s] = op[s] /\ product'[s] = product[s]
    OBVIOUS
  <2>2. /\ s # t /\ pc'[s] = pc[s] /\ op'[s] = op[s] /\ id'[s] = id[s]
        /\ product'[s] = product[s]
    BY <1>10, RequestsAfterAnswer
  <2>3. id[s] \in Product
    BY <1>0, <2>2
  <2> QED
    BY <1>10, <2>1, <2>2, <2>3, UnlockedAfterEnd, LocksAfterEnd
<1>11. CASE UNCHANGED vars
  BY <1>11 DEF vars, table, inputs, locals
<1> QED
  BY <1>1, <1>2, <1>3, <1>4, <1>5, <1>6, <1>7, <1>8, <1>9, <1>10, <1>11,
     Steps DEF Commit, Rollback, Abort

(* Only the COMMIT of a transaction changes what is committed.             *)
LEMMA OnlyCommitsShow ==
  ASSUME [Next]_vars
  PROVE  \/ UNCHANGED <<products, categories>>
         \/ \E t \in Request : pc[t] = "commit" /\ CommitBoth(t)
<1>1. ASSUME NEW t \in Request, RollbackBoth(t) PROVE UNCHANGED <<products, categories>>
  BY <1>1 DEF RollbackBoth, P!RollbackRows, C!RollbackRows
<1>2. ASSUME NEW t \in Request, NEW c \in Commands, NEW r \in RowsOf(c),
             NEW body \in Bodies(c), Start(t, c, r, body)
      PROVE  UNCHANGED <<products, categories>>
  BY <1>2 DEF Start, table, categoryTable
<1>3. ASSUME NEW t \in Request,
             Reference(t) \/ Insert(t) \/ Find(t) \/ Write(t) \/ Reread(t) \/ Erase(t)
      PROVE  UNCHANGED <<products, categories>>
  BY <1>3 DEF Reference, Insert, Find, Write, Reread, Erase, P!WriteRow, table, categoryTable
<1>4. ASSUME NEW t \in Request,
             \/ InsertCategory(t) \/ FindCategory(t) \/ Rename(t) \/ EraseCategory(t)
             \/ CascadeDone(t) \/ \E p \in Product : Cascade(t, p)
      PROVE  UNCHANGED <<products, categories>>
  BY <1>4 DEF InsertCategory, FindCategory, Rename, EraseCategory, CascadeDone, Cascade,
     P!WriteRow, C!WriteRow, table, categoryTable
<1>5. UNCHANGED vars => UNCHANGED <<products, categories>>
  BY DEF vars, table, categoryTable
<1> QED
  BY <1>1, <1>2, <1>3, <1>4, <1>5, Steps DEF Commit, Rollback, Abort

(* The foreign key: what a COMMIT makes of the products and categories.    *)
LEMMA NoOrphansKept ==
  ASSUME Old, [Next]_vars
  PROVE  NoOrphans'
<1> USE DEF Old, Core, NoOrphans, TypeOK
<1>1. ASSUME UNCHANGED <<products, categories>> PROVE NoOrphans'
  BY <1>1 DEF Exists
<1>2. ASSUME NEW t \in Request, pc[t] = "commit", CommitBoth(t) PROVE NoOrphans'
  <2> SUFFICES ASSUME NEW p \in Product, Exists(products'[p])
               PROVE  categories'[products'[p].category_id] = "live"
    BY DEF Exists
  <2> DEFINE c == products'[p].category_id
  <2>1. c \in Category /\ InCategory(products'[p], c)
    BY DEF Exists, InCategory, Entity
  <2>2. categories[c] = "live"
    <3>1. CASE InCategory(products[p], c)
      BY <3>1 DEF InCategory
    <3>2. CASE ~ InCategory(products[p], c)
      <4>1. productLock[p] = t /\ products'[p] = productDraft[p]
        BY <1>2, <2>1, <3>2 DEF CommitBoth, P!CommitRows
      <4> QED
        BY <1>2, <2>1, <3>2, <4>1 DEF ReferencesHeld
    <3> QED
      BY <3>1, <3>2
  <2>3. CASE categoryLock[c] # t
    BY <1>2, <2>1, <2>2, <2>3, UnlockedAfterEnd
  <2>4. CASE categoryLock[c] = t /\ op[t] # "deleteCategory"
    BY <1>2, <2>1, <2>4 DEF CommitBoth, C!CommitRows, CategoryLocks
  <2>5. CASE categoryLock[c] = t /\ op[t] = "deleteCategory"
    <3>1. todo[t] = {}
      BY <1>2 DEF OwnStatements
    <3>2. productLock[p] # t
      <4>1. productLock[p] = t => products'[p] = Deleted
        BY <1>2, <2>5 DEF CommitBoth, P!CommitRows, ProductLocks
      <4> QED
        BY <4>1, NoEntity DEF Exists
    <3>3. products'[p] = products[p]
      BY <1>2, <3>2, UnlockedAfterEnd
    <3> QED
      BY <2>1, <2>5, <3>1, <3>2, <3>3 DEF CascadeComplete
  <2> QED
    BY <2>3, <2>4, <2>5
<1> QED
  BY <1>1, <1>2, OnlyCommitsShow

LEMMA CoreStep ==
  ASSUME TypeOK, ProductFound, Core, [Next]_vars
  PROVE  TypeOK' /\ ProductFound' /\ Core'
<1>1. OwnStatements /\ OwnStatements'
  BY OwnStatementsKept DEF Core
<1>2. Old
  BY <1>1, TypesKept DEF Old, Core
<1> QED
  BY <1>1, <1>2, ProductLocksKept, CategoryLocksKept, NewIdsKept, ReferencesHeldKept,
     CascadeCompleteKept, ProductFoundKept, FoundBeforeKept, DraftsAssignedKept,
     AnswersReadyKept, NoOrphansKept DEF Old, Core

-----------------------------------------------------------------------------
(* What else makes a COMMIT one step of the abstract catalog.              *)

(* A transaction that writes a category finds it as its command expects,   *)
(* and nobody else changes it then.                                        *)
LEMMA LockedCategoriesKept ==
  ASSUME Old, LockedCategories, [Next]_vars
  PROVE  LockedCategories'
<1> USE DEF Old, LockedCategories, Goto, Throw
<1>a. OwnStatements /\ CategoryLocks /\ NewIds
  BY DEF Core
<1>b. TypeOK
  OBVIOUS
<1>1. ASSUME NEW t \in Request, NEW c \in Commands, NEW r \in RowsOf(c),
             NEW body \in Bodies(c), Start(t, c, r, body)
      PROVE  LockedCategories'
  BY <1>1, <1>a, <1>b DEF Start, categoryTable, CategoryLocks, TypeOK
<1>2. ASSUME UNCHANGED <<categoryTable, op>> PROVE LockedCategories'
  BY <1>2 DEF categoryTable
<1>3. ASSUME NEW t \in Request, NEW c \in Category, NEW v, UNCHANGED op,
             C!WriteRow(t, c, v),
             categories[c] = IF op[t] = "createCategory" THEN "unborn" ELSE "live"
      PROVE  LockedCategories'
  BY <1>3, <1>b DEF C!WriteRow, TypeOK
<1>4. ASSUME NEW t \in Request, InsertCategory(t) \/ Rename(t) \/ EraseCategory(t)
      PROVE  LockedCategories'
  <2>1. id[t] \in Category /\ categoryLock[id[t]] # t /\ UNCHANGED op
    BY <1>4, <1>a, Ids DEF InsertCategory, Rename, EraseCategory, CategoryLocks, inputs
  <2>2. C!Visible(t, id[t]) = categories[id[t]]
    BY <2>1 DEF C!Visible
  <2>3. \/ UNCHANGED categoryTable
        \/ \E v \in {"live", "deleted"} : C!WriteRow(t, id[t], v) /\
              categories[id[t]] = IF op[t] = "createCategory" THEN "unborn" ELSE "live"
    BY <1>4, <1>a, <2>2
       DEF InsertCategory, Rename, EraseCategory, OwnStatements, NewIds
  <2> QED
    BY <1>2, <1>3, <2>1, <2>3
<1>5. ASSUME NEW t \in Request, Answer(t), CommitBoth(t) \/ RollbackBoth(t)
      PROVE  LockedCategories'
  BY <1>5, <1>b, LocksAfterEnd, RequestsAfterAnswer
<1>6. ASSUME NEW t \in Request,
             \/ Reference(t) \/ Insert(t) \/ Find(t) \/ Write(t) \/ Reread(t) \/ Erase(t)
             \/ FindCategory(t) \/ CascadeDone(t) \/ \E p \in Product : Cascade(t, p)
      PROVE  UNCHANGED <<categoryTable, op>>
  BY <1>6 DEF Reference, Insert, Find, Write, Reread, Erase, FindCategory, CascadeDone,
     Cascade, inputs
<1>7. UNCHANGED vars => UNCHANGED <<categoryTable, op>>
  BY DEF vars, inputs
<1> QED
  BY <1>1, <1>2, <1>4, <1>5, <1>6, <1>7, Steps DEF Commit, Rollback, Abort

LEMMA ProductWritersKept ==
  ASSUME Old, ProductWriters, [Next]_vars
  PROVE  ProductWriters'
<1> USE DEF Old, ProductWriters, Goto, Throw
<1>a. OwnStatements /\ ProductLocks /\ TypeOK
  BY DEF Core
<1>1. ASSUME NEW t \in Request, NEW c \in Commands, NEW r \in RowsOf(c),
             NEW body \in Bodies(c), Start(t, c, r, body)
      PROVE  ProductWriters'
  <2>1. \A p \in Product : productLock[p] # t
    BY <1>1, <1>a DEF Start, ProductLocks
  <2>2. \A s \in Request \ {t} : op'[s] = op[s] /\ dto'[s] = dto[s]
    BY <1>1, <1>a DEF Start, TypeOK
  <2> QED
    BY <1>1, <2>1, <2>2 DEF Start, table
<1>2. ASSUME UNCHANGED <<table, op, dto>> PROVE ProductWriters'
  BY <1>2 DEF table
<1>3. ASSUME NEW t \in Request, NEW p \in Product, NEW v, UNCHANGED <<op, dto>>,
             P!WriteRow(t, p, v), op[t] = "create" => v = dto[t],
             op[t] \in ProductCommands \cup {"deleteCategory"}
      PROVE  ProductWriters'
  BY <1>3, <1>a DEF P!WriteRow, TypeOK
<1>4. ASSUME NEW t \in Request, Insert(t) \/ Write(t) \/ Erase(t)
      PROVE  ProductWriters'
  <2>1. id[t] \in Product /\ UNCHANGED <<op, dto>>
    BY <1>4, Ids DEF Insert, Write, Erase, inputs
  <2>2. \/ UNCHANGED table
        \/ \E v \in {dto[t], Assigned(t, Seen(t)), Deleted} :
              P!WriteRow(t, id[t], v) /\ (op[t] = "create" => v = dto[t])
    BY <1>4, <1>a DEF Insert, Write, Erase, OwnStatements, Updates
  <2>3. op[t] \in ProductCommands
    BY <1>4, <1>a DEF Insert, Write, Erase, OwnStatements, Updates, ProductCommands
  <2> QED
    BY <1>2, <1>3, <2>1, <2>2, <2>3
<1>5. ASSUME NEW t \in Request, NEW p \in Product, Cascade(t, p)
      PROVE  ProductWriters'
  <2>1. op[t] = "deleteCategory" /\ UNCHANGED <<op, dto>>
    BY <1>5, <1>a DEF Cascade, OwnStatements, inputs
  <2>2. UNCHANGED table \/ P!WriteRow(t, p, Deleted)
    BY <1>5 DEF Cascade
  <2> QED
    BY <1>2, <1>3, <2>1, <2>2
<1>6. ASSUME NEW t \in Request, Answer(t), CommitBoth(t) \/ RollbackBoth(t)
      PROVE  ProductWriters'
  BY <1>6, <1>a, LocksAfterEnd, RequestsAfterAnswer
<1>7. ASSUME NEW t \in Request,
             \/ Reference(t) \/ Find(t) \/ Reread(t)
             \/ InsertCategory(t) \/ FindCategory(t) \/ Rename(t)
             \/ EraseCategory(t) \/ CascadeDone(t)
      PROVE  UNCHANGED <<table, op, dto>>
  BY <1>7 DEF Reference, Find, Reread, InsertCategory, FindCategory, Rename,
     EraseCategory, CascadeDone, inputs
<1>8. UNCHANGED vars => UNCHANGED <<table, op, dto>>
  BY DEF vars, inputs
<1> QED
  BY <1>1, <1>2, <1>4, <1>5, <1>6, <1>7, <1>8, Steps DEF Commit, Rollback, Abort

(* What a cascade deletes is in its category, and stays there until the    *)
(* COMMIT, since it is locked.                                             *)
LEMMA CascadeExactKept ==
  ASSUME Old, CascadeExact, [Next]_vars
  PROVE  CascadeExact'
<1> USE DEF Old, CascadeExact, Goto, Throw
<1>a. OwnStatements /\ ProductLocks /\ CategoryLocks /\ TypeOK
  BY DEF Core
<1>1. ASSUME NEW t \in Request, NEW c \in Commands, NEW r \in RowsOf(c),
             NEW body \in Bodies(c), Start(t, c, r, body)
      PROVE  CascadeExact'
  BY <1>1, <1>a DEF Start, table, categoryTable, ProductLocks, CategoryLocks, TypeOK,
     InCategory
<1>2. ASSUME UNCHANGED <<table, categoryTable, op, id>>,
             \A s \in Request : pc'[s] = "cascade" => pc[s] = "cascade"
      PROVE  CascadeExact'
  BY <1>2 DEF table, categoryTable, InCategory, Exists
<1>3. ASSUME NEW t \in Request, NEW p \in Product, NEW v, UNCHANGED <<categoryTable, op, id>>,
             \A s \in Request : pc'[s] = "cascade" => pc[s] = "cascade",
             P!WriteRow(t, p, v), P!Available(t, p), op[t] # "deleteCategory"
      PROVE  CascadeExact'
  BY <1>3, <1>a DEF P!WriteRow, P!Available, categoryTable, InCategory, Exists, TypeOK
<1>4. ASSUME NEW t \in Request, Insert(t) \/ Write(t) \/ Erase(t)
      PROVE  CascadeExact'
  <2>1. id[t] \in Product /\ UNCHANGED <<categoryTable, op, id>> /\ op[t] # "deleteCategory"
    BY <1>4, <1>a, Ids DEF Insert, Write, Erase, inputs, OwnStatements, Updates
  <2>2. \A s \in Request : pc'[s] = "cascade" => pc[s] = "cascade"
    BY <1>4, <1>a DEF Insert, Write, Erase, TypeOK
  <2>3. UNCHANGED table \/ (P!Available(t, id[t]) /\ \E v : P!WriteRow(t, id[t], v))
    BY <1>4, <1>a DEF Insert, Write, Erase, P!Available, Core, NewIds
  <2> QED
    BY <1>2, <1>3, <2>1, <2>2, <2>3
<1>5. ASSUME NEW t \in Request, InsertCategory(t) \/ Rename(t) PROVE CascadeExact'
  <2>1. id[t] \in Category /\ UNCHANGED <<table, op, id>> /\ op[t] # "deleteCategory"
    BY <1>5, <1>a, Ids DEF InsertCategory, Rename, inputs, OwnStatements
  <2>2. \A s \in Request : pc'[s] = "cascade" => pc[s] = "cascade" /\ s # t
    BY <1>5, <1>a DEF InsertCategory, Rename, TypeOK
  <2>3. \A c \in Category, s \in Request \ {t} :
           categoryLock[c] = s => categoryLock'[c] = s
    BY <1>5, <1>a, <2>1 DEF InsertCategory, Rename, C!WriteRow, C!Available, Exclusive,
       categoryTable, TypeOK, Core, NewIds
  <2>4. \A s \in Request : op[s] = "deleteCategory" /\ categoryLock[id[s]] = s /\ pc[s] # "idle"
           => id[s] \in Category
    BY <1>a DEF TypeOK, RowsOf, CategoryCommands
  <2> QED
    BY <1>a, <2>1, <2>2, <2>3, <2>4, Ids DEF table, InCategory, Exists, ProductLocks
<1>6. ASSUME NEW t \in Request, EraseCategory(t) PROVE CascadeExact'
  <2>1. id[t] \in Category /\ op[t] = "deleteCategory" /\ UNCHANGED <<table, op, id>>
    BY <1>6, <1>a, Ids DEF EraseCategory, inputs, OwnStatements
  <2>2. \A p \in Product : productLock[p] # t
    BY <1>6, <1>a DEF EraseCategory, ProductLocks
  <2>3. CASE UNCHANGED categoryTable /\ Goto(t, "commit")
    BY <1>a, <2>1, <2>3, <1>2 DEF TypeOK
  <2>4. CASE C!WriteRow(t, id[t], "deleted") /\ Goto(t, "cascade")
    <3>1. \A c \in Category, s \in Request : categoryLock[c] = s => categoryLock'[c] = s
      BY <1>6, <1>a, <2>1, <2>4 DEF EraseCategory, Exclusive, C!Available, C!WriteRow, TypeOK
    <3>2. categoryLock'[id[t]] = t
      BY <1>a, <2>1, <2>4 DEF C!WriteRow, TypeOK
    <3>3. \A s \in Request \ {t} : pc'[s] = pc[s]
      BY <1>a, <2>4 DEF TypeOK
    <3>4. \A s \in Request : op[s] = "deleteCategory" /\ pc[s] # "idle" => id[s] \in Category
      BY <1>a DEF TypeOK, RowsOf, CategoryCommands
    <3> QED
      BY <1>a, <2>1, <2>2, <3>1, <3>2, <3>3, <3>4, Ids
         DEF table, InCategory, Exists, ProductLocks
  <2> QED
    BY <1>6, <2>3, <2>4 DEF EraseCategory
<1>7. ASSUME NEW t \in Request, NEW p \in Product, Cascade(t, p) PROVE CascadeExact'
  <2>1. /\ op[t] = "deleteCategory" /\ categoryLock[id[t]] = t
        /\ UNCHANGED <<categoryTable, pc, op, id>>
    BY <1>7, <1>a DEF Cascade, OwnStatements, inputs
  <2>2. CASE UNCHANGED table
    BY <1>2, <2>1, <2>2
  <2>3. CASE P!WriteRow(t, p, Deleted) /\ InCategory(P!Visible(t, p), id[t])
    <3>1. productLock[p] = t => P!Visible(t, p) = Deleted
      BY <1>a, <2>1 DEF ProductLocks, P!Visible
    <3>2. productLock[p] # t
      BY <2>3, <3>1, NoEntity DEF InCategory, Exists
    <3>3. InCategory(products[p], id[t])
      BY <2>3, <3>2 DEF P!Visible
    <3> QED
      BY <1>a, <2>1, <2>3, <3>3 DEF P!WriteRow, categoryTable, InCategory, Exists, TypeOK
  <2> QED
    BY <1>7, <2>2, <2>3 DEF Cascade
<1>8. ASSUME NEW t \in Request, Answer(t), CommitBoth(t) \/ RollbackBoth(t)
      PROVE  CascadeExact'
  <2>1. \A s \in Request : op[s] = "deleteCategory" /\ pc[s] # "idle" => id[s] \in Category
    BY <1>a DEF TypeOK, RowsOf, CategoryCommands
  <2>2. ASSUME NEW s \in Request \ {t}, NEW c \in Category, categoryLock[c] = s
        PROVE  categoryLock'[c] = s
    BY <1>8, <1>a, <2>2, UnlockedAfterEnd
  <2>3. ASSUME NEW s \in Request, pc'[s] = "cascade" PROVE categoryLock'[id'[s]] = s
    BY <1>8, <1>a, <2>2, <2>3, RequestsAfterAnswer, Ids
  <2>4. ASSUME NEW s \in Request, NEW p \in Product, op'[s] = "deleteCategory",
               productLock'[p] = s
        PROVE  InCategory(products'[p], id'[s]) /\ categoryLock'[id'[s]] = s
    <3>1. /\ s # t /\ op[s] = "deleteCategory" /\ id'[s] = id[s]
          /\ productLock[p] = s /\ products'[p] = products[p]
      BY <1>8, <1>a, <2>4, LocksAfterEnd, RequestsAfterAnswer
    <3>2. pc[s] # "idle"
      BY <1>a, <3>1 DEF ProductLocks
    <3> QED
      BY <2>1, <2>2, <3>1, <3>2
  <2> QED
    BY <2>3, <2>4 DEF InCategory, Exists
<1>9. ASSUME NEW t \in Request,
             Reference(t) \/ Find(t) \/ Reread(t) \/ FindCategory(t) \/ CascadeDone(t)
      PROVE  /\ UNCHANGED <<table, categoryTable, op, id>>
             /\ \A s \in Request : pc'[s] = "cascade" => pc[s] = "cascade"
  BY <1>9, <1>a DEF Reference, Find, Reread, FindCategory, CascadeDone, inputs, TypeOK
<1>10. CASE UNCHANGED vars
  BY <1>2, <1>10 DEF vars, inputs
<1> QED
  BY <1>1, <1>2, <1>4, <1>5, <1>6, <1>7, <1>8, <1>9, <1>10, Steps
     DEF Commit, Rollback, Abort

LEMMA InductiveStep ==
  ASSUME CatalogInv, [Next]_vars
  PROVE  CatalogInv'
<1>1. TypeOK /\ ProductFound /\ Core
  BY DEF CatalogInv, Core
<1>2. TypeOK' /\ ProductFound' /\ Core'
  BY <1>1, CoreStep
<1>3. Old
  BY <1>1, <1>2 DEF Old
<1> QED
  BY <1>2, <1>3, LockedCategoriesKept, ProductWritersKept, CascadeExactKept DEF CatalogInv, Core

-----------------------------------------------------------------------------

(* The inductive invariant holds for any number of products, categories    *)
(* and requests.                                                           *)
THEOREM Invariance == Spec => []CatalogInv
<1>1. Init => Core
  BY InitTypes, NoEntity DEF Init, Core, ProductLocks, CategoryLocks, NewIds, ReferencesHeld,
     CascadeComplete, FoundBefore, DraftsAssigned, AnswersReady, NoOrphans, Exists,
     StockCommands
<1>2. Init => LockedCategories /\ CascadeExact /\ ProductWriters
  BY DEF Init, LockedCategories, CascadeExact, ProductWriters
<1>3. Init => CatalogInv
  BY <1>1, <1>2, InitTypes DEF CatalogInv, Core
<1>4. CatalogInv /\ [Next]_vars => CatalogInv'
  BY InductiveStep
<1> QED
  BY <1>3, <1>4, PTL DEF Spec

(* No product outlives its category, whatever the commands that run at the *)
(* same time, and however they end.                                        *)
THEOREM NoOrphansHolds == Spec => []NoOrphans
<1>1. CatalogInv => NoOrphans
  BY DEF CatalogInv
<1> QED
  BY <1>1, Invariance, PTL

(* When puts come with all columns, as the API requires, a command that    *)
(* commits has done to the committed row what its client asked for, and    *)
(* nothing else.                                                           *)
THEOREM NoLostUpdateHolds ==
  ASSUME Put \subseteq {Columns}
  PROVE  Spec => NoLostUpdate
<1> DEFINE Step ==
      \A t \in Request, p \in Product :
          (/\ Succeeds(t, {"put", "patch", "activate", "deactivate", "adjust"})
           /\ productLock[p] = t)
          => p = id[t] /\ Exists(products[p]) /\
             \A c \in Columns : products'[p][c] =
                 IF c \in DOMAIN dto[t] THEN dto[t][c]
                 ELSE IF c = "stock" /\ op[t] = "adjust"
                      THEN products[p].stock + dto[t].adjustment
                      ELSE products[p][c]
<1>1. CatalogInv => Step
  <2> SUFFICES ASSUME CatalogInv, NEW t \in Request, NEW p \in Product,
                      Succeeds(t, {"put", "patch", "activate", "deactivate", "adjust"}),
                      productLock[p] = t
               PROVE  p = id[t] /\ Exists(products[p]) /\
                      \A c \in Columns : products'[p][c] =
                          IF c \in DOMAIN dto[t] THEN dto[t][c]
                          ELSE IF c = "stock" /\ op[t] = "adjust"
                               THEN products[p].stock + dto[t].adjustment
                               ELSE products[p][c]
    OBVIOUS
  <2>1. op[t] \in Updates /\ Commit(t)
    BY DEF Succeeds, Updates
  <2>2. p = id[t] /\ Exists(products[p])
    BY <2>1 DEF CatalogInv, ProductLocks, Updates
  <2>3. products'[p] = productDraft[p]
    BY <2>1 DEF Commit, CommitBoth, P!CommitRows, TypeOK
  <2>4. products'[p] = Assigned(t, products[p])
    BY <2>1, <2>3 DEF CatalogInv, DraftsAssigned
  <2>5. dto[t] \in Bodies(op[t])
    BY DEF CatalogInv, TypeOK
  <2>6. ASSUME op[t] = "put" PROVE DOMAIN dto[t] = Columns
    <3>1. PICK S \in SUBSET Columns, e \in Entity : FromEntity(dto[t], S, e) /\ S \in Put
      BY <2>5, <2>6, GivenPart
    <3> QED
      BY <3>1 DEF FromEntity
  <2> QED
    BY <2>2, <2>4, <2>6 DEF Assigned
<1> QED
  BY <1>1, Invariance, PTL DEF NoLostUpdate

(* The stock that is answered is the one that was committed.               *)
THEOREM StockAnsweredHolds == Spec => StockAnswered
<1> DEFINE Step ==
      \A t \in Request :
          (/\ Succeeds(t, {"create", "put", "patch", "adjust"})
           /\ Exists(products'[id[t]]))
          => product[t].stock = products'[id[t]].stock
<1>1. CatalogInv => Step
  <2> SUFFICES ASSUME CatalogInv, NEW t \in Request, Succeeds(t, StockCommands),
                      Exists(products'[id[t]])
               PROVE  product[t].stock = products'[id[t]].stock
    BY DEF StockCommands
  <2>1. op[t] \in StockCommands /\ Commit(t) /\ pc[t] = "commit"
    BY DEF Succeeds, Commit
  <2>2. id[t] \in Product
    BY <2>1 DEF CatalogInv, TypeOK, RowsOf, StockCommands, CategoryCommands
  <2>3. CASE productLock[id[t]] = t
    BY <2>1, <2>2, <2>3 DEF Commit, CommitBoth, P!CommitRows, TypeOK, CatalogInv, AnswersReady
  <2>4. CASE productLock[id[t]] # t
    <3>1. products[id[t]] = Deleted
      BY <2>1, <2>4 DEF CatalogInv, AnswersReady
    <3>2. products'[id[t]] = Deleted
      BY <2>1, <2>2, <2>4, <3>1 DEF Commit, CommitBoth, P!CommitRows, TypeOK
    <3> QED
      BY <3>2, NoEntity DEF Exists
  <2> QED
    BY <2>3, <2>4
<1> QED
  BY <1>1, Invariance, PTL DEF StockAnswered

-----------------------------------------------------------------------------
(* The abstract catalog.  Only a COMMIT changes what is committed: it is   *)
(* the step of the abstract catalog, one for each kind of command.         *)

USE DEF Book!Entity

LEMMA BookEntity == Book!Entity = Entity
BY DEF Entity

(* A transaction without writes changes nothing.                           *)
LEMMA NothingWritten ==
  ASSUME TypeOK, NEW t \in Request, CommitBoth(t)
  PROVE  /\ (\A p \in Product : productLock[p] # t) => UNCHANGED products
         /\ (\A c \in Category : categoryLock[c] # t) => UNCHANGED categories
BY DEF TypeOK, CommitBoth, P!CommitRows, C!CommitRows

(* A transaction that has written one product installs its version.        *)
LEMMA OneWritten ==
  ASSUME TypeOK, NEW t \in Request, CommitBoth(t), NEW p \in Product, productLock[p] = t,
         \A q \in Product : productLock[q] = t => q = p
  PROVE  products' = [products EXCEPT ![p] = productDraft[p]]
BY DEF TypeOK, CommitBoth, P!CommitRows

LEMMA OneCategoryWritten ==
  ASSUME TypeOK, NEW t \in Request, CommitBoth(t), NEW c \in Category, categoryLock[c] = t,
         \A d \in Category : categoryLock[d] = t => d = c
  PROVE  categories' = [categories EXCEPT ![c] = categoryDraft[c]]
BY DEF TypeOK, CommitBoth, C!CommitRows

(* The stock that put, patch and the switches make is the client's or the  *)
(* old one.                                                                *)
LEMMA StockEntered ==
  ASSUME NEW t \in Request, NEW v \in Entity, dto[t] \in Bodies(op[t]),
         op[t] \in Updates \ {"adjust"}
  PROVE  Assigned(t, v).stock \in Entered \cup {v.stock}
<1>0. op[t] \in {"put", "patch"} =>
         \E S \in SUBSET Columns, e \in Entity : FromEntity(dto[t], S, e)
  BY GivenPart
<1> USE DEF Assigned, Columns, Entity
<1>1. CASE op[t] \in {"put", "patch"}
  <2>1. PICK S \in SUBSET Columns, e \in Entity : FromEntity(dto[t], S, e)
    BY <1>0, <1>1
  <2> QED
    BY <1>1, <2>1 DEF FromEntity
<1>3. CASE op[t] \in {"activate", "deactivate"}
  BY <1>3, SwitchBody
<1> QED
  BY <1>1, <1>3 DEF Updates

(* The category of a product that is about to be committed exists.         *)
LEMMA CategoryThere ==
  ASSUME CatalogInv, NEW t \in Request, pc[t] = "commit", NEW p \in Product,
         productLock[p] = t, Exists(productDraft[p])
  PROVE  categories[productDraft[p].category_id] = "live"
<1> DEFINE c == productDraft[p].category_id
<1>1. c \in Category /\ InCategory(productDraft[p], c)
  BY DEF Exists, InCategory, Entity
<1>2. CASE InCategory(products[p], c)
  BY <1>2 DEF CatalogInv, NoOrphans, InCategory
<1>3. CASE ~ InCategory(products[p], c)
  BY <1>1, <1>3 DEF CatalogInv, ReferencesHeld
<1> QED
  BY <1>2, <1>3

(* The COMMIT of a product command that has written.                       *)
LEMMA ProductCommit ==
  ASSUME CatalogInv, NEW t \in Request, pc[t] = "commit", CommitBoth(t),
         op[t] \in ProductCommands, NEW p \in Product, productLock[p] = t
  PROVE  Book!Next
<1>1. TypeOK /\ ProductLocks
  BY DEF CatalogInv
<1>2. p = id[t] /\ \A q \in Product : productLock[q] = t => q = p
  BY <1>1 DEF ProductLocks, ProductCommands
<1>3. products' = [products EXCEPT ![p] = productDraft[p]]
  BY <1>1, <1>2, OneWritten
<1>4. \A c \in Category : categoryLock[c] # t
  BY DEF CatalogInv, CategoryLocks, ProductCommands, CategoryCommands
<1>5. UNCHANGED categories
  BY <1>1, <1>4, NothingWritten
<1>6. Exists(productDraft[p]) => Book!Store(p, productDraft[p])
  BY <1>3, <1>5, CategoryThere DEF Book!Store
<1>7. CASE op[t] = "create"
  <2>1. productDraft[p] = dto[t] /\ products[p] = Unborn /\ Exists(productDraft[p])
    BY <1>1, <1>7 DEF ProductLocks, CatalogInv, ProductWriters
  <2>2. dto[t] \in Whole
    BY <1>1, <1>7 DEF TypeOK, Bodies
  <2>3. Book!Create(p, productDraft[p]) /\ productDraft[p] \in Entity
    BY <1>6, <2>1, <2>2 DEF Book!Create, Whole, Exists
  <2> QED
    BY <2>3, BookEntity DEF Book!Next, Book!Promised
<1>8. CASE op[t] = "delete"
  <2>1. productDraft[p] = Deleted /\ Exists(products[p])
    BY <1>1, <1>8 DEF ProductLocks
  <2>2. Book!Delete(p)
    BY <1>3, <1>5, <2>1, BookEntity DEF Book!Delete, Book!Exists, Exists
  <2> QED
    BY <2>2 DEF Book!Next, Book!Promised
<1>9. CASE op[t] \in Updates
  <2>1. Exists(productDraft[p]) /\ Exists(products[p])
    BY <1>1, <1>9 DEF ProductLocks, Updates
  <2>2. productDraft[p] = Assigned(t, products[p])
    BY <1>9 DEF CatalogInv, DraftsAssigned
  <2>3. products[p] \in Entity /\ productDraft[p] \in Entity /\ Book!Exists(p)
    BY <2>1, BookEntity DEF Exists, Book!Exists
  <2>4. dto[t] \in Bodies(op[t])
    BY <1>1 DEF TypeOK
  <2>5. CASE op[t] = "adjust"
    <3>1. dto[t] \in Adjustment
      BY <2>4, <2>5 DEF Bodies
    <3>2. dto[t].adjustment \in Adjustments /\ DOMAIN dto[t] = {"adjustment"}
      BY <3>1 DEF Adjustment
    <3> DEFINE e == [products[p] EXCEPT !.stock = @ + dto[t].adjustment]
    <3>3. productDraft[p] = e
      BY <2>2, <2>3, <2>5, <3>2 DEF Assigned, Columns, Entity
    <3>4. products[p].stock + dto[t].adjustment \in Stock
      BY <2>3, <3>3 DEF Entity
    <3>5. Book!AddStock(p, dto[t].adjustment)
      BY <1>6, <2>1, <2>3, <3>3, <3>4 DEF Book!AddStock
    <3>6. Book!Adjust(p, dto[t].adjustment) \/ Book!Oversell(p, dto[t].adjustment)
      <4>1. products[p].stock + dto[t].adjustment \in Int
        BY <3>4
      <4> QED
        BY <2>3, <3>5, <4>1 DEF Book!Adjust, Book!Oversell
    <3> QED
      BY <3>2, <3>6 DEF Book!Next, Book!Promised, Book!Departure
  <2>6. CASE op[t] # "adjust"
    <3>1. productDraft[p].stock \in Entered \cup {products[p].stock}
      BY <1>9, <2>2, <2>3, <2>4, <2>6, StockEntered
    <3>2. Book!Change(p, productDraft[p])
      BY <1>6, <2>1, <2>3, <3>1 DEF Book!Change
    <3> QED
      BY <2>3, <3>2, BookEntity DEF Book!Next, Book!Promised
  <2> QED
    BY <2>5, <2>6
<1> QED
  BY <1>7, <1>8, <1>9 DEF ProductCommands, Updates

(* The COMMIT of a category command that has written.                      *)
LEMMA CategoryCommit ==
  ASSUME CatalogInv, NEW t \in Request, pc[t] = "commit", CommitBoth(t),
         NEW c \in Category, categoryLock[c] = t
  PROVE  Book!Next \/ UNCHANGED <<products, categories>>
<1>1. TypeOK /\ CategoryLocks /\ ProductLocks
  BY DEF CatalogInv
<1>2. /\ c = id[t] /\ op[t] \in CategoryCommands
      /\ \A d \in Category : categoryLock[d] = t => d = c
      /\ categoryDraft[c] = IF op[t] = "deleteCategory" THEN "deleted" ELSE "live"
      /\ categories[c] = IF op[t] = "createCategory" THEN "unborn" ELSE "live"
  BY <1>1 DEF CategoryLocks, CatalogInv, LockedCategories
<1>3. categories' = [categories EXCEPT ![c] = categoryDraft[c]]
  BY <1>1, <1>2, OneCategoryWritten
<1>4. CASE op[t] = "deleteCategory"
  <2>1. todo[t] = {}
    BY DEF CatalogInv, OwnStatements
  <2>2. ASSUME NEW p \in Product PROVE InCategory(products[p], c) <=> productLock[p] = t
    BY <1>2, <1>4, <2>1 DEF CatalogInv, CascadeComplete, CascadeExact
  <2>3. \A p \in Product : productLock[p] = t => productDraft[p] = Deleted
    BY <1>1, <1>4 DEF ProductLocks
  <2>4. products' = [p \in Product |->
                        IF InCategory(products[p], c) THEN Deleted ELSE products[p]]
    BY <2>2, <2>3 DEF CommitBoth, P!CommitRows
  <2>5. Book!Remove(c)
    BY <1>2, <1>3, <1>4, <2>4, BookEntity
       DEF Book!Remove, Book!Exists, InCategory, Exists
  <2> QED
    BY <2>5 DEF Book!Next, Book!Promised, Book!Departure, Book!DeleteCategory,
       Book!DeleteWithProducts
<1>5. CASE op[t] # "deleteCategory"
  <2>1. \A p \in Product : productLock[p] # t
    BY <1>2, <1>5 DEF CatalogInv, ProductWriters, ProductCommands, CategoryCommands
  <2>2. UNCHANGED products
    BY <1>1, <2>1, NothingWritten
  <2>3. CASE op[t] = "createCategory"
    <3>1. Book!CreateCategory(c)
      BY <1>2, <1>3, <2>2, <2>3 DEF Book!CreateCategory
    <3> QED
      BY <3>1 DEF Book!Next, Book!Promised
  <2>4. CASE op[t] # "createCategory"
    BY <1>1, <1>2, <1>3, <1>5, <2>2, <2>4 DEF TypeOK
  <2> QED
    BY <2>3, <2>4
<1> QED
  BY <1>4, <1>5

(* The end of a transaction.                                               *)
LEMMA CommitIsBookStep ==
  ASSUME CatalogInv, NEW t \in Request, pc[t] = "commit", CommitBoth(t)
  PROVE  Book!Next \/ UNCHANGED <<products, categories>>
<1>1. TypeOK
  BY DEF CatalogInv
<1>2. CASE \E c \in Category : categoryLock[c] = t
  BY <1>2, CategoryCommit
<1>3. CASE \A c \in Category : categoryLock[c] # t
  <2>1. UNCHANGED categories
    BY <1>1, <1>3, NothingWritten
  <2>2. CASE \A p \in Product : productLock[p] # t
    BY <1>1, <2>1, <2>2, NothingWritten
  <2>3. CASE \E p \in Product : productLock[p] = t
    <3>1. PICK p \in Product : productLock[p] = t
      BY <2>3
    <3>2. CASE op[t] \in ProductCommands
      BY <3>1, <3>2, ProductCommit
    <3>3. CASE op[t] = "deleteCategory"
      <4>1. categoryLock[id[t]] = t
        BY <3>1, <3>3 DEF CatalogInv, CascadeExact
      <4>2. id[t] \in Category
        BY <1>1, <3>3 DEF TypeOK, RowsOf, CategoryCommands
      <4> QED
        BY <1>3, <4>1, <4>2
    <3> QED
      BY <3>1, <3>2, <3>3 DEF CatalogInv, ProductWriters
  <2> QED
    BY <2>2, <2>3
<1> QED
  BY <1>2, <1>3

LEMMA BookStep ==
  ASSUME CatalogInv, [Next]_vars
  PROVE  [Book!Next]_(Book!vars)
BY OnlyCommitsShow, CommitIsBookStep DEF Book!vars

(* Every COMMIT of the product and category commands, statement by         *)
(* statement and interleaved, is one step that the API describes, or one   *)
(* of the two that it has a 409 for; whatever leads to a COMMIT, or to a   *)
(* ROLLBACK, changes nothing that others can see.                          *)
THEOREM ImplementsCatalogBookHolds == Spec => ImplementsCatalogBook
<1>1. Init => Book!Init
  BY DEF Init, Book!Init
<1>2. CatalogInv /\ [Next]_vars => [Book!Next]_(Book!vars)
  BY BookStep
<1> QED
  BY <1>1, <1>2, Invariance, PTL DEF Spec, ImplementsCatalogBook, Book!Spec
=============================================================================
