-------------------------------- MODULE Catalog --------------------------------
(***************************************************************************)
(* ProductCommandService and CategoryCommandService with their DAOs: the   *)
(* commands on the product and category tables, statement by statement,    *)
(* each in a READ COMMITTED transaction of its own.  A product refers to   *)
(* its category by a foreign key with ON DELETE CASCADE.                   *)
(*                                                                         *)
(* A product row is reduced to the columns that the commands change in     *)
(* different ways; name, price and the like behave as is_active does under *)
(* patch, and also under put, but that put always has them.  A category    *)
(* row is reduced to its existence: whether a name is taken is left open.  *)
(***************************************************************************)
EXTENDS Functions, Integers

CONSTANTS
    Product,    \* the ids of product rows
    Category,   \* the ids of category rows
    Request,    \* request slots
    NoRequest,
    Stock,      \* the integers a stock column can hold (int4)
    Unborn,     \* the version of a product that was not created yet
    Deleted,    \* ... and of one that is gone
    Commands,   \* the commands that clients send
    Entered,    \* the stocks that clients enter
    Adjustments,\* the adjustments that clients ask for
    Patched,    \* the sets of columns that clients patch
    Put,        \* the sets of columns that puts come with
    NoRow

ASSUME NoRequestAssumption == NoRequest \notin Request
ASSUME StockAssumption ==
    Stock \subseteq Int /\ Entered \subseteq Stock \cap Nat /\ Adjustments \subseteq Int

ProductCommands == {"create", "put", "patch", "delete", "activate", "deactivate", "adjust"}
CategoryCommands == {"createCategory", "updateCategory", "deleteCategory"}

ASSUME NoRowAssumption == NoRow \notin Product \cup Category
ASSUME CommandsAssumption == Commands \subseteq ProductCommands \cup CategoryCommands

(* What a product row holds.                                               *)
Entity == [category_id : Category, stock : Stock, is_active : BOOLEAN]
Columns == {"category_id", "stock", "is_active"}

ASSUME PatchedAssumption == Patched \subseteq (SUBSET Columns) \ {{}}
(* A put has every column, but perhaps is_active: the API requires it, and *)
(* the service is written as if it did not.                                *)
ASSUME PutAssumption == Put \subseteq {Columns, Columns \ {"is_active"}}
ASSUME VersionsAssumption == {Unborn, Deleted} \cap Entity = {} /\ Unborn # Deleted

VARIABLES
    products, productLock, productDraft,    \* the product table
    categories, categoryLock, categoryDraft,\* the category table
    pc,         \* pc[t]: the statement that request t executes next
    op,         \* op[t]: its command
    id,         \* id[t]: the row it is about
    dto,        \* dto[t]: what the client sent, by column
    product,    \* product[t]: the entity the response will be made from
    todo,       \* todo[t]: the rows its cascade has yet to visit
    result      \* result[t]: how the method body ended

(* Rows, row locks and uncommitted versions of the two tables.             *)
P == INSTANCE ReadCommitted WITH
    Row <- Product, db <- products, owner <- productLock, dirty <- productDraft
C == INSTANCE ReadCommitted WITH
    Row <- Category, db <- categories, owner <- categoryLock, dirty <- categoryDraft

table == <<products, productLock, productDraft>>
categoryTable == <<categories, categoryLock, categoryDraft>>
inputs == <<op, id, dto>>
locals == <<product, todo, result>>
vars == <<table, categoryTable, pc, inputs, locals>>

Statements == {"insert", "find", "write", "reference", "reread", "erase",
               "insertCategory", "findCategory", "rename", "eraseCategory", "cascade"}
PCs == Statements \cup {"idle", "commit", "rollback"}
Results == {"ok", "notFound", "conflict", "error"}

(* A request body: all columns, those of one of the sets, or an adjustment. *)
Whole == {e \in Entity : e.stock \in Entered}
Given(sets) == UNION {{Restrict(e, S) : e \in Whole} : S \in sets}
Adjustment == [adjustment : Adjustments]
NoBody == {<< >>}

(* Mutant: nobody checks that a put has all the columns.                   *)
BodiesUnchecked(c) ==
    CASE c = "create" -> Whole
      [] c = "put" -> Given({Columns, Columns \ {"is_active"}})
      [] c = "patch" -> Given(Patched)
      [] c = "activate" -> [is_active : {TRUE}]
      [] c = "deactivate" -> [is_active : {FALSE}]
      [] c = "adjust" -> Adjustment
      [] OTHER -> NoBody

Bodies(c) ==
    CASE c = "create" -> Whole
      [] c = "put" -> Given(Put)
      [] c = "patch" -> Given(Patched)
      [] c = "activate" -> [is_active : {TRUE}]
      [] c = "deactivate" -> [is_active : {FALSE}]
      [] c = "adjust" -> Adjustment
      [] OTHER -> NoBody

RowsOf(c) == IF c \in CategoryCommands THEN Category ELSE Product

Exists(v) == v \in Entity
Seen(t) == P!Visible(t, id[t])
InCategory(v, c) == Exists(v) /\ v.category_id = c

Init ==
    /\ products = [p \in Product |-> Unborn]
    /\ productLock = [p \in Product |-> NoRequest]
    /\ productDraft = products
    /\ categories = [c \in Category |-> "unborn"]
    /\ categoryLock = [c \in Category |-> NoRequest]
    /\ categoryDraft = categories
    /\ pc = [t \in Request |-> "idle"]
    /\ op = [t \in Request |-> "none"]
    /\ id = [t \in Request |-> NoRow]
    /\ dto = [t \in Request |-> << >>]
    /\ product = [t \in Request |-> Unborn]
    /\ todo = [t \in Request |-> {}]
    /\ result = [t \in Request |-> "ok"]

-----------------------------------------------------------------------------

Goto(t, label) == pc' = [pc EXCEPT ![t] = label]

Throw(t, r) ==
    /\ Goto(t, "rollback")
    /\ result' = [result EXCEPT ![t] = r]

(* Nobody else is about to create row r.                                   *)
Fresh(r) == \A s \in Request : id[s] # r

(* A request arrives and its transaction is opened.  A create gets an id   *)
(* of its own; the others may name any row.                                *)
Start(t, c, r, body) ==
    /\ pc[t] = "idle"
    /\ c = "create" => products[r] = Unborn /\ Fresh(r)
    /\ c = "createCategory" => categories[r] = "unborn" /\ Fresh(r)
    /\ op' = [op EXCEPT ![t] = c]
    /\ id' = [id EXCEPT ![t] = r]
    /\ dto' = [dto EXCEPT ![t] = body]
    /\ Goto(t, CASE c = "create" -> "insert"
                 [] c = "createCategory" -> "insertCategory"
                 [] c \in CategoryCommands \ {"createCategory"} -> "findCategory"
                 [] OTHER -> "find")
    /\ UNCHANGED <<table, categoryTable, locals>>

-----------------------------------------------------------------------------
(* The foreign key                                                         *)

(* An INSERT, or an UPDATE that changes category_id, locks the category    *)
(* row against deletion (FOR KEY SHARE) once it has written the product.   *)
Refers(t, c) ==
    /\ pc[t] \notin {"idle", "reference"}
    /\ \E p \in Product :
          /\ productLock[p] = t /\ InCategory(productDraft[p], c)
          /\ ~ InCategory(products[p], c)

(* t may delete category c, or change its unique name.                     *)
Exclusive(t, c) ==
    /\ C!Available(t, c)
    /\ \A s \in Request \ {t} : ~ Refers(s, c)

(* Mutant: the key is checked without waiting for who deletes the category. *)
ReferenceNow(t) ==
    /\ pc[t] = "reference"
    /\ LET c == Seen(t).category_id IN
       \/ /\ categories[c] = "live"
          /\ Goto(t, IF op[t] = "create" THEN "commit" ELSE "reread")
          /\ UNCHANGED result
       \/ categories[c] # "live" /\ Throw(t, "notFound")
    /\ UNCHANGED <<table, categoryTable, inputs, product, todo>>

(* The check of the key waits for a transaction that is deleting the       *)
(* category; error 23503 becomes a 404.                                    *)
Reference(t) ==
    /\ pc[t] = "reference"
    /\ LET c == Seen(t).category_id IN
       \/ /\ categories[c] = "live" /\ C!Available(t, c)
          /\ Goto(t, IF op[t] = "create" THEN "commit" ELSE "reread")
          /\ UNCHANGED result
       \/ categories[c] # "live" /\ Throw(t, "notFound")
    /\ UNCHANGED <<table, categoryTable, inputs, product, todo>>

-----------------------------------------------------------------------------
(* ProductCommandService                                                   *)

(* createProduct; the entity that was saved makes the response.            *)
Insert(t) ==
    /\ pc[t] = "insert"
    /\ P!WriteRow(t, id[t], dto[t])
    /\ product' = [product EXCEPT ![t] = dto[t]]
    /\ Goto(t, "reference")
    /\ UNCHANGED <<categoryTable, inputs, todo, result>>

(* findProductById.                                                        *)
Find(t) ==
    /\ pc[t] = "find"
    /\ product' = [product EXCEPT ![t] = Seen(t)]
    /\ \/ Exists(Seen(t)) /\ Goto(t, IF op[t] = "delete" THEN "erase" ELSE "write")
          /\ UNCHANGED result
       \/ ~ Exists(Seen(t)) /\ Throw(t, "notFound")
    /\ UNCHANGED <<table, categoryTable, inputs, todo>>

(* Mutant: the stock is computed from the entity found before.             *)
AssignedFound(t, v) ==
    [c \in Columns |->
        IF c \in DOMAIN dto[t] THEN dto[t][c]
        ELSE IF c = "stock" /\ op[t] = "adjust"
             THEN product[t].stock + dto[t].adjustment ELSE v[c]]

(* What UPDATE makes of version v: the columns of the body are assigned,   *)
(* repo.increment adds to the stock that the row has, and a put that does  *)
(* not say is_active writes back the one that was found before             *)
(* (product.command.service.ts:131).                                       *)
Assigned(t, v) ==
    [c \in Columns |->
        IF c \in DOMAIN dto[t] THEN dto[t][c]
        ELSE IF c = "stock" /\ op[t] = "adjust" THEN v.stock + dto[t].adjustment
        ELSE IF c = "is_active" /\ op[t] = "put" THEN product[t].is_active
        ELSE v[c]]

(* A value that the columns can hold.                                      *)
Fits(v) == v.stock \in Stock

(* The UPDATE of put, patch, activate, deactivate and adjust.  If the row  *)
(* is gone by now, nothing is changed and nobody looks at the count; a     *)
(* stock beyond int4 is an error.                                          *)
Write(t) ==
    /\ pc[t] = "write"
    /\ P!Available(t, id[t])
    /\ LET old == Seen(t)
           new == Assigned(t, old)
           answers == IF op[t] \in {"activate", "deactivate"} THEN "commit" ELSE "reread"
       IN
       \/ ~ Exists(old) /\ Goto(t, answers) /\ UNCHANGED <<table, result>>
       \/ /\ Exists(old) /\ Fits(new)
          /\ P!WriteRow(t, id[t], new)
          /\ Goto(t, IF new.category_id = old.category_id THEN answers ELSE "reference")
          /\ UNCHANGED result
       \/ Exists(old) /\ ~ Fits(new) /\ Throw(t, "error") /\ UNCHANGED table
    /\ UNCHANGED <<categoryTable, inputs, product, todo>>

(* Mutant: the response of an adjustment is made from the entity found.    *)
RereadUnused(t) ==
    /\ pc[t] = "reread"
    /\ \/ Exists(Seen(t)) /\ Goto(t, "commit") /\ UNCHANGED result
          /\ product' = [product EXCEPT ![t] = IF op[t] = "adjust" THEN @ ELSE Seen(t)]
       \/ ~ Exists(Seen(t)) /\ op[t] = "adjust" /\ Goto(t, "commit")
          /\ UNCHANGED <<product, result>>
       \/ ~ Exists(Seen(t)) /\ op[t] # "adjust" /\ Throw(t, "error") /\ UNCHANGED product
    /\ UNCHANGED <<table, categoryTable, inputs, todo>>

(* The row is read back for the response.  A put or patch whose row is     *)
(* gone fails; an adjustment answers with the stock it found before.       *)
Reread(t) ==
    /\ pc[t] = "reread"
    /\ \/ Exists(Seen(t)) /\ Goto(t, "commit") /\ UNCHANGED result
          /\ product' = [product EXCEPT ![t] = Seen(t)]
       \/ ~ Exists(Seen(t)) /\ op[t] = "adjust" /\ Goto(t, "commit")
          /\ UNCHANGED <<product, result>>
       \/ ~ Exists(Seen(t)) /\ op[t] # "adjust" /\ Throw(t, "error") /\ UNCHANGED product
    /\ UNCHANGED <<table, categoryTable, inputs, todo>>

(* DELETE of a product; one that is gone already is deleted as well.       *)
Erase(t) ==
    /\ pc[t] = "erase"
    /\ P!Available(t, id[t])
    /\ IF Exists(Seen(t)) THEN P!WriteRow(t, id[t], Deleted) ELSE UNCHANGED table
    /\ Goto(t, "commit")
    /\ UNCHANGED <<categoryTable, inputs, locals>>

-----------------------------------------------------------------------------
(* CategoryCommandService                                                  *)

(* createCategory: a name that is taken (23505) becomes a 409.             *)
InsertCategory(t) ==
    /\ pc[t] = "insertCategory"
    /\ \/ C!WriteRow(t, id[t], "live") /\ Goto(t, "commit") /\ UNCHANGED result
       \/ Throw(t, "conflict") /\ UNCHANGED categoryTable
    /\ UNCHANGED <<table, inputs, product, todo>>

(* findCategoryById.                                                       *)
FindCategory(t) ==
    /\ pc[t] = "findCategory"
    /\ \/ /\ C!Visible(t, id[t]) = "live"
          /\ Goto(t, IF op[t] = "deleteCategory" THEN "eraseCategory" ELSE "rename")
          /\ UNCHANGED result
       \/ C!Visible(t, id[t]) # "live" /\ Throw(t, "notFound")
    /\ UNCHANGED <<table, categoryTable, inputs, product, todo>>

(* updateCategory: the name is unique, hence its UPDATE excludes foreign   *)
(* keys to the row; a row that is gone when it is read back is a 500.      *)
Rename(t) ==
    /\ pc[t] = "rename"
    /\ Exclusive(t, id[t])
    /\ \/ /\ C!Visible(t, id[t]) = "live"
          /\ \/ C!WriteRow(t, id[t], "live") /\ Goto(t, "commit") /\ UNCHANGED result
             \/ Throw(t, "conflict") /\ UNCHANGED categoryTable
       \/ /\ C!Visible(t, id[t]) # "live"
          /\ Throw(t, "error") /\ UNCHANGED categoryTable
    /\ UNCHANGED <<table, inputs, product, todo>>

(* The products the cascade sees.                                          *)
Members(t, c) == {p \in Product : InCategory(P!Visible(t, p), c)}

(* DELETE of a category, and the scan of its ON DELETE CASCADE.            *)
EraseCategory(t) ==
    /\ pc[t] = "eraseCategory"
    /\ Exclusive(t, id[t])
    /\ \/ /\ C!Visible(t, id[t]) = "live"
          /\ C!WriteRow(t, id[t], "deleted")
          /\ todo' = [todo EXCEPT ![t] = Members(t, id[t])]
          /\ Goto(t, "cascade")
       \/ /\ C!Visible(t, id[t]) # "live"
          /\ Goto(t, "commit") /\ UNCHANGED <<categoryTable, todo>>
    /\ UNCHANGED <<table, inputs, product, result>>

(* Mutant: a row of the scan is deleted, wherever it has been moved since. *)
CascadeUnchecked(t, p) ==
    /\ pc[t] = "cascade"
    /\ p \in todo[t]
    /\ P!Available(t, p)
    /\ IF Exists(P!Visible(t, p)) THEN P!WriteRow(t, p, Deleted) ELSE UNCHANGED table
    /\ todo' = [todo EXCEPT ![t] = @ \ {p}]
    /\ UNCHANGED <<categoryTable, pc, inputs, product, result>>

(* Each row of the scan is waited for, and looked at again.                *)
Cascade(t, p) ==
    /\ pc[t] = "cascade"
    /\ p \in todo[t]
    /\ P!Available(t, p)
    /\ IF InCategory(P!Visible(t, p), id[t]) THEN P!WriteRow(t, p, Deleted)
                                                  ELSE UNCHANGED table
    /\ todo' = [todo EXCEPT ![t] = @ \ {p}]
    /\ UNCHANGED <<categoryTable, pc, inputs, product, result>>

(* Mutant: the cascade does not wait for rows that others have locked.     *)
CascadeSkips(t) ==
    /\ pc[t] = "cascade"
    /\ \A p \in todo[t] : productLock[p] # NoRequest
    /\ Goto(t, "commit")
    /\ UNCHANGED <<table, categoryTable, inputs, locals>>

CascadeDone(t) ==
    /\ pc[t] = "cascade"
    /\ todo[t] = {}
    /\ Goto(t, "commit")
    /\ UNCHANGED <<table, categoryTable, inputs, locals>>

-----------------------------------------------------------------------------
(* The end of the transaction                                              *)

(* The client has its answer, and the request is forgotten.                *)
Answer(t) ==
    /\ Goto(t, "idle")
    /\ id' = [id EXCEPT ![t] = NoRow]
    /\ op' = [op EXCEPT ![t] = "none"]
    /\ dto' = [dto EXCEPT ![t] = << >>]
    /\ product' = [product EXCEPT ![t] = Unborn]
    /\ todo' = [todo EXCEPT ![t] = {}]
    /\ result' = [result EXCEPT ![t] = "ok"]

CommitBoth(t) == P!CommitRows(t) /\ C!CommitRows(t)
RollbackBoth(t) == P!RollbackRows(t) /\ C!RollbackRows(t)

Commit(t) == pc[t] = "commit" /\ CommitBoth(t) /\ Answer(t)

Rollback(t) == pc[t] = "rollback" /\ RollbackBoth(t) /\ Answer(t)

(* The server ends the transaction: the connection is lost, or four        *)
(* requests have deadlocked over two products and their categories.  The   *)
(* answer to a COMMIT may be lost after it took effect.                    *)
Abort(t) ==
    /\ pc[t] # "idle"
    /\ \/ RollbackBoth(t)
       \/ pc[t] = "commit" /\ CommitBoth(t)
    /\ Answer(t)

Next ==
    \E t \in Request :
        \/ \E c \in Commands : \E r \in RowsOf(c), body \in Bodies(c) : Start(t, c, r, body)
        \/ Reference(t)
        \/ Insert(t)
        \/ Find(t)
        \/ Write(t)
        \/ Reread(t)
        \/ Erase(t)
        \/ InsertCategory(t)
        \/ FindCategory(t)
        \/ Rename(t)
        \/ EraseCategory(t)
        \/ \E p \in Product : Cascade(t, p)
        \/ CascadeDone(t)
        \/ Commit(t)
        \/ Rollback(t)
        \/ Abort(t)

Spec == Init /\ [][Next]_vars

-----------------------------------------------------------------------------
(* Properties                                                              *)

(* The values of the variables; in particular every committed or drafted   *)
(* stock is one that the column can hold.                                  *)
TypeOK ==
    /\ products \in [Product -> Entity \cup {Unborn, Deleted}]
    /\ productLock \in [Product -> Request \cup {NoRequest}]
    /\ productDraft \in [Product -> Entity \cup {Unborn, Deleted}]
    /\ categories \in [Category -> {"unborn", "live", "deleted"}]
    /\ categoryLock \in [Category -> Request \cup {NoRequest}]
    /\ categoryDraft \in [Category -> {"unborn", "live", "deleted"}]
    /\ pc \in [Request -> PCs]
    /\ op \in [Request -> Commands \cup {"none"}]
    /\ id \in [Request -> Product \cup Category \cup {NoRow}]
    /\ \A t \in Request : pc[t] # "idle" => id[t] \in RowsOf(op[t])
    /\ dto \in [Request -> Whole \cup Given(Put) \cup Given(Patched)
                             \cup [is_active : BOOLEAN] \cup Adjustment \cup NoBody]
    /\ \A t \in Request : dto[t] \in Bodies(op[t])
    /\ product \in [Request -> Entity \cup {Unborn, Deleted}]
    /\ todo \in [Request -> SUBSET Product]
    /\ result \in [Request -> Results]

(* A product never outlives its category, whoever creates, moves or        *)
(* deletes what at the same time.                                          *)
NoOrphans ==
    \A p \in Product : Exists(products[p]) =>
        categories[products[p].category_id] = "live"

(* t answers its client with success, having committed.                    *)
Succeeds(t, commands) == op[t] \in commands /\ Commit(t)

(* A command that commits has done to the committed row exactly what its   *)
(* client asked for: no adjustment, patch or switch that was committed     *)
(* while it ran is lost or taken over in part.  This needs puts to come    *)
(* with all columns: one without is_active would undo a concurrent switch. *)
NoLostUpdate ==
    [][\A t \in Request, p \in Product :
          (/\ Succeeds(t, {"put", "patch", "activate", "deactivate", "adjust"})
           /\ productLock[p] = t)
          => p = id[t] /\ Exists(products[p]) /\
             \A c \in Columns : products'[p][c] =
                 IF c \in DOMAIN dto[t] THEN dto[t][c]
                 ELSE IF c = "stock" /\ op[t] = "adjust"
                      THEN products[p].stock + dto[t].adjustment
                      ELSE products[p][c]]_vars

(* The stock that a client is told is the one its command has committed,   *)
(* unless the product was deleted meanwhile.                               *)
StockAnswered ==
    [][\A t \in Request :
          (/\ Succeeds(t, {"create", "put", "patch", "adjust"})
           /\ Exists(products'[id[t]]))
          => product[t].stock = products'[id[t]].stock]_vars

(* The commands, statement by statement and interleaved, do to the         *)
(* committed tables what the API describes, in one step, or one of the two *)
(* things for which it has a 409.  In particular, a category goes with     *)
(* exactly the products that are in it when its deletion commits, though   *)
(* its cascade saw them one by one.                                        *)
Book == INSTANCE CatalogBook
ImplementsCatalogBook == Book!Spec

(* deleteCategory answers 409 "Cannot delete category with associated      *)
(* products": a category that a delete removes has none.                   *)
DeletedCategoryWasEmpty ==
    [][\A t \in Request :
          Succeeds(t, {"deleteCategory"}) =>
              \A p \in Product : ~ InCategory(products[p], id[t])]_vars

-----------------------------------------------------------------------------
(* The inductive invariant behind NoOrphans, NoLostUpdate, StockAnswered   *)
(* and ImplementsCatalogBook.                                              *)

Updates == {"put", "patch", "activate", "deactivate", "adjust"}
StockCommands == {"create", "put", "patch", "adjust"}

(* Each command executes its own statements only.                          *)
OwnStatements ==
    \A t \in Request :
        /\ pc[t] = "insert" => op[t] = "create"
        /\ pc[t] = "find" => op[t] \in ProductCommands \ {"create"}
        /\ pc[t] = "write" => op[t] \in Updates
        /\ pc[t] = "reference" => op[t] \in {"create", "put", "patch"}
        /\ pc[t] = "reread" => op[t] \in {"put", "patch", "adjust"}
        /\ pc[t] = "erase" => op[t] = "delete"
        /\ pc[t] = "insertCategory" => op[t] = "createCategory"
        /\ pc[t] = "findCategory" => op[t] \in {"updateCategory", "deleteCategory"}
        /\ pc[t] = "rename" => op[t] = "updateCategory"
        /\ pc[t] \in {"eraseCategory", "cascade"} => op[t] = "deleteCategory"
        /\ todo[t] # {} => pc[t] = "cascade"

(* Who holds a product: the command about it, which has a product to       *)
(* write to, or the deletion of its category, which deletes it.            *)
ProductLocks ==
    \A p \in Product, t \in Request : productLock[p] = t =>
        /\ pc[t] \in {"reference", "reread", "commit", "rollback", "cascade"}
        /\ op[t] # "deleteCategory" => p = id[t]
        /\ IF op[t] \in {"delete", "deleteCategory"} THEN productDraft[p] = Deleted
                                                    ELSE Exists(productDraft[p])
        /\ IF op[t] = "create" THEN products[p] = Unborn ELSE Exists(products[p])

CategoryLocks ==
    \A c \in Category, t \in Request : categoryLock[c] = t =>
        /\ pc[t] \in {"cascade", "commit"}
        /\ op[t] \in CategoryCommands
        /\ c = id[t]
        /\ categoryDraft[c] = IF op[t] = "deleteCategory" THEN "deleted" ELSE "live"

(* A category is locked before it exists by its creation only.             *)
LockedCategories ==
    \A c \in Category, t \in Request : categoryLock[c] = t =>
        categories[c] = IF op[t] = "createCategory" THEN "unborn" ELSE "live"

(* The id of a row about to be inserted is nobody else's.                  *)
NewIds ==
    \A t \in Request :
        /\ pc[t] = "insert" =>
              products[id[t]] = Unborn /\ productLock[id[t]] = NoRequest
        /\ pc[t] = "insertCategory" =>
              categories[id[t]] = "unborn" /\ categoryLock[id[t]] = NoRequest
        /\ pc[t] \in {"insert", "insertCategory"} =>
              \A s \in Request \ {t} : pc[s] = pc[t] => id[s] # id[t]

(* Past the check of the foreign key, the category stays what it was.      *)
ReferencesHeld ==
    \A t \in Request, p \in Product, c \in Category :
        (/\ pc[t] \in {"reread", "commit"}
         /\ productLock[p] = t /\ InCategory(productDraft[p], c)
         /\ ~ InCategory(products[p], c))
        => categories[c] = "live" /\ categoryLock[c] = NoRequest

(* The deletion of a category holds each of its products, or will visit it. *)
CascadeComplete ==
    \A t \in Request, c \in Category, p \in Product :
        op[t] = "deleteCategory" /\ categoryLock[c] = t /\ InCategory(products[p], c)
        => p \in todo[t] \/ productLock[p] = t

(* It holds no other product, and the category as long as it holds one.    *)
CascadeExact ==
    \A t \in Request :
        /\ pc[t] = "cascade" => categoryLock[id[t]] = t
        /\ \A p \in Product : op[t] = "deleteCategory" /\ productLock[p] = t =>
              InCategory(products[p], id[t]) /\ categoryLock[id[t]] = t

(* An update has found a product ...                                       *)
ProductFound == \A t \in Request : pc[t] = "write" => Exists(product[t])

(* ... which can be gone by now, but not unborn.                           *)
FoundBefore ==
    \A t \in Request :
        pc[t] = "write" => id[t] \in Product /\ products[id[t]] # Unborn

(* An uncommitted update is that of the committed row: nobody changes the  *)
(* row in between.                                                         *)
DraftsAssigned ==
    \A t \in Request, p \in Product :
        productLock[p] = t /\ op[t] \in Updates =>
            productDraft[p] = Assigned(t, products[p])

(* Product commands write products, and so does the cascade; a new product *)
(* is what the client sent.                                                *)
ProductWriters ==
    \A t \in Request, p \in Product : productLock[p] = t =>
        /\ op[t] \in ProductCommands \cup {"deleteCategory"}
        /\ op[t] = "create" => productDraft[p] = dto[t]

(* What a command is going to answer is what it has written.               *)
AnswersReady ==
    \A t \in Request : op[t] \in StockCommands =>
        /\ pc[t] = "reference" => productLock[id[t]] = t
        /\ pc[t] \in {"reread", "commit"} =>
              productLock[id[t]] = t \/ products[id[t]] = Deleted
        /\ (\/ pc[t] = "commit" /\ productLock[id[t]] = t
            \/ pc[t] = "reference" /\ op[t] = "create")
           => product[t].stock = productDraft[id[t]].stock

CatalogInv ==
    /\ TypeOK
    /\ OwnStatements
    /\ ProductLocks
    /\ CategoryLocks
    /\ LockedCategories
    /\ NewIds
    /\ ReferencesHeld
    /\ CascadeComplete
    /\ CascadeExact
    /\ ProductFound
    /\ FoundBefore
    /\ DraftsAssigned
    /\ ProductWriters
    /\ AnswersReady
    /\ NoOrphans

=============================================================================
