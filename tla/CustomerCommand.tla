---------------------------- MODULE CustomerCommand ----------------------------
(***************************************************************************)
(* UserCommandService, CartCommandService, CartItemCommandService and      *)
(* FavouritesCommandService with their DAOs, statement by statement, each  *)
(* command in a READ COMMITTED transaction of its own; and the deletion of *)
(* a product, which takes cart items and favourites with it.               *)
(*                                                                         *)
(* The tables are linked by foreign keys with ON DELETE CASCADE and kept   *)
(* free of duplicates by unique keys.  Both kinds of key are the same      *)
(* thing in every table, so the rows of all tables make one set Row.       *)
(* Columns that no command changes (the user of a cart, the cart and the   *)
(* product of an item, the e-mail of a user) are constants of the row.     *)
(***************************************************************************)
EXTENDS FiniteSets

CONSTANTS
    User, Product, Cart, Item, Favourite,   \* the ids of the rows of each table
    UserOf,     \* UserOf[r]: user_id of the cart or favourite r
    CartOf,     \* CartOf[r]: cart_id of the item r
    ProductOf,  \* ProductOf[r]: product_id of the item or favourite r
    EmailOf,    \* EmailOf[r]: the e-mail of the user r
    Name,       \* what user_name and phone_number can be
    Quantity,   \* what the quantity of an item can be
    Present,    \* the only content of a row without such a column
    Unborn,     \* the version of a row that was not inserted yet
    Deleted,    \* ... and of one that is gone
    Initial,    \* the users and products that are there from the start
    Request, NoRequest,
    NoRow,
    Commands    \* the commands that clients send

Dependent == Cart \cup Item \cup Favourite
Row == User \cup Product \cup Dependent
Content == Name \cup Quantity \cup {Present}

Creates == {"createUser", "createCart", "addCartItem", "addFavourite"}
Updates == {"updateUser", "updateCartItem"}
Removals == {"deleteUser", "deleteCart", "deleteCartItem", "removeFavourite",
             "removeFavouriteByUserAndProduct", "deleteProduct"}
RemovalsById == Removals \ {"removeFavouriteByUserAndProduct"}

ASSUME NullsAssumption == NoRequest \notin Request /\ NoRow \notin Row
ASSUME ColumnsAssumption ==
    /\ UserOf \in [Cart \cup Favourite -> User]
    /\ CartOf \in [Item -> Cart]
    /\ ProductOf \in [Item \cup Favourite -> Product]
ASSUME TablesAssumption ==
    /\ User \cap (Product \cup Dependent) = {} /\ Product \cap Dependent = {}
    /\ Cart \cap (Item \cup Favourite) = {} /\ Item \cap Favourite = {}
ASSUME VersionsAssumption == {Unborn, Deleted} \cap Content = {} /\ Unborn # Deleted
ASSUME InitialAssumption ==
    /\ Initial \subseteq User \cup Product /\ Name # {}
    /\ \A u, v \in Initial \cap User : EmailOf[u] = EmailOf[v] => u = v
ASSUME CommandsAssumption == Commands \subseteq Creates \cup Updates \cup Removals

(* The rows that the foreign keys of r refer to.                           *)
Parents(r) ==
    CASE r \in Cart -> {UserOf[r]}
      [] r \in Item -> {CartOf[r], ProductOf[r]}
      [] r \in Favourite -> {UserOf[r], ProductOf[r]}
      [] OTHER -> {}

Children(r) == {c \in Dependent : r \in Parents(c)}

(* The rows that a unique key keeps from existing together with r: users   *)
(* by e-mail, carts by user, items by cart and product, favourites by user *)
(* and product.                                                            *)
Twins(r) ==
    CASE r \in User -> {s \in User \ {r} : EmailOf[s] = EmailOf[r]}
      [] r \in Cart -> {s \in Cart \ {r} : UserOf[s] = UserOf[r]}
      [] r \in Item -> {s \in Item \ {r} : Parents(s) = Parents(r)}
      [] r \in Favourite -> {s \in Favourite \ {r} : Parents(s) = Parents(r)}
      [] OTHER -> {}

VARIABLES
    db, owner, dirty,   \* the tables: see ReadCommitted
    pc,         \* pc[t]: the statement that request t executes next
    op,         \* op[t]: its command
    id,         \* id[t]: the row it is about
    value,      \* value[t]: the content that the client sent
    own,        \* own[t]: the cart in the path is the one of the item
    todo,       \* todo[t]: the references to check, or the rows to delete
    answer,     \* answer[t]: the row that the response will be made from
    result      \* result[t]: how the method body ended

R == INSTANCE ReadCommitted

table == <<db, owner, dirty>>
inputs == <<op, id, value, own>>
locals == <<todo, answer, result>>
vars == <<table, pc, inputs, locals>>

Statements == {"look", "insert", "reference", "find", "write", "reread", "erase", "sweep"}
PCs == Statements \cup {"idle", "commit", "rollback"}
Results == {"ok", "notFound", "conflict", "error"}

TableOf(c) ==
    CASE c \in {"createUser", "updateUser", "deleteUser"} -> User
      [] c \in {"createCart", "deleteCart"} -> Cart
      [] c \in {"addCartItem", "updateCartItem", "deleteCartItem"} -> Item
      [] c = "deleteProduct" -> Product
      [] OTHER -> Favourite

(* What the client sends along.                                            *)
ValuesOf(c) ==
    CASE c \in {"createUser", "updateUser"} -> Name
      [] c \in {"addCartItem", "updateCartItem"} -> Quantity
      [] OTHER -> {Present}
PathsOf(c) == IF c \in {"updateCartItem", "deleteCartItem"} THEN BOOLEAN ELSE {TRUE}

Exists(v) == v \in Content
Live(t, r) == Exists(R!Visible(t, r))

Init ==
    /\ db = [r \in Row |-> IF r \notin Initial THEN Unborn
                           ELSE IF r \in User THEN CHOOSE n \in Name : TRUE ELSE Present]
    /\ owner = [r \in Row |-> NoRequest]
    /\ dirty = db
    /\ pc = [t \in Request |-> "idle"]
    /\ op = [t \in Request |-> "none"]
    /\ id = [t \in Request |-> NoRow]
    /\ value = [t \in Request |-> Present]
    /\ own = [t \in Request |-> TRUE]
    /\ todo = [t \in Request |-> {}]
    /\ answer = [t \in Request |-> Unborn]
    /\ result = [t \in Request |-> "ok"]

-----------------------------------------------------------------------------

Goto(t, label) == pc' = [pc EXCEPT ![t] = label]

Throw(t, r) ==
    /\ Goto(t, "rollback")
    /\ result' = [result EXCEPT ![t] = r]

(* Nobody else is about to insert row r.                                   *)
Fresh(r) == \A s \in Request : op[s] \in Creates => id[s] # r

(* A request arrives and its transaction is opened.  A row to be inserted  *)
(* gets an id of its own; the other commands may name any row.             *)
Start(t, c, r, v, o) ==
    /\ pc[t] = "idle"
    /\ c \in Creates => db[r] = Unborn /\ Fresh(r)
    /\ op' = [op EXCEPT ![t] = c]
    /\ id' = [id EXCEPT ![t] = r]
    /\ value' = [value EXCEPT ![t] = v]
    /\ own' = [own EXCEPT ![t] = o]
    /\ Goto(t, IF c \in Creates THEN "look" ELSE "find")
    /\ UNCHANGED <<table, locals>>

-----------------------------------------------------------------------------
(* createUser, createCart, addCartItem, addFavourite                       *)

(* The SELECT that looks for a row in the way.  For a user that is one     *)
(* with the same name or phone number as well, which no key enforces.      *)
Look(t) ==
    /\ pc[t] = "look"
    /\ LET taken == \E s \in TableOf(op[t]) :
               /\ Live(t, s)
               /\ s \in Twins(id[t]) \/ (op[t] = "createUser" /\ R!Visible(t, s) = value[t])
       IN
       \/ taken /\ Throw(t, "conflict")
       \/ ~ taken /\ Goto(t, "insert") /\ UNCHANGED result
    /\ UNCHANGED <<table, inputs, todo, answer>>

(* Mutant: there is no unique key.                                         *)
InsertAlways(t) ==
    /\ pc[t] = "insert"
    /\ R!WriteRow(t, id[t], value[t])
    /\ todo' = [todo EXCEPT ![t] = Parents(id[t])]
    /\ Goto(t, "reference")
    /\ UNCHANGED <<inputs, answer, result>>

(* Mutant: ON CONFLICT DO NOTHING.                                         *)
InsertOrNothing(t) ==
    /\ pc[t] = "insert"
    /\ \A s \in Twins(id[t]) : R!Available(t, s)
    /\ \/ /\ \A s \in Twins(id[t]) : ~ Live(t, s)
          /\ R!WriteRow(t, id[t], value[t])
          /\ todo' = [todo EXCEPT ![t] = Parents(id[t])]
          /\ Goto(t, "reference")
       \/ /\ \E s \in Twins(id[t]) : Live(t, s)
          /\ Goto(t, "commit") /\ UNCHANGED <<table, todo>>
    /\ UNCHANGED <<inputs, answer, result>>

(* INSERT: the unique key waits for whoever is writing a row with the same *)
(* values, then raises 23505, which only two of the services look for.     *)
Insert(t) ==
    /\ pc[t] = "insert"
    /\ \A s \in Twins(id[t]) : R!Available(t, s)
    /\ \/ /\ \A s \in Twins(id[t]) : ~ Live(t, s)
          /\ R!WriteRow(t, id[t], value[t])
          /\ todo' = [todo EXCEPT ![t] = Parents(id[t])]
          /\ Goto(t, "reference") /\ UNCHANGED result
       \/ /\ \E s \in Twins(id[t]) : Live(t, s)
          /\ Throw(t, IF op[t] \in {"createUser", "addFavourite"} THEN "conflict" ELSE "error")
          /\ UNCHANGED <<table, todo>>
    /\ UNCHANGED <<inputs, answer>>

(* Another request is deleting row r.                                      *)
BeingDeleted(t, r) == ~ R!Available(t, r) /\ dirty[r] = Deleted

(* Mutant: the keys are checked without waiting for who deletes the row.   *)
ReferenceNow(t) ==
    /\ pc[t] = "reference"
    /\ \/ \E p \in todo[t] :
             \/ /\ Live(t, p)
                /\ todo' = [todo EXCEPT ![t] = @ \ {p}]
                /\ UNCHANGED <<pc, result>>
             \/ ~ Live(t, p) /\ Throw(t, "error") /\ UNCHANGED todo
       \/ todo[t] = {} /\ Goto(t, "commit") /\ UNCHANGED <<todo, result>>
    /\ UNCHANGED <<table, inputs, answer>>

(* The foreign keys are checked once the row is written: each check waits  *)
(* for a transaction that is deleting the row referred to, and locks it    *)
(* against deletion (FOR KEY SHARE).  Error 23503 is a 404 of addCartItem; *)
(* addFavourite looks for a column in the message, which has none.         *)
Reference(t) ==
    /\ pc[t] = "reference"
    /\ \/ \E p \in todo[t] :
             \/ /\ Live(t, p) /\ ~ BeingDeleted(t, p)
                /\ todo' = [todo EXCEPT ![t] = @ \ {p}]
                /\ UNCHANGED <<pc, result>>
             \/ /\ ~ Live(t, p)
                /\ Throw(t, IF op[t] = "addCartItem" THEN "notFound" ELSE "error")
                /\ UNCHANGED todo
       \/ todo[t] = {} /\ Goto(t, "commit") /\ UNCHANGED <<todo, result>>
    /\ UNCHANGED <<table, inputs, answer>>

-----------------------------------------------------------------------------
(* The other commands                                                      *)

(* The rows of removeFavouriteByUserAndProduct, or the one of the id.      *)
Targets(t) ==
    IF op[t] = "removeFavouriteByUserAndProduct" THEN Twins(id[t]) \cup {id[t]} ELSE {id[t]}

(* The SELECT before the change, and the check of the cart in the path.    *)
Find(t) ==
    /\ pc[t] = "find"
    /\ LET found == own[t] /\ \E r \in Targets(t) : Live(t, r) IN
       \/ found /\ Goto(t, IF op[t] \in Updates THEN "write" ELSE "erase") /\ UNCHANGED result
       \/ ~ found /\ Throw(t, "notFound")
    /\ UNCHANGED <<table, inputs, todo, answer>>

(* Mutant: the entity is saved, which inserts the row again if it is gone. *)
WriteSaves(t) ==
    /\ pc[t] = "write"
    /\ R!Available(t, id[t])
    /\ R!WriteRow(t, id[t], value[t])
    /\ Goto(t, "reread")
    /\ UNCHANGED <<inputs, locals>>

(* UPDATE by id: of no row if it is gone by now.                           *)
Write(t) ==
    /\ pc[t] = "write"
    /\ R!Available(t, id[t])
    /\ IF Live(t, id[t]) THEN R!WriteRow(t, id[t], value[t]) ELSE UNCHANGED table
    /\ Goto(t, "reread")
    /\ UNCHANGED <<inputs, locals>>

(* The row is read back for the response.                                  *)
Reread(t) ==
    /\ pc[t] = "reread"
    /\ \/ /\ Live(t, id[t])
          /\ answer' = [answer EXCEPT ![t] = R!Visible(t, id[t])]
          /\ Goto(t, "commit") /\ UNCHANGED result
       \/ ~ Live(t, id[t]) /\ Throw(t, "error") /\ UNCHANGED answer
    /\ UNCHANGED <<table, inputs, todo>>

(* DELETE takes a snapshot ...                                             *)
Erase(t) ==
    /\ pc[t] = "erase"
    /\ todo' = [todo EXCEPT ![t] = {r \in Targets(t) : Live(t, r)}]
    /\ Goto(t, "sweep")
    /\ UNCHANGED <<table, inputs, answer, result>>

(* Request s has inserted a row that refers to r, and holds r by its check. *)
RefersTo(s, r) ==
    /\ pc[s] \in {"reference", "commit"} /\ op[s] \in Creates
    /\ r \in Parents(id[s]) \ todo[s]

(* Mutant: DELETE skips the rows that others have locked.                  *)
SweepSkips(t, r) ==
    /\ pc[t] = "sweep"
    /\ r \in todo[t]
    /\ \/ /\ R!Available(t, r) /\ Live(t, r)
          /\ R!WriteRow(t, r, Deleted)
          /\ todo' = [todo EXCEPT ![t] = (@ \ {r}) \cup {c \in Children(r) : Live(t, c)}]
       \/ ~ R!Available(t, r) /\ todo' = [todo EXCEPT ![t] = @ \ {r}] /\ UNCHANGED table
    /\ UNCHANGED <<pc, inputs, answer, result>>

(* Mutant: the foreign keys have no ON DELETE CASCADE.                     *)
SweepOne(t, r) ==
    /\ pc[t] = "sweep"
    /\ r \in todo[t]
    /\ R!Available(t, r)
    /\ \A s \in Request : ~ RefersTo(s, r)
    /\ IF Live(t, r) THEN R!WriteRow(t, r, Deleted) ELSE UNCHANGED table
    /\ todo' = [todo EXCEPT ![t] = @ \ {r}]
    /\ UNCHANGED <<pc, inputs, answer, result>>

(* ... waits for each row of it, and deletes it if it is still there; what *)
(* ON DELETE CASCADE then finds is deleted in the same way.                *)
Sweep(t, r) ==
    /\ pc[t] = "sweep"
    /\ r \in todo[t]
    /\ R!Available(t, r)
    /\ \A s \in Request : ~ RefersTo(s, r)
    /\ \/ /\ Live(t, r)
          /\ R!WriteRow(t, r, Deleted)
          /\ todo' = [todo EXCEPT ![t] = (@ \ {r}) \cup {c \in Children(r) : Live(t, c)}]
       \/ ~ Live(t, r) /\ todo' = [todo EXCEPT ![t] = @ \ {r}] /\ UNCHANGED table
    /\ UNCHANGED <<pc, inputs, answer, result>>

SweepDone(t) ==
    /\ pc[t] = "sweep"
    /\ todo[t] = {}
    /\ Goto(t, "commit")
    /\ UNCHANGED <<table, inputs, locals>>

-----------------------------------------------------------------------------
(* The end of the transaction                                              *)

(* The client has its answer, and the request is forgotten.                *)
Answer(t) ==
    /\ Goto(t, "idle")
    /\ op' = [op EXCEPT ![t] = "none"]
    /\ id' = [id EXCEPT ![t] = NoRow]
    /\ value' = [value EXCEPT ![t] = Present]
    /\ own' = [own EXCEPT ![t] = TRUE]
    /\ todo' = [todo EXCEPT ![t] = {}]
    /\ answer' = [answer EXCEPT ![t] = Unborn]
    /\ result' = [result EXCEPT ![t] = "ok"]

Commit(t) == pc[t] = "commit" /\ R!CommitRows(t) /\ Answer(t)

Rollback(t) == pc[t] = "rollback" /\ R!RollbackRows(t) /\ Answer(t)

(* The server ends the transaction: the connection is lost, or requests    *)
(* wait for each other.  The answer to a COMMIT may be lost after it took  *)
(* effect.                                                                 *)
Abort(t) ==
    /\ pc[t] # "idle"
    /\ R!RollbackRows(t) \/ (pc[t] = "commit" /\ R!CommitRows(t))
    /\ Answer(t)

Next ==
    \E t \in Request :
        \/ \E c \in Commands : \E r \in TableOf(c), v \in ValuesOf(c), o \in PathsOf(c) :
              Start(t, c, r, v, o)
        \/ Look(t)
        \/ Insert(t)
        \/ Reference(t)
        \/ Find(t)
        \/ Write(t)
        \/ Reread(t)
        \/ Erase(t)
        \/ \E r \in Row : Sweep(t, r)
        \/ SweepDone(t)
        \/ Commit(t)
        \/ Rollback(t)
        \/ Abort(t)

Spec == Init /\ [][Next]_vars

-----------------------------------------------------------------------------
(* Properties                                                              *)

(* The values of the variables: a request holds content and rows of the    *)
(* table that its command is about.                                        *)
TypeOK ==
    /\ db \in [Row -> Content \cup {Unborn, Deleted}]
    /\ owner \in [Row -> Request \cup {NoRequest}]
    /\ dirty \in [Row -> Content \cup {Unborn, Deleted}]
    /\ pc \in [Request -> PCs]
    /\ op \in [Request -> Commands \cup {"none"}]
    /\ id \in [Request -> Row \cup {NoRow}]
    /\ \A t \in Request : pc[t] # "idle" => op[t] # "none" /\ id[t] \in TableOf(op[t])
    /\ value \in [Request -> Content]
    /\ own \in [Request -> BOOLEAN]
    /\ todo \in [Request -> SUBSET Row]
    /\ answer \in [Request -> Content \cup {Unborn}]
    /\ result \in [Request -> Results]

(* No cart, item or favourite outlives what it belongs to, whoever adds to *)
(* a cart, deletes it, its user or the product at the same time.           *)
NoOrphanRows ==
    \A r \in Dependent : Exists(db[r]) => \A p \in Parents(r) : Exists(db[p])

(* Two requests that both look before they insert do not both insert: one  *)
(* cart per user, one item and one favourite per product, one e-mail per   *)
(* user.                                                                   *)
UniqueKeys ==
    \A r \in Row : Exists(db[r]) => \A s \in Twins(r) : ~ Exists(db[s])

(* t is about to answer, its transaction having ended with COMMIT.         *)
Succeeds(t, commands) == op[t] \in commands /\ Commit(t)

(* When a deletion answers success, the row is gone, and so is everything  *)
(* that hung from it, however many tables down.                            *)
RemovedWithAll ==
    [][\A t \in Request :
          Succeeds(t, RemovalsById) =>
              /\ ~ Exists(db'[id[t]])
              /\ \A c \in Children(id[t]) :
                    ~ Exists(db'[c]) /\ \A d \in Children(c) : ~ Exists(db'[d])]_vars

(* When a creation or an update answers success, the row says what the     *)
(* client sent, and an update has answered just that.                      *)
StoredAsSent ==
    [][\A t \in Request :
          /\ Succeeds(t, Creates \cup Updates) => db'[id[t]] = value[t]
          /\ Succeeds(t, Updates) => answer[t] = value[t]]_vars

(* The commands, statement by statement and interleaved, do to the         *)
(* committed tables what the abstract tables do in one step: in            *)
(* particular, a deletion takes at its COMMIT exactly what hangs from its  *)
(* row then, though it found and locked those rows one by one.             *)
References == [r \in Row |-> Parents(r)]
Rivalries == [r \in Row |-> Twins(r)]
Book == INSTANCE CustomerBook WITH
    rows <- db, Refers <- References, Rivals <- Rivalries, Editable <- User \cup Item
ImplementsCustomerBook == Book!Spec

-----------------------------------------------------------------------------
(* The inductive invariant behind the properties above.                    *)

(* Each command executes its own statements only.                          *)
OwnStatements ==
    \A t \in Request :
        /\ pc[t] = "idle" <=> op[t] = "none"
        /\ pc[t] \in {"look", "insert", "reference"} => op[t] \in Creates
        /\ pc[t] = "find" => op[t] \in Updates \cup Removals
        /\ pc[t] \in {"write", "reread"} => op[t] \in Updates
        /\ pc[t] \in {"erase", "sweep"} => op[t] \in Removals
        /\ todo[t] # {} => pc[t] \in {"reference", "sweep", "rollback"}

(* What a lock stands for: the row inserted, updated or deleted.           *)
LocksHeld ==
    \A r \in Row, t \in Request : owner[r] = t =>
        /\ op[t] \in Creates =>
              r = id[t] /\ pc[t] \in {"reference", "commit", "rollback"}
              /\ db[r] = Unborn /\ dirty[r] = value[t]
        /\ op[t] \in Updates =>
              r = id[t] /\ pc[t] \in {"reread", "commit", "rollback"}
              /\ Exists(db[r]) /\ dirty[r] = value[t]
        /\ op[t] \in Removals =>
              pc[t] \in {"sweep", "commit"} /\ Exists(db[r]) /\ dirty[r] = Deleted
        /\ op[t] # "none"

(* The id of a row to be inserted is nobody else's.                        *)
NewIds ==
    \A t \in Request : op[t] \in Creates =>
        /\ db[id[t]] = Unborn
        /\ pc[t] \in {"look", "insert"} => owner[id[t]] = NoRequest
        /\ pc[t] \in {"reference", "commit"} => owner[id[t]] = t
        /\ \A s \in Request \ {t} : op[s] \in Creates => id[s] # id[t]

(* A row that was inserted has no rival, and gets none while it is locked. *)
InsertedAlone ==
    \A t \in Request : op[t] \in Creates /\ owner[id[t]] = t =>
        \A s \in Twins(id[t]) : ~ Exists(db[s]) /\ owner[s] = NoRequest

(* A row that was found can be gone, but not unborn.                       *)
FoundBefore ==
    \A t \in Request :
        /\ op[t] \in Updates \cup RemovalsById
        /\ pc[t] \notin {"find", "rollback"}
        => db[id[t]] # Unborn

(* The rows referred to stay there once they have been checked.            *)
ReferencesHeld ==
    \A t \in Request : op[t] \in Creates /\ pc[t] \in {"reference", "commit"} =>
        /\ todo[t] \subseteq Parents(id[t])
        /\ \A p \in Parents(id[t]) \ todo[t] :
               Exists(db[p]) /\ (owner[p] = NoRequest \/ dirty[p] # Deleted)

(* Whoever deletes a row holds all that hangs from it, or will visit it.   *)
SweepComplete ==
    \A t \in Request, p \in Row : op[t] \in Removals /\ owner[p] = t =>
        \A c \in Children(p) : Exists(db[c]) => c \in todo[t] \/ owner[c] = t

(* ... and nothing else.                                                   *)
SweepExact ==
    \A t \in Request, r \in Row :
        op[t] \in Removals /\ (r \in todo[t] \/ owner[r] = t) =>
            r \in Targets(t) \/ \E p \in Parents(r) : owner[p] = t

(* A command about one row has done its work by the time it commits.       *)
WorkDone ==
    \A t \in Request :
        /\ op[t] \in Updates /\ pc[t] = "reread" =>
              owner[id[t]] = t \/ ~ Exists(db[id[t]])
        /\ op[t] \in Updates /\ pc[t] = "commit" =>
              owner[id[t]] = t /\ answer[t] = value[t]
        /\ (/\ op[t] \in RemovalsById
            /\ pc[t] \in {"sweep", "commit"})
           => owner[id[t]] = t \/ ~ Exists(db[id[t]]) \/ id[t] \in todo[t]

CustomerInv ==
    /\ TypeOK
    /\ OwnStatements
    /\ LocksHeld
    /\ NewIds
    /\ InsertedAlone
    /\ FoundBefore
    /\ ReferencesHeld
    /\ SweepComplete
    /\ SweepExact
    /\ WorkDone
    /\ UniqueKeys
    /\ NoOrphanRows

=============================================================================
