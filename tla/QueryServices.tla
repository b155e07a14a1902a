----------------------------- MODULE QueryServices -----------------------------
(***************************************************************************)
(* The query services and their DAOs.  A request runs one to three SELECTs *)
(* in a READ COMMITTED transaction; commands of other requests commit in   *)
(* between, so that the parts of one answer, and the pages of one listing, *)
(* are read from different states of the table.                            *)
(*                                                                         *)
(* Readers write nothing and do not meet: one reader is enough.  It works  *)
(* on one table at a time, which is the table variable here.  A row is     *)
(* reduced to the column by which it is selected (a constant: user_id,     *)
(* cart_id, category_id) and the one column its query looks at.            *)
(***************************************************************************)
EXTENDS FiniteSets, Integers, SequencesExt

CONSTANTS
    Row,        \* the ids of the rows of the table
    Owner,      \* the users, carts or categories
    OwnerOf,    \* OwnerOf[r]: the user, cart or category of row r
    AnyOwner,   \* the category_id of a client that sends none
    Value,      \* quantity of an item, the sort column of a product
    Default,    \* the value of an address with is_default
    Absent,     \* the value of a row that does not exist
    PriceOf,    \* PriceOf[r]: the price stored with item r
    Least,      \* the lower bounds that clients ask for; 0 is none
    Limit,      \* the page sizes that clients ask for
    NoRow,
    MaxCommits  \* bound on the commits during one request or walk

ASSUME NullsAssumption == NoRow \notin Row /\ AnyOwner \notin Owner
ASSUME RowAssumption == IsFiniteSet(Row)
ASSUME ValueAssumption == Value \subseteq Nat /\ Default \in Value /\ Absent \notin Value
ASSUME ColumnsAssumption == OwnerOf \in [Row -> Owner] /\ PriceOf \in [Row -> Nat]
ASSUME LimitAssumption ==
    0 \in Least /\ Least \subseteq Nat /\ Limit \subseteq Nat \ {0} /\ MaxCommits \in Nat

Collections == {"getAddressesByUserId", "getCartItems", "getFavouritesByUserId"}
Tables == {"getAllUsers", "listCategories"}
Listings == {"listProducts", "getProductsByCategory"}
ByOwner == {"getDefaultAddress", "getCartByUserId", "getUserByEmail", "isFavourited"}
ById == {"getAddressById", "getCartItemById", "getFavouriteById", "getProductById",
         "getCategoryById", "getUserById"}

(* The statements of each service method, in the order of its awaits.      *)
getAddressesByUserId == <<"items", "total", "default">>
getAddressById == <<"item">>
getDefaultAddress == <<"item">>
getCartByUserId == <<"item">>
getCartItems == <<"items", "total", "price">>
getCartItemById == <<"item">>
getFavouritesByUserId == <<"items", "total">>
getFavouriteById == <<"item">>
isFavourited == <<"item">>
getProductById == <<"item">>
listProducts == <<"items", "total">>
getProductsByCategory == <<"items", "total">>
listCategories == <<"items">>    \* its total and total_pages count the items
getCategoryById == <<"item">>
getUserByEmail == <<"item">>
getAllUsers == <<"items">>
getUserById == <<"item">>

Body == [getAddressesByUserId |-> getAddressesByUserId, getAddressById |-> getAddressById,
         getDefaultAddress |-> getDefaultAddress, getCartByUserId |-> getCartByUserId,
         getCartItems |-> getCartItems, getCartItemById |-> getCartItemById,
         getFavouritesByUserId |-> getFavouritesByUserId,
         getFavouriteById |-> getFavouriteById, isFavourited |-> isFavourited,
         getProductById |-> getProductById, listProducts |-> listProducts,
         getProductsByCategory |-> getProductsByCategory,
         listCategories |-> listCategories, getCategoryById |-> getCategoryById,
         getUserByEmail |-> getUserByEmail, getAllUsers |-> getAllUsers,
         getUserById |-> getUserById]
Operations == DOMAIN Body

VARIABLES
    table,      \* table[r]: the committed content of row r
    op, arg,    \* the request: its operation and what the client sent
    pc,         \* the statement that is executed next
    page,       \* the page asked for
    items,      \* the rows read, in the order of the answer, with their values
    total,      \* total, total_items, total_addresses, total_favourites
    extra,      \* default_address_id or total_price
    changed,    \* history: the rows changed since the request's first statement
    seen,       \* history: how often the walk through the pages met each row
    steady,     \* history: the rows in the result since the walk began
    disturbed,  \* history: a row left the result or moved, or its order is open
    commits     \* history: the number of commits since the walk began

request == <<op, arg, page>>
reply == <<items, total, extra>>
history == <<seen, steady, disturbed, commits>>
vars == <<table, pc, request, reply, changed, history>>

Statements == {"items", "total", "default", "price", "item"}
PCs == Statements \cup {"idle", "answer", "walked"}
Args == [of: Owner \cup {AnyOwner}, row: Row \cup {NoRow}, least: Nat,
         limit: Nat, descending: BOOLEAN]

(* Where the method goes on after the statement that has just been run.    *)
Continue ==
    LET body == Body[op]
        i == CHOOSE i \in DOMAIN body : body[i] = pc
    IN pc' = IF i = Len(body) THEN "answer" ELSE body[i + 1]

Exists(tab, r) == tab[r] # Absent

(* The WHERE clause: the owner, if one is asked for, and the client's lower*)
(* bound, which stands for every filter on a column of a product.          *)
Matches(tab, a, r) ==
    /\ Exists(tab, r)
    /\ a.of \in {AnyOwner, OwnerOf[r]}
    /\ tab[r] >= a.least
Found(tab, a) == {r \in Row : Matches(tab, a, r)}

Ids(its) == {its[i].id : i \in DOMAIN its}
Forget == items' = <<>> /\ total' = 0 /\ extra' = NoRow

NoArg == [of |-> AnyOwner, row |-> NoRow, least |-> 0, limit |-> 1, descending |-> TRUE]
NoTable == [r \in Row |-> Absent]
Never == [r \in Row |-> 0]

Init ==
    /\ table = NoTable
    /\ pc = "idle"
    /\ op = "none" /\ arg = NoArg /\ page = 1
    /\ items = <<>> /\ total = 0 /\ extra = NoRow
    /\ changed = {}
    /\ seen = Never /\ steady = {} /\ disturbed = FALSE /\ commits = 0

(* Between two requests there is no table of interest, and nothing is      *)
(* remembered.                                                             *)
Idle ==
    /\ table' = NoTable
    /\ pc' = "idle"
    /\ op' = "none" /\ arg' = NoArg /\ page' = 1
    /\ Forget
    /\ changed' = {}
    /\ seen' = Never /\ steady' = {} /\ disturbed' = FALSE /\ commits' = 0

-----------------------------------------------------------------------------
(* The order of a listing: ORDER BY one column, which leaves the order of  *)
(* equal values to the database, differently for every statement.          *)

InOrder(tab, a, r, s) == IF a.descending THEN tab[r] >= tab[s] ELSE tab[r] <= tab[s]

Ordered(tab, a) ==
    {seq \in SetToSeqs(Found(tab, a)) :
        \A i, j \in DOMAIN seq : i < j => InOrder(tab, a, seq[i], seq[j])}

Ties(tab, a) == \E r, s \in Found(tab, a) : r # s /\ tab[r] = tab[s]

WithValues(seq) == [i \in DOMAIN seq |-> [id |-> seq[i], value |-> table[seq[i]]]]

-----------------------------------------------------------------------------
(* Requests                                                                *)

(* What clients send with each operation.                                  *)
ArgsOf(o) ==
    {a \in [of: Owner \cup {AnyOwner}, row: Row \cup {NoRow}, least: Least,
            limit: Limit, descending: BOOLEAN] :
        /\ (o \in ById) = (a.row # NoRow)
        /\ o \in Tables \cup (ById \ {"getCartItemById"}) => a.of = AnyOwner
        /\ o \in Collections \cup ByOwner \cup {"getCartItemById", "getProductsByCategory"}
              => a.of # AnyOwner
        /\ o # "listProducts" => a.least = 0
        /\ o \notin Listings => a.descending /\ a.limit = CHOOSE l \in Limit : TRUE}

(* A request arrives, at whatever the table holds by then.                 *)
Start ==
    /\ pc = "idle"
    /\ \E o \in Operations : \E a \in ArgsOf(o), tab \in [Row -> Value \cup {Absent}] :
          /\ table' = tab
          /\ op' = o /\ arg' = a
          /\ pc' = Body[o][1]
          /\ steady' = IF o \in Listings THEN Found(tab, a) ELSE {}
          /\ disturbed' = (o \in Listings /\ Ties(tab, a))
    /\ UNCHANGED <<page, reply, changed, seen, commits>>

(* Meanwhile: the transaction of a command commits, which changed one row, *)
(* or two (the default address moves).                                     *)
CommitElsewhere ==
    /\ pc \in Statements \/ (pc = "answer" /\ op \in Listings)
    /\ commits < MaxCommits
    /\ \E S \in SUBSET Row :
          /\ Cardinality(S) \in {1, 2}
          /\ \E new \in [S -> Value \cup {Absent}] :
                /\ \A r \in S : new[r] # table[r]
                /\ table' = [r \in Row |-> IF r \in S THEN new[r] ELSE table[r]]
          /\ changed' = changed \cup S
          /\ steady' = steady \ S
          /\ disturbed' = (op \in Listings /\ (\/ disturbed
                                               \/ S \cap Found(table, arg) # {}
                                               \/ Ties(table', arg)))
    /\ commits' = commits + 1
    /\ UNCHANGED <<pc, request, reply, seen>>

-----------------------------------------------------------------------------
(* Statements                                                              *)

(* find({where, order}) of a collection, find() of a whole table.  The     *)
(* default addresses come first.                                           *)
FindAll ==
    /\ pc = "items" /\ op \in Collections \cup Tables
    /\ \E seq \in SetToSeqs(Found(table, arg)) :
          /\ op = "getAddressesByUserId" => \A i, j \in DOMAIN seq :
                table[seq[j]] = Default /\ i < j => table[seq[i]] = Default
          /\ items' = WithValues(seq)
    /\ total' = IF op \in Tables THEN Cardinality(Found(table, arg)) ELSE total
    /\ Continue
    /\ changed' = {}
    /\ UNCHANGED <<table, request, extra, history>>

(* skip and take: the first statement of getManyAndCount.  The library may *)
(* do without the second, COUNT, after a page that is not full: it ends the*)
(* result, unless it is an empty one that is not the first.                *)
FindPage ==
    /\ pc = "items" /\ op \in Listings
    /\ LET skip == (page - 1) * arg.limit
       IN /\ \E seq \in Ordered(table, arg) :
                items' = WithValues(SubSeq(seq, skip + 1,
                             IF skip + arg.limit < Len(seq) THEN skip + arg.limit ELSE Len(seq)))
          /\ \/ Continue /\ UNCHANGED total
             \/ /\ Len(items') < arg.limit /\ (page = 1 \/ items' # <<>>)
                /\ pc' = "answer"
                /\ total' = skip + Len(items')
    /\ changed' = {}
    /\ UNCHANGED <<table, request, extra, history>>

(* Mutant: the aggregate forgets whose rows it is about.                   *)
CountOfAll ==
    /\ pc = "total"
    /\ LET all == {r \in Row : Exists(table, r)}
       IN total' = IF op = "getCartItems" THEN SumFunctionOnSet(table, all) ELSE Cardinality(all)
    /\ Continue
    /\ UNCHANGED <<table, request, items, extra, changed, history>>

(* COUNT, or the SUM of the quantities in a cart.                          *)
Count ==
    /\ pc = "total"
    /\ LET found == Found(table, arg)
       IN total' = IF op = "getCartItems" THEN SumFunctionOnSet(table, found)
                   ELSE Cardinality(found)
    /\ Continue
    /\ UNCHANGED <<table, request, items, extra, changed, history>>

Defaults(tab, a) == {r \in Found(tab, a) : tab[r] = Default}

(* findOne among the default addresses of the user: any of them.           *)
FindDefault ==
    /\ pc = "default"
    /\ IF Defaults(table, arg) = {} THEN extra' = NoRow
       ELSE extra' \in Defaults(table, arg)
    /\ Continue
    /\ UNCHANGED <<table, request, items, total, changed, history>>

(* SUM(quantity * price).                                                  *)
TotalPrice ==
    /\ pc = "price"
    /\ extra' = SumFunction([r \in Found(table, arg) |-> table[r] * PriceOf[r]])
    /\ Continue
    /\ UNCHANGED <<table, request, items, total, changed, history>>

(* findOne picks row r: by the owner, or by the id; the item of another    *)
(* cart is not found either.                                               *)
Wanted(r) ==
    CASE op = "getDefaultAddress" -> r \in Defaults(table, arg)
      [] op \in ByOwner -> Matches(table, arg, r)
      [] op = "getCartItemById" -> r = arg.row /\ Matches(table, arg, r)
      [] OTHER -> r = arg.row /\ Exists(table, r)

(* The row, or 404; isFavourited answers in both cases.                    *)
FindOne ==
    /\ pc = "item"
    /\ LET found == {r \in Row : Wanted(r)}
       IN IF found = {} THEN items' = <<>>
          ELSE \E r \in found : items' = WithValues(<<r>>)
    /\ Continue
    /\ UNCHANGED <<table, request, total, extra, changed, history>>

(* A statement fails: 500, and no part of the answer is sent.              *)
Fail ==
    /\ pc \in Statements
    /\ Idle

-----------------------------------------------------------------------------
(* Answers                                                                 *)

(* Mutant: one page too many.                                              *)
TotalPagesPlus == total \div arg.limit + 1

(* Mutant: the last page is not counted when it is not full.               *)
TotalPagesFloor == total \div arg.limit

(* Math.ceil(total / limit).                                               *)
TotalPages == (total + arg.limit - 1) \div arg.limit

(* The transaction is closed and the answer sent.  A client of a listing   *)
(* asks for the next page until it has all that there are.                 *)
Answer ==
    /\ pc = "answer" /\ op \notin Listings
    /\ Idle

AnswerPage ==
    /\ pc = "answer" /\ op \in Listings
    /\ seen' = [r \in Row |-> seen[r] + IF r \in Ids(items) THEN 1 ELSE 0]
    /\ IF page < TotalPages
       THEN pc' = "items" /\ page' = page + 1
       ELSE pc' = "walked" /\ UNCHANGED page
    /\ Forget
    /\ UNCHANGED <<table, op, arg, changed, steady, disturbed, commits>>

EndOfWalk ==
    /\ pc = "walked"
    /\ Idle

Next ==
    \/ Start
    \/ CommitElsewhere
    \/ FindAll \/ FindPage \/ Count \/ FindDefault \/ TotalPrice \/ FindOne
    \/ Fail
    \/ Answer \/ AnswerPage \/ EndOfWalk

Spec == Init /\ [][Next]_vars

-----------------------------------------------------------------------------
(* Properties                                                              *)

(* Every variable keeps its type; no walk asks for more pages than there   *)
(* can be rows.                                                            *)
TypeOK ==
    /\ table \in [Row -> Value \cup {Absent}]
    /\ pc \in PCs
    /\ arg \in Args
    /\ page \in 1 .. 1 + Cardinality(Row)
    /\ page > 1 => page <= Cardinality(Row)
    /\ Ids(items) \subseteq Row /\ total \in Nat
    /\ extra \in Row \cup {NoRow} \cup Nat
    /\ changed \subseteq Row /\ steady \subseteq Row
    /\ seen \in [Row -> Nat] /\ disturbed \in BOOLEAN /\ commits \in 0 .. MaxCommits

(* The items that nobody changed since they were read, and what was read.  *)
Kept == Ids(items) \ changed
Amount(r) == items[CHOOSE i \in DOMAIN items : items[i].id = r].value

(* The parts of an answer are read by separate statements.  Where they     *)
(* disagree, it is about rows that a command changed in between: the total *)
(* differs from the number of items by no more than those rows, a cart's   *)
(* totals cover every item that was not touched, and default_address_id is *)
(* one of the items marked as default unless that address was touched.     *)
ExplainedByCommits == pc = "answer" =>
    CASE op \in {"getAddressesByUserId", "getFavouritesByUserId"} \cup Listings ->
            /\ op \notin Listings =>
                 /\ total - Len(items) <= Cardinality(changed)
                 /\ Len(items) - total <= Cardinality(changed)
            /\ op = "getAddressesByUserId" =>
                 IF extra = NoRow THEN \A r \in Kept : Amount(r) # Default
                 ELSE extra \in changed \/ (extra \in Kept /\ Amount(extra) = Default)
            /\ op \in Listings => Cardinality(Kept) <= total
      [] op = "getCartItems" ->
            /\ SumFunction([r \in Kept |-> Amount(r)]) <= total
            /\ SumFunction([r \in Kept |-> Amount(r) * PriceOf[r]]) <= extra
            /\ changed = {} => total = SumFunction([r \in Kept |-> Amount(r)])
      [] OTHER -> TRUE

(* A client that asks for page after page until total_pages meets every    *)
(* row that was in the result all the time, whatever was inserted into it  *)
(* meanwhile, and every row exactly once if nothing was; provided that no  *)
(* row left the result or moved in it, and that no two rows have the same  *)
(* place in the order.                                                     *)
WalkComplete == pc = "walked" /\ ~ disturbed =>
    \A r \in steady : seen[r] >= 1 /\ (commits = 0 => seen[r] = 1)

=============================================================================
