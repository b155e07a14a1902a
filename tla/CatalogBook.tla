------------------------------ MODULE CatalogBook ------------------------------
(***************************************************************************)
(* The product and category commands for a client that knows nothing of    *)
(* transactions: each takes effect at once or not at all, and a product is *)
(* always in a category that exists.                                       *)
(*                                                                         *)
(* Promised is what specs/product.command.yaml and category.command.yaml   *)
(* describe.  They have a 409 for two requests that the code carries out:  *)
(* an adjustment below zero ("Insufficient stock") and the deletion of a   *)
(* category that has products.  These are the steps of Departure.          *)
(***************************************************************************)
EXTENDS Integers

CONSTANTS
    Product, Category,
    Stock,              \* the stocks that can be stored
    Entered,            \* those that clients enter
    Adjustments,        \* what clients add to a stock
    Unborn, Deleted     \* a product before its creation and after its removal

VARIABLES
    products,           \* products[p]: what product p is
    categories          \* categories[c]: whether category c exists

vars == <<products, categories>>

Entity == [category_id : Category, stock : Stock, is_active : BOOLEAN]

Init ==
    /\ products = [p \in Product |-> Unborn]
    /\ categories = [c \in Category |-> "unborn"]

Exists(p) == products[p] \in Entity

(* Product p becomes e, in a category that exists.                         *)
Store(p, e) ==
    /\ categories[e.category_id] = "live"
    /\ products' = [products EXCEPT ![p] = e]
    /\ UNCHANGED categories

Create(p, e) ==
    /\ products[p] = Unborn
    /\ e.stock \in Entered
    /\ Store(p, e)

(* A client changes columns; the stock becomes what it entered, or stays.  *)
Change(p, e) ==
    /\ Exists(p)
    /\ e.stock \in Entered \cup {products[p].stock}
    /\ Store(p, e)

(* The stock changes by n, and by no other amount.                         *)
AddStock(p, n) ==
    /\ Exists(p)
    /\ products[p].stock + n \in Stock
    /\ Store(p, [products[p] EXCEPT !.stock = @ + n])

Adjust(p, n) == Exists(p) /\ products[p].stock + n >= 0 /\ AddStock(p, n)
Oversell(p, n) == Exists(p) /\ products[p].stock + n < 0 /\ AddStock(p, n)

Delete(p) ==
    /\ Exists(p)
    /\ products' = [products EXCEPT ![p] = Deleted]
    /\ UNCHANGED categories

CreateCategory(c) ==
    /\ categories[c] = "unborn"
    /\ categories' = [categories EXCEPT ![c] = "live"]
    /\ UNCHANGED products

(* A category goes together with the products that are in it then, and     *)
(* with no others.                                                         *)
Remove(c) ==
    /\ categories[c] = "live"
    /\ categories' = [categories EXCEPT ![c] = "deleted"]
    /\ products' = [p \in Product |->
           IF Exists(p) /\ products[p].category_id = c THEN Deleted ELSE products[p]]

Empty(c) == \A p \in Product : Exists(p) => products[p].category_id # c

DeleteCategory(c) == Empty(c) /\ Remove(c)
DeleteWithProducts(c) == ~ Empty(c) /\ Remove(c)

Promised ==
    \/ \E p \in Product :
          \/ \E e \in Entity : Create(p, e) \/ Change(p, e)
          \/ \E n \in Adjustments : Adjust(p, n)
          \/ Delete(p)
    \/ \E c \in Category : CreateCategory(c) \/ DeleteCategory(c)

Departure ==
    \/ \E p \in Product, n \in Adjustments : Oversell(p, n)
    \/ \E c \in Category : DeleteWithProducts(c)

Next == Promised \/ Departure

Spec == Init /\ [][Next]_vars
=============================================================================
