--------------------------- MODULE MCCustomerCommand ---------------------------
(* Small instances of CustomerCommand for TLC.                             *)
EXTENDS CustomerCommand, TLC

CONSTANTS u1, p1, k1, OneEmail

(* Carts and favourites of the user who is there from the start; a second  *)
(* one with the same e-mail; items of one cart; one product.               *)
FirstUser == [r \in Cart \cup Favourite |-> u1]
FirstCart == [r \in Item |-> k1]
OnlyProduct == [r \in Item \cup Favourite |-> p1]
SharedEmail == [u \in User |-> OneEmail]
AllThere == {u1, p1}

AllCommands == Creates \cup Updates \cup Removals

SlotSymmetry == Permutations(Request) \cup Permutations(Favourite)
=============================================================================
