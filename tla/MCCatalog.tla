------------------------------- MODULE MCCatalog -------------------------------
(* Small instances of Catalog for TLC.                                     *)
EXTENDS Catalog, TLC

SmallStock == (-1)..2
OneOrMinusOne == {-1, 1}
EachColumn == {{c} : c \in Columns}

(* specs/product.command.yaml: UpdateProductRequest requires is_active.    *)
AllColumns == {Columns}

AllCommands == ProductCommands \cup CategoryCommands

SlotSymmetry ==
    Permutations(Request) \cup Permutations(Product) \cup Permutations(Category)
=============================================================================
