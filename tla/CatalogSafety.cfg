SPECIFICATION Spec
CONSTANTS
    Product = {p1}
    Category = {c1, c2}
    Request = {r1, r2}
    NoRequest = NoRequest
    Unborn = Unborn
    Deleted = Deleted
    Stock <- SmallStock
    Entered = {1}
    Adjustments <- OneOrMinusOne
    Patched <- EachColumn
    Put <- AllColumns
    NoRow = NoRow
    Commands <- AllCommands
SYMMETRY SlotSymmetry
INVARIANTS
    NoOrphans
    CatalogInv
PROPERTIES
    NoLostUpdate
    StockAnswered
    ImplementsCatalogBook
