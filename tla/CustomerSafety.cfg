SPECIFICATION Spec
CONSTANTS
    u1 = u1
    k1 = k1
    p1 = p1
    OneEmail = OneEmail
    User = {u1, u2}
    Product = {p1}
    Cart = {k1, k2}
    Item = {i1}
    Favourite = {f1, f2}
    UserOf <- FirstUser
    CartOf <- FirstCart
    ProductOf <- OnlyProduct
    EmailOf <- SharedEmail
    Name = {n1, n2}
    Quantity = {q1}
    Present = Present
    Unborn = Unborn
    Deleted = Deleted
    Initial <- AllThere
    Request = {r1, r2}
    NoRequest = NoRequest
    NoRow = NoRow
    Commands <- AllCommands
SYMMETRY SlotSymmetry
INVARIANTS
    NoOrphanRows
    UniqueKeys
    CustomerInv
PROPERTIES
    RemovedWithAll
    StoredAsSent
    ImplementsCustomerBook
