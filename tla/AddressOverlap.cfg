SPECIFICATION FairSpec
CONSTANTS
    u1 = u1
    u2 = u2
    a1 = a1
    a2 = a2
    a3 = a3
    r1 = r1
    r2 = r2
    r3 = r3
    NoRequest = NoRequest
    Row = {a1, a2, a3}
    Request = {r1, r2}
    User <- OneUser
    UserOf <- OneUserRows
    Ops <- NoDelete
    Overlap = TRUE
INVARIANTS
    SomeDefault
    AddressInv
PROPERTIES
    SetDefaultTakesEffect
    EveryCommandAnswered
