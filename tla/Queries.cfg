SPECIFICATION Spec
CONSTANTS
    r1 = r1
    r2 = r2
    r3 = r3
    o1 = o1
    o2 = o2
    Row = {r1, r2, r3}
    Owner = {o1, o2}
    OwnerOf <- OwnerOfDef
    AnyOwner = AnyOwner
    Value = {1, 2, 3}
    Default = 3
    Absent = Absent
    PriceOf <- PriceOfDef
    Least = {0, 2}
    Limit = {1, 2}
    NoRow = NoRow
    MaxCommits = 2
INVARIANTS
    TypeOK
    ExplainedByCommits
    WalkComplete
