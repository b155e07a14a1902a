SPECIFICATION FairSpec
CONSTANTS
    Request = {r1, r2}
    Conn = {c1, c2}
    NoConn = NoConn
    Kinds <- AllKinds
    SetupMayFail = FALSE
PROPERTIES
    RequiresNewStarts
