SPECIFICATION FairSpec
CONSTANTS
    Request = {r1, r2}
    Conn = {c1, c2, c3}
    NoConn = NoConn
    Kinds <- AllKinds
    SetupMayFail = TRUE
INVARIANTS
    ConnectionsAccounted
    OkMeansDurable
    JoinedWithCaller
    PublishedAfterCommit
    NoPoolDeadlock
    FrameInv
PROPERTIES
    ImplementsAtomicMethods
    EveryRequestAnswered
