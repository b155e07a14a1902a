SPECIFICATION ConsumerFairSpec
CONSTANTS
    t1 = t1
    t2 = t2
    m2 = m2
    m1 = m1
    Tenant = {t1, t2}
    Pool = {p1, p2, p3, p4}
    NoPool = NoPool
    NoTenant = NoTenant
    Request = {s1, s2}
    Message = {m1, m2}
    Invalid = Invalid
    Deliveries <- DeliveriesDef
    NoMessage = NoMessage
    PoolSize = 2
    MaxFailures = 1
INVARIANTS
    ServedByOwnTenant
    PoolsBounded
    ConsumerTypeOK
    DeletedOnlyIfQueried
    ConnectionsReleased
PROPERTIES
    Handled
CHECK_DEADLOCK FALSE
