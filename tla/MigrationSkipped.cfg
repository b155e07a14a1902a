SPECIFICATION Spec
CONSTANTS
    p1 = p1
    p2 = p2
    m1 = m1
    m2 = m2
    Replica = {p1, p2}
    Migration = {m1, m2}
    Ships <- TwoReleases
    SchemaCount = 1
    LockKey <- OneKey
    Session = {s1, s2, s3}
    NoSession = NoSession
INVARIANTS
    ServesMigrated
