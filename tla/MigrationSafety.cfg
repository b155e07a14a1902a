SPECIFICATION FairSpec
CONSTANTS
    p1 = p1
    p2 = p2
    m1 = m1
    m2 = m2
    Replica = {p1, p2}
    Migration = {m1, m2}
    Ships <- TwoReleases
    SchemaCount = 2
    LockKey <- TwoKeys
    Session = {s1, s2, s3}
    NoSession = NoSession
INVARIANTS
    AppliedOnce
    ServesWhatItMigrated
    MigrationInv
PROPERTIES BootstrapEnds
