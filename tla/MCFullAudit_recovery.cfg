SPECIFICATION FairSpec
CONSTANTS
    q1 = q1
    q2 = q2
    c1 = c1
    c2 = c2
    c3 = c3
    r1 = r1
    u1 = u1
    p1 = p1
    p2 = p2
    p3 = p3
    db1 = db1
    db2 = db2
    lower = lower
    upper = upper
    junk = junk
    None = None
    InvalidId = InvalidId
    RunIds = {r1, u1}
    Databases = {db1, db2}
    Requests = {q1}
    Creators = {c1, c2}
    Servers = {p1, p2}
    DatabaseOf <- MCDatabaseOf
    Spellings = {lower, upper, junk}
    IdOf <- MCIdOf
    FreshIdOf <- MCFresh
    MayDelete = TRUE
    Retention = 1
    Tombstone = 1
    LockWait = 0
    AuditLimit = 2
    LastClaim = 3
    LastTick = 5
INVARIANTS
    ErrorIsOnRecord
    RecoverableWhenAnswered
PROPERTIES
    NoRunStaysStarted
CHECK_DEADLOCK FALSE
