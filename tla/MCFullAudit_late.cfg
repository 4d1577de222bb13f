SPECIFICATION Spec
CONSTANTS
    q1 = q1
    q2 = q2
    c1 = c1
    c2 = c2
    c3 = c3
    r1 = r1
    u1 = u1
    p1 = p1
    p2 = p2
    p3 = p3
    db1 = db1
    db2 = db2
    lower = lower
    upper = upper
    junk = junk
    None = None
    InvalidId = InvalidId
    RunIds = {r1}
    Databases = {db1, db2}
    Requests = {q1, q2}
    Creators = {c1, c2}
    Servers = {p1, p2}
    DatabaseOf <- MCDatabaseOf
    Spellings = {lower}
    IdOf <- MCIdOfValid
    FreshIdOf <- MCAlwaysNamed
    MayDelete = FALSE
    Retention = 1
    Tombstone = 1
    LockWait = 0
    AuditLimit = 4
    LastClaim = 3
    LastTick = 4
INVARIANTS
    NoForeignDatabase
CHECK_DEADLOCK FALSE
