SPECIFICATION Spec
CONSTANTS
    Null = Null
    a = a
    b = b
    Tables = {a, b}
    LargeRows = 1
    HugeRows = 2
    MinScans = 2
    Limit = 1
    MaxRead = 2
    MinDead = 1
    StaleDead = 2
    StaleHours = 1
    MaxRows = 3
    MaxDead = 3
    MaxScans = 8
    MaxHour = 3
    InitialSettings <- MCSettings
    MaxConnections = 24
    Superuser = 3
    RoleReserved = {0, 1}
SYMMETRY TableSymmetry
INVARIANTS
    ScanRulesAgree
    FollowedAdvice
    ExhaustionIsReported
PROPERTIES
    WorseIsNotMilder
CHECK_DEADLOCK FALSE
