SPECIFICATION Spec
CONSTANTS
    Tasks = {t1, t2}
    Loads <- MCLoads
    GenericPlan = TRUE
    MaxConns = 2
    MaxDepth = 2
SYMMETRY TaskSymmetry
INVARIANTS
    TypeOK
    SerialExplainIsContained
    SessionIsReleased
    RacingSessionsAreReadOnly
    
CHECK_DEADLOCK FALSE
