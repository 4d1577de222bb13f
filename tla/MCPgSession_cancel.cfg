SPECIFICATION Spec
CONSTANTS
    Tasks = {t1, t2}
    Loads <- MCCancelling
    GenericPlan = TRUE
    MaxConns = 1
    MaxDepth = 3
SYMMETRY TaskSymmetry
INVARIANTS
    SessionsAreReadOnly
CHECK_DEADLOCK FALSE
