SPECIFICATION Spec
CONSTANTS
    Tasks = {t1, t2}
    Loads <- MCStill
    GenericPlan = FALSE
    MaxConns = 1
    MaxDepth = 3
SYMMETRY TaskSymmetry
INVARIANTS
    PreparedIsScoped
CHECK_DEADLOCK FALSE
