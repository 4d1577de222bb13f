SPECIFICATION Spec
CONSTANTS
    Tasks = {t1, t2}
    Loads <- MCOverlapping
    GenericPlan = TRUE
    MaxConns = 1
    MaxDepth = 3
SYMMETRY TaskSymmetry
INVARIANTS
    ExplainIsContained
CHECK_DEADLOCK FALSE
