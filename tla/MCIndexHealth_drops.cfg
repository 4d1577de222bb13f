SPECIFICATION Spec
CONSTANTS
    u1 = u1
    i1 = i1
    i2 = i2
    Null = Null
    Indexes = {u1, i1, i2}
    Unique = {u1}
    Reserved = {}
    MatureAge = 1
    MaxAge = 1
    MaxScans = 1
SYMMETRY PlainSymmetry
INVARIANTS
    TypeOK
    ListsAgree
PROPERTIES
    DropsAreCovered
CHECK_DEADLOCK FALSE
