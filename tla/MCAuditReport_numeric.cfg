SPECIFICATION Spec
CONSTANTS
    t1 = t1
    t2 = t2
    t3 = t3
    mine = mine
    theirs = theirs
    app = app
    other = other
    NoRelation = NoRelation
    AnySchema = AnySchema
    NoPlan = NoPlan
    Relations = {mine, theirs}
    Schemas = {app, other}
    SchemaOf <- MCSchemaOf
    CatalogRows <- MCCatalogRows
    ManyRows = 2
    HugeRows = 4
    LoopRows = 1
    Factor = 2
    Texts = {t1, t2, t3}
    PlansOf <- MCPlansOf
    MaxSlow = 1
    MaxCandidates = 1
    Others <- MCOthers
INVARIANTS
    CleanAuditIsRecorded
CHECK_DEADLOCK FALSE
