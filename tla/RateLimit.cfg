SPECIFICATION FairSpec
CONSTANTS
    r1 = r1
    r2 = r2
    r3 = r3
    i1 = i1
    i2 = i2
    Req <- MCReq
    Ident <- MCIdent
    MaxAttempts = 2
    Window = 2
INVARIANTS
    TypeOK
    AdmitBudget
    TtlCovered
PROPERTY
    LockoutEnds
