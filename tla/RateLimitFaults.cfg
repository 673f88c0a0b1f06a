SPECIFICATION FairSpec
CONSTANTS
    r1 = r1
    r2 = r2
    r3 = r3
    i1 = i1
    i2 = i2
    Req <- MCTwoReq
    Ident <- MCOneIdent
    MaxAttempts = 2
    Window = 2
PROPERTY
    LaterComes
