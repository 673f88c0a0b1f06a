SPECIFICATION Spec
CONSTANTS
    r1 = r1
    r2 = r2
    t1 = t1
    t2 = t2
    i1 = i1
    Req <- MCReq
    Ident <- MCIdent
    MaxAttempts = 1
    Window = 1
    Token <- MCToken
    NoToken = NoToken
    Hash <- MCHash
    SessionTtl = 2
SYMMETRY Symmetry
INVARIANTS
    TypeOK
    CookiePair
    SessionsAudited
    LogoutGuarded
PROPERTIES
    LimiterRespected
    SessionsRespected
    ForgottenForCause
CHECK_DEADLOCK FALSE
