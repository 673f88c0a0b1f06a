SPECIFICATION Spec
CONSTANTS
    r1 = r1
    r2 = r2
    r3 = r3
    t1 = t1
    t2 = t2
    Req <- MCReq
    Token <- MCToken
    NoToken = NoToken
    Hash <- MCHash
    SessionTtl = 2
SYMMETRY Symmetry
INVARIANTS
    TypeOK
    RevokedStaysGone
    NoGrantAfterEnd
PROPERTIES
    OnlyOwnLogoutRevokes
    LifeRespected
CHECK_DEADLOCK FALSE
