SPECIFICATION Spec
CONSTANTS
    u1 = u1
    t1 = t1
    t2 = t2
    t3 = t3
    t4 = t4
    r1 = r1
    r2 = r2
    Users <- OneUser
    Tokens <- FourTokens
    Requests <- TwoRequests
    NoToken = NoToken
    AccessLife = 1
    RefreshLife = 2
    MaxTime = 3
    SessionBound = TRUE
\* The clock stops at MaxTime and the jtis run out.
CHECK_DEADLOCK FALSE
SYMMETRY Alike
INVARIANT ConsumedOnce
PROPERTIES
    RevokedIsRefused
    KeepsItsSessions
