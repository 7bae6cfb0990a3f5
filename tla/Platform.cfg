SPECIFICATION MCSpec
CONSTANTS
    a1 = a1
    u1 = u1
    e1 = e1
    e2 = e2
    i1 = i1
    r1 = r1
    r2 = r2
    None = None
    Hidden = Hidden
    ra = ra
    rb = rb
    rc = rc
    pa = pa
    ua = ua
    c1 = c1
    la = la
    lb = lb
    lc = lc
    na = na
    nb = nb
    ka = ka
    kb = kb
    sa = sa
    sb = sb
    sc = sc
    xa = xa
    xb = xb
    va = va
    NoRole = NoRole
    Missing = Missing
    Ids <- OneId
    Uuids <- OneUuid
    Emails <- TwoEmails
    Identities <- OneIdentity
    Requests <- TwoRequests
    RoleIds <- ThreeRoles
    Permissions <- OnePermission
    Builtin <- OnePermission
    Holders <- OneHolder
    Checks <- OneCheck
    Entries <- ThreeEntries
    Limit = 1
    ExportLimit = 2
    LastMoment = 3
    Nonces <- TwoNonces
    Second = 2
    Tolerance = 4
    Skew = 2
    LastTick = 12
    Clients <- TwoClients
    SocketIds <- ThreeSockets
    Names <- TwoNames
    Values <- OneValue
    Ttl = 2
    LastHour = 4
\* The clocks stop and the ids run out.
CHECK_DEADLOCK FALSE
SYMMETRY Alike
INVARIANTS
    EmailsUnique
    
    LastChangePrevails
    ScrubbedStays
    CheckIsBracketed
    PagesMissNothing
    AcceptedOnce
    BroadcastDelivers
    
PROPERTIES
    IdentityKeepsItsAccount
