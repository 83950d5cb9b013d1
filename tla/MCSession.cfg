SPECIFICATION FairSpec
CONSTANTS
    q1 = q1
    q2 = q2
    n1 = n1
    n2 = n2
    i1 = i1
    i2 = i2
    a1 = a1
    w1 = w1
    Nil = Nil
    Unused = Unused
    Deleted = Deleted
    Blank = Blank
    Slots = {q1, q2}
    Tokens <- RoleTokens
    AuthEnabled = TRUE
    DiscoveryEnabled = TRUE
    MaxConns = 1
    Subnets = {n1, n2}
    IpIds = {i1, i2}
    Addresses = {a1}
    Hostnames = {w1}
    Stored <- OneRow
    MaxRequests = 2
INVARIANTS
    TypeOK
    CleanExit
    NoStatementAtExit
    PageIsCurrent
    WaitsForAnAnswer
PROPERTIES
    SavesWhereItPoints
    RolesDecide
    InterruptEnds
    PageSettles
CHECK_DEADLOCK FALSE
