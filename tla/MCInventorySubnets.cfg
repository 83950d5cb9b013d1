SPECIFICATION Spec
CONSTANTS
    s1 = s1
    north = north
    south = south
    s2 = s2
    n1 = n1
    n2 = n2
    i1 = i1
    i2 = i2
    w1 = w1
    w2 = w2
    p1 = p1
    p2 = p2
    c1 = c1
    c2 = c2
    a1 = a1
    a2 = a2
    Nil = Nil
    Unused = Unused
    Deleted = Deleted
    SiteIds = {s1, s2}
    SubnetIds = {n1}
    IpIds = {}
    SiteNames = {north, south}
    Cidrs = {c1, c2}
    HostBitCidrs = {c2}
    Addresses = {a1}
    Hostnames = {w1}
    Procs = {p1, p2}
    Ops <- SubnetOps
    Usable <- MCUsable
SYMMETRY Symmetry
INVARIANTS
    TypeOK
PROPERTIES
    SiteClearedOnlyByDeletion
    TablesSpec
