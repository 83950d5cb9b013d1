SPECIFICATION Spec
CONSTANTS
    s1 = s1
    i1 = i1
    i2 = i2
    i3 = i3
    m1 = m1
    m2 = m2
    c1 = c1
    c2 = c2
    a1 = a1
    a2 = a2
    Nil = Nil
    Unused = Unused
    Deleted = Deleted
    Importers = {m1}
    SiteIds = {s1}
    SubnetIds = {1, 2}
    IpIds = {i1, i2}
    SiteNames = {"hq"}
    Cidrs = {c1, c2}
    HostBitCidrs = {}
    Addresses = {a1, a2}
    Hostnames = {"web", "db"}
    Files <- ImportedFiles
    Usable <- MCUsable
    MaxRows = 2
    Clients = TRUE
SYMMETRY Symmetry
INVARIANTS
    TypeOK
    ImportIsComplete
PROPERTIES
    Idempotent
    UpdatesTheRowsAddress
