SPECIFICATION Spec
CONSTANTS
    r1 = r1
    r2 = r2
    i1 = i1
    i2 = i2
    Nil = Nil
    Replicas = {r1, r2}
    Uids = {1, 2}
    Namespaces = 2
    NamespaceOf <- TwoNamespaces
    AddressesOf <- NoAddress
    Conflicting = {}
    IpIds = {}
    IpAddress <- AllMatch
    Retention = 1
    MaxTime = 1
SYMMETRY Symmetry
INVARIANTS
    OneTransaction
PROPERTIES
    PublishesCompleteListings
    KeptForRetention
