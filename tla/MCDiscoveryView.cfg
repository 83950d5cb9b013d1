SPECIFICATION ViewSpec
CONSTANTS
    r1 = r1
    i1 = i1
    Nil = Nil
    Replicas = {r1}
    Uids = {1}
    Namespaces = 1
    NamespaceOf <- OneNamespace
    AddressesOf <- TwoAddresses
    Conflicting = {}
    IpIds = {i1}
    IpAddress <- FirstAddress
    Retention = 1
    MaxTime = 1
INVARIANTS
    ViewTypeOK
    ViewsAgree
    MatchesWereExact
    IncompleteOnlyByRemoval
