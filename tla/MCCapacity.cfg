SPECIFICATION Spec
CONSTANTS
    n1 = n1
    n2 = n2
    Width4 = 3
    Width6 = 5
    CounterBits = 4
    Subnets = {n1, n2}
    Offered <- Ends
    MaxUsed = 2
SYMMETRY Symmetry
INVARIANTS
    CapacityIsWhatIsAccepted
    ListFollowsCapacity
    SiteTotalIsSum
