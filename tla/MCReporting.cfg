SPECIFICATION FairSpec
CONSTANTS
    r1 = r1
    r2 = r2
    n1 = n1
    n2 = n2
    Nil = Nil
    Replicas = {r1, r2}
    Subnets = {n1}
    Cadences = {1, 2}
    Retentions = {1, 2}
    MaxTime = 3
INVARIANTS
    CapturesAreSpaced
    NoBackfill
    LatestIsComplete
PROPERTIES
    WorkGetsDone
