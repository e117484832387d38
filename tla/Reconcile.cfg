SPECIFICATION FairSpec
CONSTANTS
    k1 = k1
    k2 = k2
    a = a
    NoData = NoData
    Keys = {k1, k2}
    Clients = {a}
    Pushes <- TwoPushes
    Batches <- TwoBatches
    Scope <- PullScope
    PageLimit = 2
    Retention = 0
    Ttl = 0
    EmptyHash = 1
    MaxSeq = 2
    MaxNow = 0
PROPERTY
    Reconciles
