SPECIFICATION Spec
CONSTANTS
    k1 = k1
    k2 = k2
    a = a
    NoData = NoData
    Keys = {k1, k2}
    Clients = {a}
    Pushes <- PullPushes
    Batches <- PullBatches
    Scope <- PullScope
    PageLimit = 1
    Retention = 0
    Ttl = 0
    EmptyHash = 1
    MaxSeq = 3
    MaxNow = 1
INVARIANTS
    TypeOK
    FloorExact
    CursorComplete
    StoredIsNewest
PROPERTY
    RowsOnlyMoveUp
