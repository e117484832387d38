SPECIFICATION RouterFairSpec
CONSTANTS
    Streams = {1, 3}
    BodyCapacity = 1
    OutCapacity = 1
CHECK_DEADLOCK FALSE
INVARIANTS
    TypeOK
    BodyWhole
    CancelReaches
    EntriesEnd
PROPERTIES
    HandleReturns
    RequestsEnd
