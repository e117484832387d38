SPECIFICATION FairSpec
CONSTANTS
    OutCapacity = 1
    HandshakeCapacity = 1
    MaxPending = 1
    MaxFailures = 2
    MaxHandshakes = 2
    MaxCounter = 0
CHECK_DEADLOCK FALSE
PROPERTY
    BackpressureEnds
