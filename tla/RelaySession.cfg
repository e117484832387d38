SPECIFICATION Spec
CONSTANTS
    OutCapacity = 1
    HandshakeCapacity = 1
    MaxPending = 2
    MaxFailures = 2
    MaxHandshakes = 2
    MaxCounter = 1
CHECK_DEADLOCK FALSE
INVARIANTS
    TypeOK
    HalvesAgree
PROPERTY
    HeldFramesOpened
