SPECIFICATION Spec
CONSTANTS
    Handshakes = {h1, h2}
    Bodies = {b1, b2}
    MaxCounter = 2
    MaxFrames = 3
SYMMETRY Symmetry
CONSTRAINT FewFrames
CHECK_DEADLOCK FALSE
INVARIANTS TypeOK EndsAgree NonceOnce
PROPERTY ImplementsStream
