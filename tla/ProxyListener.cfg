CONSTANTS
    Ports = {p1, p2}
    MaxSpawns = 2
SPECIFICATION Spec
PROPERTY ChangesApply
CHECK_DEADLOCK FALSE
