CONSTANTS
    Clients = {c1, c2}
    Ids = {a}
    MaxTime = 2
    MaxEdits = 3
    MaxFaults = 2
    MaxWipes = 1
SPECIFICATION LegacySpec
INVARIANT NotDisplaced
PROPERTY Converges
