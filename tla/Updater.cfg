SPECIFICATION FairUpdateSpec
CONSTANTS
    MaxSpawns = 2
    MaxCommands = 3
CHECK_DEADLOCK FALSE
INVARIANTS
    UpdateTypeOK
    OneSupervisor
    KeyKnown
    StatusTells
    DownloadIsReal
PROPERTY
    KeyComes
