SPECIFICATION FairSpec
CONSTANTS
    Collections = {chats, personas}
    MaxKeys = 2
    MaxVersion = 2
    MaxFailures = 5
    chats = chats
    personas = personas
INVARIANTS
    TypeOK
    ServedReadable
    NoPlaintext
PROPERTIES
    OnlyForeignMoved
    Recovers
    ImplementsCollections
CHECK_DEADLOCK FALSE
