CONSTANTS
    Base = 4
    ReservedTypes = {3}
    Batches <- MCBatches
    Heads <- MCHeads
    Spells <- MCSpells
    LanHeads <- MCLanHeads
    HexNames = {"hex64"}
    MaxToken = 2
    MaxRequests = 1
SPECIFICATION Spec
INVARIANTS InferenceOnly RoutesAgree TokenDecides
PROPERTY DecodesExactly
