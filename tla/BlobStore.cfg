SPECIFICATION Spec
CONSTANTS
    h1 = h1
    h2 = h2
    d1 = d1
    u1 = u1
    u2 = u2
    NoHash = NoHash
    Hashes = {h1, h2}
    Docs = {d1}
    Uploads = {u1, u2}
    Grace = 1
    MaxNow = 2
SYMMETRY Symmetric
INVARIANTS
    TypeOK
    RefsHaveRows
    PhantomsAreStruck
PROPERTY
    YoungRowsStay
