SPECIFICATION Spec
CONSTANTS
    Slots = {s1, s2}
    Contents = {c1}
    MaxKeys = 2
    MaxFaults = 1
    Paths = {"soul_crystallization", "soul_forge"}
    None = None
SYMMETRY Perms
INVARIANTS
    SignatureHolds
    KeyOutlivesBirth
PROPERTIES
    BackwardsOnlyIfStale
CHECK_DEADLOCK FALSE
