SPECIFICATION Spec
CONSTANTS
    r1 = r1
    w1 = w1
    w2 = w2
    Readers <- OneReader
    Writers <- TwoWriters
    Subjects = {"user"}
    Ttl = 1
    MaxPause = 1
    Faults = TRUE
SYMMETRY WritersAlike
INVARIANTS
    BoundedStaleness
