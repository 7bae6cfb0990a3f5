SPECIFICATION Spec
CONSTANTS
    k1 = k1
    k2 = k2
    k3 = k3
    r1 = r1
    r2 = r2
    r3 = r3
    Keys <- ThreeKeys
    Requests <- ThreeRequests
    Life = 2
SYMMETRY Alike
INVARIANTS
    OneActivePerLine
    LineKeepsItsTerm
PROPERTIES
    RevocationIsFinal
    KeepsItsLines
