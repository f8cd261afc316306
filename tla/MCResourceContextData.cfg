SPECIFICATION Spec
CONSTANTS
    p1 = p1
    p2 = p2
    r1 = r1
    r2 = r2
    Proxy <- MCProxy
    Request <- MCRequest
    MaxId = 6
SYMMETRY MCSymmetry
CHECK_DEADLOCK FALSE
INVARIANTS
    OwnedWhileNeeded
    IdsUniqueInFactory
