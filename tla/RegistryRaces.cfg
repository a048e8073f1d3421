SPECIFICATION Spec
CONSTANTS
    Keys = {a, b, c}
    NoKey = NoKey
    Requests = {q1, q2, q3}
    Stale = 1
    Ttl = 3
    MaxClock = 7
CHECK_DEADLOCK FALSE
SYMMETRY Symmetry
INVARIANT SeenIsOnFile
INVARIANT OutsidersStayOut
PROPERTY OwnerOnly
