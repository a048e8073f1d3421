SPECIFICATION Spec
CONSTANTS
    Deliveries = {d1, d2, d3, d4}
    Genuine = {d1, d2, d3}
    Scale = 2
    Skew = 1
    NonceTTL = 2
    Stamp = 2
    MaxClock = 11
SYMMETRY Symmetry
CHECK_DEADLOCK FALSE
INVARIANT ReuseBounded
INVARIANT NoFalseReplay
INVARIANT AcceptsAreApart
