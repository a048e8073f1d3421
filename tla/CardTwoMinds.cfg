SPECIFICATION Spec
CONSTANTS
    Names = {m1, m2}
    BadName = BadName
    Pairs = {own, p1, p2, p3}
    Own = own
    NoPair = NoPair
    ClubKeys = {g1, g2}
SYMMETRY Symmetry
CHECK_DEADLOCK FALSE
INVARIANT PassesHerePassesThere
