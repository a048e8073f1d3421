SPECIFICATION Spec
CONSTANTS
    N = 4
    PageLimit = 2
    MaxNodePages = 3
    StatsPageLimit = 2
    StatsMaxPages = 2
    StatsMaxGets = 3
    MaxChanges = 2
CHECK_DEADLOCK FALSE
INVARIANT ListedOnce
INVARIANT CompleteListHasAll
INVARIANT UnmarkedStatsCountAll
