SPECIFICATION AllSpec
CONSTANTS
    None = None
    Keys = {1, 2, 3, 4}
    N = 3
    Duplicates = FALSE
    Threads = {1, 2}
    Files = {1, 2, 3}
    Capacities = {0, 1, 2}
    Slots = {1, 2, 3, 4, 5}
INVARIANTS
    Inv
    ReadsFindNewest
    TablesAreWhole
    CacheIsSound
PROPERTIES
    IsCursor
    AllAreCursors
    NothingHidden
CHECK_DEADLOCK FALSE
