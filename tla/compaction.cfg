SPECIFICATION Spec
CONSTANTS
    Keys = {1, 2}
    kNumLevels = 4
    kMaxMemCompactLevel = 2
    GrandParentFactor = 1
    ExpandedFactor = 3
    MaxBytesForLevel <- Limits
    MaxWrites = 4
    Uses <- SomeUses
INVARIANTS
    LevelsAreOrdered
    GetIsLatest
    CompactionsEnd
CHECK_DEADLOCK FALSE
