SPECIFICATION Spec
CONSTANTS
    Keys = {1, 2}
    kNumLevels = 4
    kMaxMemCompactLevel = 2
    GrandParentFactor = 1
    ExpandedFactor = 3
    MaxBytesForLevel <- Limits
    MaxWrites = 4
    Uses <- SplitKey
INVARIANTS
    GetIsLatest
CHECK_DEADLOCK FALSE
