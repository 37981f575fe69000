SPECIFICATION Spec
CONSTANTS
    MaxWrites = 1
    Budgets <- OneCut
    FsyncLinks = TRUE
INVARIANT
    CurrentHasDescriptor
CHECK_DEADLOCK FALSE
