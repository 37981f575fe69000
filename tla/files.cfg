SPECIFICATION Spec
CONSTANTS
    MaxWrites = 2
    Budgets <- SomeBudgets
    FsyncLinks = TRUE
INVARIANTS
    OpenSucceeds
    FilesMatchMemory
PROPERTIES
    KeepsWrites
CHECK_DEADLOCK FALSE
