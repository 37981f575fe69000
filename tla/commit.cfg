SPECIFICATION Spec
CONSTANTS
    a = a
    b = b
    c = c
    Threads = {a, b, c}
    Kinds <- Writes
    MaxCalls = 1
    SmallBatch = 1
    MaxBatch = 2
    write_buffer_size = 1
    kL0_CompactionTrigger = 1
    kL0_SlowdownWritesTrigger = 1
    kL0_StopWritesTrigger = 2
    MaxChunks = 0
    Failures = {"append", "sync", "file", "merge"}
    MaxSpurious = 1
SYMMETRY Symmetry
INVARIANTS
    OutcomeIsTrue
    LogMatchesMemory
PROPERTIES
    KeepsPromise
CHECK_DEADLOCK FALSE
