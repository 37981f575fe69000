SPECIFICATION Fair
CONSTANTS
    a = a
    b = b
    c = c
    Threads = {a, b}
    Kinds <- AsyncAndRange
    MaxCalls = 2
    SmallBatch = 1
    MaxBatch = 2
    write_buffer_size = 0
    kL0_CompactionTrigger = 1
    kL0_SlowdownWritesTrigger = 1
    kL0_StopWritesTrigger = 1
    MaxChunks = 1
    Failures = {"flush"}
    MaxSpurious = 0
INVARIANTS
    LogsCoverMemory
PROPERTIES
    EveryCallReturns
CHECK_DEADLOCK FALSE
