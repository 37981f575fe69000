SPECIFICATION AllSpec
CONSTANTS
    Payload = 3
    Bits32 = 8
    Bits64 = 16
    Width8 = 4
    RawMax = 6
    WordBits = 2
    PB_MAX_REQUIRED_FIELDS = 4
    ShiftByWord = "allbits"
    Senders <- AllSenders
    Readers <- ReadersOf
    Framings = {TRUE, FALSE}
    Slack <- Tight
    MaxSent = 2
    kBlockSize = 8
    kHeaderSize = 3
    Sizes = {1, 3, 6}
    InitialOffsets = {0, 3, 5, 6, 9}
    Garbage = {0, 2, 5}
    MaxRecords = 3
    MaxMishaps = 1
    Reuse = TRUE
    Numbers = {1, 17}
    Levels = {0, 6}
    VarintBase = 16
    MaxSetters = 2
    MaxFields = 3
    PointerSize = 2
    AuxSize = 1
    PB_SIZE_MAX = 99
INVARIANTS
    WrittenIsRead
    TornTailIsQuiet
    MessagesAreDelivered
    LayoutIsFollowed
CHECK_DEADLOCK FALSE
