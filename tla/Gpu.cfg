CONSTANTS
    Depth = 2
    MaxPieces = 2
    MaxChunks = 3
    MaxUploads = 2
    RecordMayFail = FALSE
    Addresses = {p}
    Contents = {x, y}
    CallChunks = 2
    W = 4
    TableLimit = 2
    NThreads = 2
    TableSlots = 3
    Columns <- StatsColumns
    SlotOf <- StatsSlotOf
    MaxTokenLen = 2
    BUCKETS = 2
    NumFree = 24
    HostThreads = {2}
    SLICE = 3
    IngestSlots = 3
    CompactCap = 3
    SpanCap = 20
    DirtyShare = 8
    DirtyExtra = 16
    BlockThreads = 4
    ScoredDocs = 7
    K = 3
    MaxScore = 2
SPECIFICATION GpuSpec
INVARIANTS
    TypeOK
    NeverOverwritesInFlight
    NeverFreesInFlight
    DeviceHoldsUpload
    PacksOwnValues
    TypesOK
    DeviceEqualsCpu
    NoValueTwice
    IndexersAgree
    HitsAreTopK
PROPERTIES
    KernelsEnd
CHECK_DEADLOCK FALSE
