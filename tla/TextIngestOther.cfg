CONSTANTS
    MaxTokenLen = 2
    BUCKETS = 2
    NumFree = 24
    Corpora <- MCCorpora
    HostThreads = {2}
    SLICE = 3
    Slots = 3
    CompactCap = 1
    SpanCap = 3
    DirtyShare = 8
    DirtyExtra = 16
    HashOf <- MCHashOf
SPECIFICATION FairSpec
INVARIANTS
    IngestEqualsCpu
    CompactInBounds
CHECK_DEADLOCK FALSE
