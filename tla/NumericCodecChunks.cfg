CONSTANTS
    W = 3
    TableLimit = 2
    CodecWidths = {1, 2, 3}
    CodecDocs = 2
    Inputs <- ChunkCalls
SPECIFICATION CodecSpec
INVARIANTS
    ChunksHaveStats
CHECK_DEADLOCK FALSE
