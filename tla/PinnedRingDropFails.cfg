CONSTANTS
    Depth = 2
    MaxPieces = 2
    MaxChunks = 3
    MaxUploads = 2
    RecordMayFail = FALSE
SPECIFICATION Spec
INVARIANTS
    StagedOutlivesCopy
CHECK_DEADLOCK FALSE
