CONSTANTS
    Depth = 2
    MaxPieces = 2
    MaxChunks = 3
    MaxUploads = 2
    RecordMayFail = TRUE
SPECIFICATION Spec
INVARIANTS
    NeverOverwritesInFlight
CHECK_DEADLOCK FALSE
