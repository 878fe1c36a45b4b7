CONSTANTS
    Schemas <- LongsSchema
    SegmentMaxDocs = 1
    MaxBatchRows = 1
    MaxBatches = 2
SPECIFICATION JobSpec
INVARIANTS
    SegmentsAgreeOnType
CHECK_DEADLOCK FALSE
