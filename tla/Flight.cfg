CONSTANTS
    W = 6
    Factors = {3}
    Scales = {0, 1}
    MaxBatch = 1
    ColumnRows = 2
    Schemas <- JobSchemas
    SegmentMaxDocs = 2
    MaxBatchRows = 2
    MaxBatches = 3
    FieldNames <- NamesOfFields
    Flushes <- SmallFlushes
    TermShapes <- ShapesOfTerms
    NotUtf8 <- TermsNotUtf8
    Requests <- SomeRequests
    Executors <- CpuOnly
    MaxCommits = 3
    MaxRows = 4
    Stored <- SomeStored
    Sizes <- RowsOfSizes
    AskedColumns <- FieldsOfRows
    MaxPairs = 2
    MayMerge = TRUE
SPECIFICATION FlightSpec
INVARIANTS
    TypesOK
    BuffersReadBack
    NothingIsLost
    ConversionsAreExact
    DeliversOneCommit
    GlobalDocsIncrease
    InfoDescribesStream
    FailsForAReason
    HydrateAnswers
PROPERTIES
    EveryCallEnds
CHECK_DEADLOCK FALSE
