CONSTANTS
    FieldNames <- Names2
    Flushes <- TermFlushes
    TermShapes <- Terms
    NotUtf8 <- SecondNotUtf8
    Requests <- WholeReads
    Executors <- CpuOnly
    MaxCommits = 2
    MaxRows = 3
SPECIFICATION Spec
INVARIANTS
    DecodesToItsType
CHECK_DEADLOCK FALSE
