CONSTANTS
    j1 = j1
    j2 = j2
    j3 = j3
    r1 = r1
    Absent = Absent
    Jobs <- MCJobs
    Readers <- MCReaders
    SegmentMaxDocs = 2
    BatchRows <- MCBatchRows
    MaxRows = 4
    Extras <- OneExtra
    Lists <- MCLists
    Several <- MCSeveral
    OneWriter = TRUE
    Faults = {"io", "crash"}
SPECIFICATION FairSpec
INVARIANTS
    TypeOK
    CommitReadable
    ReaderSeesOneJob
    FailsOnlyOnTypes
    AckedIsCommitted
    NeverAppends
PROPERTIES
    FrozenAfterCommit
    ImplementsShard
    CallsEnd
CHECK_DEADLOCK FALSE
