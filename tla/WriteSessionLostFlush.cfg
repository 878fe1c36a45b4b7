CONSTANTS
    j1 = j1
    j2 = j2
    j3 = j3
    r1 = r1
    Absent = Absent
    Jobs <- TwoJobs
    Readers <- MCReaders
    SegmentMaxDocs = 2
    BatchRows <- MCBatchRows
    MaxRows = 2
    Extras <- NoExtras
    Lists <- MCLists
    Several <- NoneSeveral
    OneWriter = TRUE
    Faults = {"lost_flush"}
SPECIFICATION Spec
INVARIANTS
    CommitIsAtomic
SYMMETRY Symmetry
CHECK_DEADLOCK FALSE
