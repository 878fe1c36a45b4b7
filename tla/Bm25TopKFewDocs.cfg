CONSTANTS
    BlockThreads = 4
    ScoredDocs = 2
    K = 3
    MaxScore = 2
SPECIFICATION TopSpec
INVARIANTS
    HitsAreDistinct
CHECK_DEADLOCK FALSE
