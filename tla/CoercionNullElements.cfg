CONSTANTS
    W = 3
    Types <- ListTypes
    Factors = {1, 3}
    Scales = {0, 1}
    MaxBatch = 1
    MaxRows = 1
SPECIFICATION Spec
INVARIANTS
    NullsStayNull
CHECK_DEADLOCK FALSE
