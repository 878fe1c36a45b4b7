CONSTANTS
    W = 3
    Types <- OtherTypes
    Factors = {1, 3}
    Scales <- NegativeScales
    MaxBatch = 1
    MaxRows = 2
SPECIFICATION Spec
INVARIANTS
    AcceptedNeverPanics
    FloatPayloadsSort
    ComesBackAsItsType
CHECK_DEADLOCK FALSE
