CONSTANTS
    Stored <- StoredMC
    Sizes <- ThreeSegments
    AskedColumns <- TwoColumns
    MaxPairs = 1
    MayMerge = TRUE
SPECIFICATION HydrateSpec
INVARIANTS
    AddressIsStable
CHECK_DEADLOCK FALSE
