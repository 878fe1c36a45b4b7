CONSTANTS
    W = 4
    TableLimit = 2
    CodecWidths = {1, 2, 4}
    CodecDocs = 3
    Inputs <- Calls
    Segments <- FieldPairs
    Offsets = {0, 3, 7}
    Footer = 16
    MaxDoc = 9
    BLOCK_SIZE = 4
    MAX_ARRAY_LENGTH = 1
    WORD = 2
    RANK_WORDS = 1
    SENTINEL_BLOCK = 3
    MONO_BLOCK = 4
    MANTISSA = 4
    SCALE = 16
    PACKED_WIDTHS = {1, 2, 4, 8}
    TERMS_BLOCK = 2
    REVERSE_BLOCK = 4
    NIBBLE = 1
    UTF8_LEADS = {4}
    UTF8_CONTINUATIONS = {3}
    Streams <- ThreeSegments
SPECIFICATION DocValuesSpec
INVARIANTS
    TypesOK
    RoundTrip
    StatsAreExact
    NarrowPlansNeverWrap
    EveryReaderAgrees
    ProducersAgree
    FieldsReadBack
    JumpsLead
    KeysSeparate
    GlobalOrdsAgree
CHECK_DEADLOCK FALSE
