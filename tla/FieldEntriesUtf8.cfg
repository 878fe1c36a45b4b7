CONSTANTS
    MaxDoc = 2
    Segments <- KeywordFields
    BLOCK_SIZE = 4
    MAX_ARRAY_LENGTH = 1
    WORD = 2
    RANK_WORDS = 1
    SENTINEL_BLOCK = 3
    MONO_BLOCK = 4
    MANTISSA = 4
    SCALE = 16
    PACKED_WIDTHS = {1, 2, 4, 8}
    TERMS_BLOCK = 2
    REVERSE_BLOCK = 4
    NIBBLE = 1
    UTF8_LEADS = {3}
    UTF8_CONTINUATIONS = {2}
SPECIFICATION Spec
INVARIANTS
    Utf8ColumnsAreUtf8
CHECK_DEADLOCK FALSE
