SPECIFICATION Spec
CONSTANTS
    CharMax = 9
    WordSize = 12000
    FlipLow = 2
    FlipMid = 4
    FlipHigh = 7
    SanitizedBreak = 6
    NULL = NULL
    Inputs <- MCInputs
    Lengths <- MCLengths

INVARIANTS
    CursorInBounds
    SkipsOnlyBreak
    StringsStayInChunk
PROPERTIES
    ChunksAdvance
    ReadsAreAllOrNothing
    NextChunkPassesOneBreak
