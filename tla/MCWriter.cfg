SPECIFICATION Spec
CONSTANTS
    CharMax = 9
    WordSize = 12000
    FlipLow = 2
    FlipMid = 4
    FlipHigh = 7
    SanitizedBreak = 6
    NULL = NULL
    SizeMax = 4
    Capacities = {0, 2}
    RawBytes = {11}
    Numbers <- MCNumbers
    Arrays <- MCArrays
    Texts <- MCTexts
    FieldLengths = {1, 2}

    InitOutcomes = {TRUE}
INVARIANTS
    WritesInBounds
PROPERTIES
    AddsAreAllOrNothing
    DelimitersAreDeliberate
    NumbersNeverDelimit
