SPECIFICATION Spec
CONSTANTS
    CharMax = 9
    WordSize = 12000
    FlipLow = 2
    FlipMid = 4
    FlipHigh = 7
    SanitizedBreak = 6
    NULL = NULL
    SizeMax = 100
    None = None
    Garbage = Garbage
    Structs <- MCStructs
    Enums <- MCEnums
    ElementLists <- MCElementLists
    Values <- SquadValue
    Scarce = {}
    MaxItems = 4
INVARIANTS
    FreeIsSafe
