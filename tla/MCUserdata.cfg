SPECIFICATION Spec
CONSTANTS
    None = None
    Strings = {s1, s2}
    Objects = {o1, o2}
    Slots = {r1, r2, r3}
    MaxErrors = 2
INVARIANTS
    StringsOutliveReaders
    SlotsHaveOneOwner
    BlocksHaveOneOwner
PROPERTIES
    DroppedStringsAreFreed
CHECK_DEADLOCK FALSE
