SPECIFICATION Spec
CONSTANTS
    HighBit = 4
    Inputs <- MCInputs
    Multiples <- MCMultiples
    Plans <- MCPlans
CHECK_DEADLOCK FALSE
INVARIANTS
    LoopInvariant
    RoundTripUnlessMasked
PROPERTIES
    AtOnce
    Terminates
