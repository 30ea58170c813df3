CONSTANTS
    WordBits = 22
    IntBits = 11
    Inputs <- MCInputs
    Additions <- MCAdditions
    OtherBytes <- MCOtherBytes
SPECIFICATION WireSpec
INVARIANTS
    RoundTrip
    CutSignerIsRejected
    IndexInBounds
CHECK_DEADLOCK FALSE
