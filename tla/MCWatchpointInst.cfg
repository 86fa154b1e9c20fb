SPECIFICATION Spec
CONSTANTS
    Xlen = 32
    Offsets <- SomeOffsets
    Bases <- AllBases
INVARIANT
    DecodedRight
CHECK_DEADLOCK FALSE
