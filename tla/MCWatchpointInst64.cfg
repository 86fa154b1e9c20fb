SPECIFICATION Spec
CONSTANTS
    Xlen = 64
    Offsets <- SomeOffsets
    Bases <- AllBases
INVARIANT
    DecodedRight
CHECK_DEADLOCK FALSE
