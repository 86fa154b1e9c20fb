SPECIFICATION Spec
CONSTANTS
    Harts <- SomeHarts
    Memories <- SomeMemories
    Lengths = {0, 1, 2, 4, 7}
    Data <- SomeData
    ValuesFor <- MCValuesFor
    BUFFER = 6
    MaxCalls <- CallsOn
PROPERTIES
    Undisturbed
    TransfersRight
    MemoryExact
