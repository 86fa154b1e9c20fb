SPECIFICATION Spec
CONSTANTS
    LastAddr = 3
    Ram <- AllButSecond
    NSoftware = 2
    NHardware = 2
    NTriggers = 2
    Supports <- MatchExecute
    KeepsInserted = FALSE
PROPERTIES
    HardCapacity
