SPECIFICATION Spec
CONSTANTS
    LastAddr = 3
    Ram <- AllButSecond
    NSoftware = 2
    NHardware = 2
    NTriggers = 2
    Supports <- MatchAll
    KeepsInserted = FALSE
INVARIANTS
    TypeOK
    SoftAgrees
    SoftTracksHost
    TriggersHaveSlots
    AcknowledgedIsPlanted
PROPERTIES
    HardCapacity
