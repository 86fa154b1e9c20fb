SPECIFICATION Spec
CONSTANTS
    Code <- TwoCode
    Data <- TwoData
    NSlots = 2
    Targets <- AllTargets
INVARIANT
    EbreakEntersDebug
CHECK_DEADLOCK FALSE
