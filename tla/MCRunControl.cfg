SPECIFICATION Spec
CONSTANTS
    Code <- TwoCode
    Data <- TwoData
    NSlots = 2
    Targets <- AllTargets
INVARIANTS
    TypeOK
    RegistersSurvive
PROPERTIES
    StopNamesItsCause
    ContinueRuns
CHECK_DEADLOCK FALSE
