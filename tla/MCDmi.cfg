SPECIFICATION Spec
CONSTANTS
    Idcode = 7
    Idle = 2
    Targets <- AllTargets
    Latencies <- SomeLatencies
    Values = {3}
    DMI_RETRIES = 2
INVARIANTS
    EndsAgree
    AccessExact
    PromptIsDone
    ComesUp
