SPECIFICATION Spec
CONSTANTS
    PAGE = 2
    BLOCK = 4
    Polls = {0, 2, 3}
    TIMES_OUT = 3
    Writes <- SomeWrites
    Contents <- SomeContents
    XIP = 8
PROPERTIES
    DoesAsAsked
    Answered
