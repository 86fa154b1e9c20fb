SPECIFICATION FairSpec
CONSTANTS
    readRegs = readRegs
    insertBp = insertBp
    Asks <- TwoAsks
    MaxWire = 3
    MaxPackets = 2
INVARIANTS
    TypeOK
    RspIntact
    CmdIntact
    AckModeOfReply
    SessionAgrees
PROPERTIES
    AnswerMatches
    AnswerArrives
    BreakStops
    ImplementsSession
