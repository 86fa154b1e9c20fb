SPECIFICATION Spec
CONSTANTS
    Text <- SomeText
    MaxPayload = 3
    PacketSize = 3
    BufferSize = 10
INVARIANTS
    TypeOK
    CommandExact
    NoOverrun
PROPERTY
    CommandArrives
