SPECIFICATION DeviceSpec
\* A reset may leave the reply task waiting for ever.
CHECK_DEADLOCK FALSE
CONSTANTS
    Text <- SomeText
    MaxReply = 3
    PacketSize = 4
    BufferSize = 10
    Chars = {10, 97, 98}
    Codings <- SomeCodings
    MaxResets = 1
INVARIANTS
    TypeOK
    HeardExact
    EndsShort
    SerialExact
    LineHeld
PROPERTY
    ReplySent
