SPECIFICATION Spec
CONSTANTS
    DownRoom = 3
    UpRoom = 2
    MaxSent = 3
    MaxTyped = 2
INVARIANTS
    TypeOK
    NoGaps
PROPERTIES
    WritesEnd
    HandshakeEnds
CHECK_DEADLOCK FALSE
