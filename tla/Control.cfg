SPECIFICATION Spec
CONSTANTS
    RecvBuf = 4
    RespBuf = 2
    H2Buf = 4
    MaxFrame = 4
    MaxRecord = 2
    LongFrame = 3
    MaxSend = 1
    NoiseSlack = 1
    MaxFrames = 2
    MaxSends = 1
    MaxControl = 1
INVARIANT
    NoncesInStep
PROPERTIES
    ImplementsFrames
    FailsForAReason
    FrameRead
CHECK_DEADLOCK FALSE
