CONSTANTS
    MaxPackets = 4
    MaxChanges = 2
    QueueSize = 2
    Buffers = 2
    Retries = 2
SPECIFICATION FairSpec
INVARIANTS
    DecInv
    NoPictureSkipped
    PacketsPutOnce
    FramesAccounted
    InitLeaksBounded
    StallIsBeingAnswered
    
PROPERTIES
    DecodeReturns
CHECK_DEADLOCK FALSE
