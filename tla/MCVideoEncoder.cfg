CONSTANTS
    Fps = 30
    PtsModulus = 5000
    MaxPictures = 4
    QueueSize = 2
    None = None
    Pictures <- MCPictures
SPECIFICATION FairSpec
INVARIANTS
    GetOnlyWhenOwed
    PacketsAccounted
    ReleasedOnce
    PtsOrdered
    CodedInOrder
PROPERTIES
    ReleaseCompletes
    PutIsDelivered
CHECK_DEADLOCK FALSE
