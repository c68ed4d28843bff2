CONSTANTS
    Fps = 30
    PtsModulus = 5000
    MaxPictures = 2
    QueueSize = 2
    None = None
    Pictures <- MCPictures
SPECIFICATION Spec
INVARIANTS
    CopyFits
CHECK_DEADLOCK FALSE
