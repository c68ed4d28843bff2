CONSTANTS
    N = 2
    MaxFrames = 2
    Geoms = {g1}
    None = None
SPECIFICATION FairSpec
PROPERTIES
    ImplementsInOrder
    EveryFrameEncoded
    ExitHeldUpOnlyByMissedWakeup
CHECK_DEADLOCK FALSE
