CONSTANTS
    N = 2
    MaxFrames = 1
    Geoms = {g1}
    None = None
SPECIFICATION FairSpec
PROPERTIES
    CtrlCExits
CHECK_DEADLOCK FALSE
