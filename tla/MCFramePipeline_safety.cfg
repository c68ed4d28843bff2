CONSTANTS
    N = 2
    MaxFrames = 3
    Geoms = {g1, g2}
    None = None
SYMMETRY GeomSymmetry
SPECIFICATION Spec
INVARIANTS
    AwakeInv
    SrcFrameExclusive
    FrameCustody
    FrameIntegrity
    UseWhileAlive
CHECK_DEADLOCK FALSE
