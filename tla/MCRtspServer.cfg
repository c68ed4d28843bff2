CONSTANTS
    MaxRegist = 2
    Asynchrony = {TRUE, FALSE}
SPECIFICATION Spec
INVARIANTS
    MediaNeedsServer
    ReleasedOnce
    PusherUsedAlive
    LeftOnlyIfReplaced
CHECK_DEADLOCK FALSE
