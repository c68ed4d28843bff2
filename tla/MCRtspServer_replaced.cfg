CONSTANTS
    MaxRegist = 2
    Asynchrony = {FALSE}
SPECIFICATION Spec
INVARIANTS
    PushingStopped
CHECK_DEADLOCK FALSE
