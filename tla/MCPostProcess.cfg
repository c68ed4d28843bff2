CONSTANTS
    Cells <- MCCells
    Distances <- MCDistances
    Pictures <- MCPictures
    ModelW = 8
    ModelH = 8
    Classes = 2
    Bits = 2
    Quants <- MCQuants
    Percent = 45
    MaxResults = 2
SPECIFICATION Spec
INVARIANTS
    PostInv
    BestOfCell
    KeptApart
    SuppressedByBetter
    SurestFirst
    RectInPicture
CHECK_DEADLOCK FALSE
