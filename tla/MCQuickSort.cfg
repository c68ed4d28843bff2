CONSTANTS
    Values = {0, 1, 2, 3}
    MaxLen = 5
SPECIFICATION FairSpec
INVARIANTS
    PairsTogether
PROPERTIES
    ImplementsSort
    SortEnds
CHECK_DEADLOCK FALSE
