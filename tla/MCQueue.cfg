\* One priority on each side of each boundary of the lanes, batches of two, up
\* to three items at a time and no end of them.
SPECIFICATION FairSpec
CONSTANTS
    Priorities = {2, 3, 7, 8}
    MaxItems = 3
    MaxBatch = 2
INVARIANTS
    TypeOK
    LanesAreFifo
PROPERTIES
    BestLaneAtStart
    OnlyHigherLanesStarve
