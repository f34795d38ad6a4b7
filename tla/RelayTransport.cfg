SPECIFICATION FairSpec
CONSTANTS
    Capacity = 2
    LargestExponent = 1
    MaxEvents = 4
CHECK_DEADLOCK FALSE
INVARIANTS
    UnfinishedCounts
PROPERTIES
    KeepsOrder
    LostForCause
    Reconnects
    QueueMoves
    StopEnds
