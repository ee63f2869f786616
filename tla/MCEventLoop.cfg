SPECIFICATION FairSpec
CONSTANTS
    w1 = w1
    Worker = {w1}
    ChanSize = 2
    RoomSize = 1
INVARIANTS
    TypeOK
    OnlyTheWedgeBlocks
PROPERTIES
    WedgeIsForEver
    WorkIsDone
CHECK_DEADLOCK FALSE
