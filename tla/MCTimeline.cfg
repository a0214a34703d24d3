SPECIFICATION FairSpec
CONSTANTS
    Writers = {w1, w2}
    Projectors = {p1, p2}
    Batch = 2
    MaxXid = 3
    MaxId = 4
INVARIANTS
    TypeOK
    NothingIsSkipped
PROPERTIES
    IsAFeed
    EveryEventIsTold
CHECK_DEADLOCK FALSE
