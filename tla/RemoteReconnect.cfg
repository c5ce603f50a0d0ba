SPECIFICATION FairSpec
CONSTANTS
    t1 = t1
    t2 = t2
    ClientSends = 2
    ServerSends = 1
    Threads = {}
    MaxDrops = 1
INVARIANTS
    NothingLost
    InOrder
PROPERTIES
    RequestAnswered
    Resynced
CHECK_DEADLOCK FALSE
