SPECIFICATION Spec
CONSTANTS
    t1 = t1
    t2 = t2
    ClientSends = 2
    ServerSends = 1
    Threads = {t1}
    MaxDrops = 1
INVARIANTS
    TypeOK
    HandledOnce
    AnswersMatch
CHECK_DEADLOCK FALSE
