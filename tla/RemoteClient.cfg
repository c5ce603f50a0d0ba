SPECIFICATION FairSpec
CONSTANTS
    w1 = w1
    w2 = w2
    Clients = {w1, w2}
    Conns = {1, 2, 3}
    NoConn = 0
    Closing = {w1}
    MaxAttempts = 2
    MaxMisses = 2
INVARIANTS TypeOK OneConnection GivesUpLate
PROPERTIES NoComeback ReconnectEnds LossNoticed
CHECK_DEADLOCK FALSE
