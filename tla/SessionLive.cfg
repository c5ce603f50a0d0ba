SPECIFICATION FairSpec
CONSTANTS
    m1 = m1
    m2 = m2
    m3 = m3
    c1 = c1
    Messages = {m1, m2, c1}
    Commands = {c1}
    Loaded <- NoneLoaded
    Claude = TRUE
    Forked = FALSE
    SteerModes = {TRUE, FALSE}
    UserOps = {"send", "steer", "now", "stop"}
    Chatter = {"work"}
    Faults = {}
    SteerCap = 3
    OutCap = 2
    MaxIds = 3
INVARIANTS
    CommandsNeverGlued
    ReadAtMostOnce
    ReadInOrder
    IdleMeansIdle
PROPERTIES
    NothingLost
    StopTakesEffect
    SentAfterStop
    QueueDrains
CHECK_DEADLOCK FALSE
