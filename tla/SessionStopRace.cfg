SPECIFICATION Spec
CONSTANTS
    m1 = m1
    m2 = m2
    m3 = m3
    c1 = c1
    Messages = {m1, m2}
    Commands = {}
    Loaded <- NoneLoaded
    Claude = TRUE
    Forked = FALSE
    SteerModes = {FALSE}
    UserOps = {"send", "stop"}
    Chatter = {"work"}
    Faults = {}
    SteerCap = 3
    OutCap = 2
    MaxIds = 3
PROPERTIES
    StopHoldsQueue
CHECK_DEADLOCK FALSE
