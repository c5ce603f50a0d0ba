SPECIFICATION Spec
CONSTANTS
    m1 = m1
    m2 = m2
    m3 = m3
    c1 = c1
    Messages = {c1, m3}
    Commands = {c1}
    Loaded <- OneLoaded
    Claude = TRUE
    Forked = TRUE
    SteerModes = {FALSE}
    UserOps = {"send", "retry", "steer", "now", "remove", "move", "edit", "stop", "settings", "delete"}
    Chatter = {"error", "compacted"}
    Faults = {"fail", "crash"}
    SteerCap = 1
    OutCap = 2
    MaxIds = 3
INVARIANTS
    TypeOK
    SessionInv
    WorkingHasRun
    EditedStaysQueued
CHECK_DEADLOCK FALSE
