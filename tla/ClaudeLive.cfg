SPECIFICATION FairSpec
CONSTANTS
    p1 = p1
    q1 = q1
    Requests = {p1}
    Permissions = {p1}
    NoRequest = NoRequest
    SkipPrompts = {FALSE}
    MaxSteers = 1
    SteerCap = 1
    EvCap = 1
    PipeCap = 1
    Faults = {"absorb", "crash", "leave"}
PROPERTIES IdleShows InterruptEnds WaitsOnlyForUser
CHECK_DEADLOCK FALSE
