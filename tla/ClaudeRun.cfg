SPECIFICATION Spec
CONSTANTS
    p1 = p1
    q1 = q1
    Requests = {p1}
    Permissions = {p1}
    NoRequest = NoRequest
    SkipPrompts = {FALSE, TRUE}
    MaxSteers = 2
    SteerCap = 1
    EvCap = 1
    PipeCap = 1
    Faults = {"absorb", "crash", "ioError", "leave"}
INVARIANTS TypeOK Attributed EndReported NeverAllowedUnasked Agreement
PROPERTIES NoEndBeforeSteer KeepsContract
CHECK_DEADLOCK FALSE
