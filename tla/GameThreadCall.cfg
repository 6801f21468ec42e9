SPECIFICATION Spec
CONSTANTS
    None = None
    Expired = Expired
    Threads = {t1, t2, t3}
    Callers = {worker}
    MaxCalls = 2
    Grace = TRUE
    Caches = TRUE
    Paces = {"steady", "raced"}
INVARIANTS
    BreakpointsOwned
    LeftClean
    OncePerCall
PROPERTIES
    KeepsPromise
    CallAnswered
CHECK_DEADLOCK FALSE
