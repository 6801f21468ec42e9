SPECIFICATION Spec
CONSTANTS
    None = None
    Expired = Expired
    Threads = {t1, t2}
    Callers = {worker, lua}
    MaxCalls = 1
    Grace = TRUE
    Caches = TRUE
    Paces = {"steady"}
INVARIANT
    OwnAnswer
CHECK_DEADLOCK FALSE
