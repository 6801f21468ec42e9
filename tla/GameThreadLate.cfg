SPECIFICATION Spec
CONSTANTS
    None = None
    Expired = Expired
    Threads = {t1, t2}
    Callers = {worker}
    MaxCalls = 1
    Grace = FALSE
    Caches = FALSE
    Paces = {"steady"}
INVARIANT
    TimedOutNeverRuns
CHECK_DEADLOCK FALSE
