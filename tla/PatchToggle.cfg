SPECIFICATION Spec
CONSTANTS
    None = None
    p1 = p1
    p2 = p2
    a1 = a1
    a2 = a2
    o1 = o1
    o2 = o2
    r1 = r1
    r2 = r2
    nop = nop
    Addrs = {a1, a2}
    Code = {o1, o2, r1, r2, nop}
    Patches = {p1, p2}
    Orig <- MCOrig
    Repl <- MCRepl
    FirstIsRepl <- MCFirstIsRepl
    Builds <- MCBuilds
    Fragile = {a2}
    Toggles = {t1, t2}
    InitialSweep = FALSE
INVARIANTS
    TypeOK
    DetachRestores
    ChangesRecorded
    ReadAgrees
    OffReachable
PROPERTIES
    OnlyKnownCode
    RestoredInTheEnd
