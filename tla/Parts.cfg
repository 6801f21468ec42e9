SPECIFICATION PartsSpec
CONSTANTS
    Goons = {g1, g2}
    GameThreads = {t1, t2, t3}
    FirstThreads = {t1, t2}
    Places = {p1, p2}
    Wanted = p1
    Largest = 3
    Exact = 1
    Word = 2
    Page = 2
    Window = 4
    Aligns = {1, 2, 3}
    Longest = 7
    Objects_S = {o1, o2}
    Slots = 2
    ChunkSize = 1
    MaxResults = 1
    Classes = {"base", "hero", "foe"}
    Names = {"ammo"}
    Super <- MCSuper
    Fields <- MCFields
    Functions <- MCFunctions
    Parms <- MCParms
    Native = {"base"}
    MaxHops = 3
    Hashes = {h1, h2}
    Locations = {l1, l2}
    MaxLaunches = 2
    Features = {f1, f2}
    Chords = {k1, k2, k3}
    MaxEntries = 3
    Excluded = {3}
    MaxInstances = 2
    MaxGrants = 2
    jump = jump
    skills = skills
    gone = gone
    Cards = {jump, skills, gone}
    Shape <- MCShape
    MaxRounds = 2
INVARIANTS
    OffUnstamps
    OperationsServed
    WatchLeavesClean
    TargetKept
    ScanComplete
    StayedIsFound
    ServedFits
    ReportsReal
    PressReachesOwner
    GrantComplete
PROPERTIES
    CardsSettle
CHECK_DEADLOCK FALSE
