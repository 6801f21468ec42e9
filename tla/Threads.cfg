SPECIFICATION ThreadsSpec
CONSTANTS
    MaxVms = 3
    MaxDelayed = 1
    MaxInbox = 1
    MaxQueue = 1
    MaxObjects = 4
    app = app
    tool_h = tool_h
    Hosts = {app, tool_h}
    MaxRequests <- MCMaxRequests
    Scripts = {s1, s2}
    Capacity = 2
    Batch = 1
    MaxRuns = 2
INVARIANTS
    NothingLeftOver
    NotIntoFreed
    AnswersOwn
    LossShown
PROPERTIES
    RequestIsCall
    RuntimeMovesOn
    FreezeFollows
    HostAnswered
    ButtonTurnsBack
CHECK_DEADLOCK FALSE
