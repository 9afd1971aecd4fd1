SPECIFICATION LiveSpec
CONSTANTS
    t1 = t1
    t2 = t2
    s1 = s1
    s2 = s2
    a1 = a1
    a2 = a2
    Threads = {t1}
    Pollers = {t1}
    Requests = {s1, s2, a1}
    SyncRequests = {s1, s2}
    ZeroTimeout = {s2}
    IdModulus = 4
    MaxInFlight = 2
    MaxForeign = 1
    ForeignFrames = {Foreign, Garbage}
    NoReq = NoReq
    Foreign = Foreign
    Garbage = Garbage
CHECK_DEADLOCK FALSE
INVARIANTS
    SyncScope
    AnswerFindsRequest
PROPERTIES
    SyncTerminates
    AnswerSettles
