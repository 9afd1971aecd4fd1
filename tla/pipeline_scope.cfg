SPECIFICATION Spec
CONSTANTS
    t1 = t1
    t2 = t2
    s1 = s1
    s2 = s2
    a1 = a1
    a2 = a2
    Threads = {t1, t2}
    Pollers = {t1, t2}
    Requests = {s1, a1}
    SyncRequests = {s1}
    ZeroTimeout = {}
    IdModulus = 4
    MaxInFlight = 2
    MaxForeign = 0
    ForeignFrames = {Foreign, Garbage}
    NoReq = NoReq
    Foreign = Foreign
    Garbage = Garbage
CHECK_DEADLOCK FALSE
INVARIANTS
    SyncScope
