SPECIFICATION LiveSpec
CONSTANTS
    t1 = t1
    t2 = t2
    s1 = s1
    s2 = s2
    a1 = a1
    a2 = a2
    Threads = {t1}
    Pollers = {t1}
    Requests = {a1}
    SyncRequests = {}
    ZeroTimeout = {}
    IdModulus = 4
    MaxInFlight = 2
    MaxForeign = 0
    ForeignFrames = {Foreign, Garbage}
    NoReq = NoReq
    Foreign = Foreign
    Garbage = Garbage
CHECK_DEADLOCK FALSE
PROPERTIES
    ExpiryNotified
