SPECIFICATION Spec
CONSTANTS
    t1 = t1
    t2 = t2
    s1 = s1
    s2 = s2
    a1 = a1
    a2 = a2
    Threads = {t1, t2}
    Pollers = {t1, t2}
    Requests = {s1, a1, a2}
    SyncRequests = {s1}
    ZeroTimeout = {}
    IdModulus = 4
    MaxInFlight = 2
    MaxForeign = 1
    ForeignFrames = {Foreign}
    NoReq = NoReq
    Foreign = Foreign
    Garbage = Garbage
SYMMETRY MCSymmetry
CHECK_DEADLOCK FALSE
INVARIANTS
    TypeOK
    AtMostOneCallback
    OwnResponse
    NoCallbackOnRefusal
    NothingForgotten
    CapacityBound
PROPERTIES
    LifecycleSpec
