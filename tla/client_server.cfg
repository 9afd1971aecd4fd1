SPECIFICATION LiveSpec
CONSTANTS
    Addresses = {a, b}
    Values = {v0, v1}
    Unreadable = {b}
    Unwritable = {b}
    Units = {u0, u1, u2}
    ServerUnit = u1
    Broadcast = u0
    InitialValue = v0
    NoValue = NoValue
    Junk = Junk
    MaxCalls = 2
    MaxEvents = 1
CHECK_DEADLOCK FALSE
INVARIANTS
    TypeOK
    MatchedWhenQuiet
    ReadYourWrites
    QuietOutcome
    RepliesInOrder
PROPERTIES
    StopEnds
