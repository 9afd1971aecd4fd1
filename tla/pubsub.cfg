SPECIFICATION LiveSpec
CONSTANTS
    Sources <- MCOneSource
    Requests <- MCTwoKinds
    RegisterValues = {0, 1}
    Pollers = {p}
    MaxSubs = 2
    MaxWire = 1
    None = None
    Missed = Missed
INVARIANTS
    TypeOK
    SendJustified
    HandlerScope
    CaughtUp
PROPERTIES
    Converges
