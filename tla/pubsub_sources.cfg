SPECIFICATION LiveSpec
CONSTANTS
    Sources <- MCTwoSources
    Requests <- MCThreeKinds
    RegisterValues = {0, 1}
    Pollers = {p}
    MaxSubs = 1
    MaxWire = 0
    None = None
    Missed = Missed
INVARIANTS
    NotifiedOfLastScan
PROPERTIES
    PeriodicNotified
