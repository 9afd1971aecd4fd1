SPECIFICATION FairSpec
CONSTANTS
    bare = bare
    full = full
    mute = mute
    short = short
    Frames = {bare, full, mute, short}
    Body <- MCBody
    Declared <- MCDeclared
    HeaderCells = 2
    MaxBody = 2
    Sent = {full}
    MaxSends = 2
    MaxFrames = 2
    MaxOpened = 2
    MaxBreaks = 1
CHECK_DEADLOCK FALSE
INVARIANTS FramesIntact FramesComplete NoTornFrame OnlyBrokenLeak
PROPERTIES ReceiveEnds
