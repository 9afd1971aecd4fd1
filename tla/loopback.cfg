SPECIFICATION FairSpec
CONSTANTS
    client = client
    server = server
    s1 = s1
    s2 = s2
    r1 = r1
    r2 = r2
    Ends = {client, server}
    Senders = {s1, s2}
    Receivers = {r1, r2}
    EndOf <- MCEndOf
    Frames = {1, 2}
    MaxSends = 3
    MaxBreaks = 1
CHECK_DEADLOCK FALSE
INVARIANTS NoLostWakeup
PROPERTIES IsChannel SleeperServed
