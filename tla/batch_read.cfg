SPECIFICATION Spec
CONSTANTS
    Base = 256
    Space = 65536
    Maps <- MCMaps
    Values <- MCValues
    Stamp <- MCStamp
    Digest <- MCDigest
    Burst = 5
CHECK_DEADLOCK FALSE
INVARIANTS MapHolds OptimizedCovers DamageDetected ReadsBack
