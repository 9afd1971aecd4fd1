SPECIFICATION FairSpec
CONSTANTS
    good = good
    other = other
    MaxUnit = 3
    RangeStart = 1
    RangeEnd = 3
    Alive = {0, 1, 3}
    Extended = {0, 1}
    Secrets = {good, other}
    Credential <- MCCredential
    SecretOf <- MCSecretOf
    MaxCalls = 3
CHECK_DEADLOCK FALSE
INVARIANTS FoundWhenCalm SessionAgrees HandshakeDecides
PROPERTIES ScanEnds
