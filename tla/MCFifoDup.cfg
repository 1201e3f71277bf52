SPECIFICATION Spec
CONSTANTS
    c1 = c1
    c2 = c2
    c3 = c3
    b1 = b1
    Client <- MCClient
    BadClient <- MCNoBadClient
    Variants <- MCPolling
    CrashAt <- MCCrashIdle
    MaxLen = 1
    MaxStarts = 3
    MaxPoll = 1
INVARIANTS
    UniqueAcrossRestarts
CHECK_DEADLOCK FALSE
