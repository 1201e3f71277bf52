SPECIFICATION FairSpec
CONSTANTS
    c1 = c1
    c2 = c2
    c3 = c3
    b1 = b1
    Client <- MCClient
    BadClient <- MCBadClient
    Variants <- MCPolling
    CrashAt <- MCCrashAnywhere
    MaxLen = 1
    MaxStarts = 2
    MaxPoll = 1
PROPERTIES
    RequestsConsumed
    WaitingClientAnswered
CHECK_DEADLOCK FALSE
