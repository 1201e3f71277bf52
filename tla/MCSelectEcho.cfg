SPECIFICATION FairSpec
CONSTANTS
    a = a
    b = b
    c = c
    Client <- MCClient
    Resetting <- MCA
    Silent <- MCA
    MaxConn = 2
    Room = 1
    MaxSend <- MCSend
    MaxDgram = 1
INVARIANTS
    TypeOK
    TableMatchesKernel
    ReadsNeverBlock
    NothingLost
PROPERTIES
    ReadUnlessStuck
CHECK_DEADLOCK FALSE
