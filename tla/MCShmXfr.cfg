SPECIFICATION FairSpec
CONSTANTS
    FileLen = 6
    BufSize = 3
    Variants <- MCAll
    Leftover <- MCSemaphores
INVARIANTS
    TypeOK
    ExclusiveAlternating
    AllAccountedFor
    RemovedWhenUnused
PROPERTIES
    ImplementsChannel
    Completes
CHECK_DEADLOCK FALSE
