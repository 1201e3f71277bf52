SPECIFICATION Spec
CONSTANTS
    c1 = c1
    c2 = c2
    c3 = c3
    b1 = b1
    Client <- MCClient3
    BadClient <- MCNoBadClient
    Variants <- MCVariants
    CrashAt <- MCCrashAnywhere
    MaxLen = 2
    MaxStarts = 3
    MaxPoll = 1
INVARIANTS
    TypeOK
    UniqueInEra
    RestartRepeatsAtMostTwo
    AnswerIsMine
PROPERTIES
    ImplementsService
SYMMETRY MCSymmetry
CHECK_DEADLOCK FALSE
