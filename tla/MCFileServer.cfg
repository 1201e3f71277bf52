SPECIFICATION FairSpec
CONSTANTS
    c1 = c1
    c2 = c2
    full = full
    empty = empty
    none = none
    Pid = {c1, c2}
    Mortal = {c1}
    File = {full, empty, none}
    Asks <- MCAsks
    Blocks <- MCBlocks
    Cap = 1
    ServerCap = 2
    MaxStarts = 2
    MaxRuns <- MCMaxRuns
INVARIANTS TypeOK WholeFile OneSender NoForgottenChild
PROPERTIES ChildrenEnd Answered
CHECK_DEADLOCK FALSE
