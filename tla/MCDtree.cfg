SPECIFICATION FairSpec
CONSTANTS
    r1 = r1
    r2 = r2
    i1 = i1
    i2 = i2
    x = x
    y = y
    Root = {r1, r2}
    Dir = {i1, i2}
    Name = {x}
    Mover = {m1}
    Top = Top
    Away = Away
    Nowhere = Nowhere
    InitLoc <- MCInitLoc
    QMax = 3
    BufMax = 2
    MaxOps = 3
INVARIANTS TypeOK WatchesAreCached NoStaleEntry NothingMissed
PROPERTY Settles
CHECK_DEADLOCK FALSE
