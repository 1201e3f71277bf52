SPECIFICATION Spec
CONSTANTS
    r1 = r1
    r2 = r2
    i1 = i1
    i2 = i2
    x = x
    y = y
    Root = {r1}
    Dir = {i1, i2}
    Name = {x, y}
    Mover = {m1}
    Top = Top
    Away = Away
    Nowhere = Nowhere
    InitLoc <- MCInitLoc
    QMax = 3
    BufMax = 2
    MaxOps = 3
INVARIANT RenamesAreFollowed
CHECK_DEADLOCK FALSE
