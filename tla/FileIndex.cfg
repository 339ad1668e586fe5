SPECIFICATION Spec
CONSTANTS
    top = top
    sub = sub
    f = f
    g = g
    None = None
    Root = Root
    Files <- MCFiles
    Dirs <- MCDirs
    Top = top
    Above <- MCAbove
    Order <- MCOrder
    a = a
    b = b
    big = big
    link = link
    Contents <- MCContents
    MayBe <- MCMayBe
    FirstFiles <- MCFirstFiles
    Large = {big}
    Links = {link}
    Coarse = FALSE
    MaxTime = 3
    MaxEvents = 2
    MaxFaults = 1
CHECK_DEADLOCK FALSE
INVARIANTS
    ValidIsTrue
    ValidHidesNothing
    SaveIsExact
    SaveIsStored
