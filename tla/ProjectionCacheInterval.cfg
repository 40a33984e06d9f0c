SPECIFICATION Spec
CONSTANTS
    p1 = p1
    p2 = p2
    t1 = t1
    t2 = t2
    s1 = s1
    a = a
    b = b
    Nothing = Nothing
    Procs <- OneProc
    Threads <- OneThread
    ProcOf <- SameProc
    Stores <- OneStore
    StoreOf <- SharedStore
    Durable <- NoStore
    Files <- TwoFiles
    Data = {0, 1}
    InitData = 0
    Interval = 1
    HasManifest = TRUE
    MaxEdits = 2
    MaxClock = 2
    MaxMoves = 1
INVARIANTS
    IntervalVisibility FastForwardServed
CHECK_DEADLOCK FALSE
SYMMETRY FilesAlike
