SPECIFICATION LiveSpec
CONSTANTS
    p1 = p1
    p2 = p2
    t1 = t1
    t2 = t2
    s1 = s1
    a = a
    b = b
    Nothing = Nothing
    Procs <- OneProc
    Threads <- TwoThreads
    ProcOf <- SameProc
    Stores <- OneStore
    StoreOf <- SharedStore
    Durable <- OneStore
    Files <- OneFile
    Data = {0, 1}
    InitData = 0
    Interval = 0
    HasManifest = FALSE
    MaxEdits = 2
    MaxClock = 0
    MaxMoves = 0
INVARIANTS StrictFreshnessUnlessRaced
CHECK_DEADLOCK FALSE
PROPERTIES LockReleased
