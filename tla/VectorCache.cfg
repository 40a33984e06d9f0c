SPECIFICATION MCSpec
CONSTANTS
    p1 = p1
    p2 = p2
    r1 = r1
    r2 = r2
    None = None
    SaltLock = SaltLock
    Procs <- TwoProcs
    Requests <- TwoRequests
    ProcOf <- Serves
    Addresses = {1, 2}
    Digests = {1}
    Contents = {1, 2}
    FirstIndex <- TheFirst
    MaxSalts = 3
    MaxFaults = 2
    MaxRefreshes <- RefreshesOne
    Length <- MCLength
    Silent = {"s"}
    Wikis <- MCWikis
    Questions = {"a", "b", "s"}
    MaxChunk = 12
    MinSegment = 4
    TargetTerms = 3
    MaxRows = 1
    BlockRows = 2
    MaxFound = 2
    Missing = Missing
INVARIANTS VectorsOfSnapshot ChunksHoldWords AnswersAreExact
CHECK_DEADLOCK FALSE
PROPERTIES BusyIsRetryable
