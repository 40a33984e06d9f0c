\* Two requests at a time in one process or in two, with each failure policy.
SPECIFICATION MCSpec
CONSTANTS
    p1 = p1  p2 = p2  r1 = r1  r2 = r2
    None = None  Bad = Bad
    Procs = {p1, p2}
    Requests = {r1, r2}
    Contents = {1, 2}
    FirstContents = 1
    NodesOf <- MCNodes
    EdgesOf <- MCEdges
    FailFast <- Raising
    GraphFailFast <- Raising
    MaxAsks = 3
    MaxEdits = 2
    MaxFaults = 1
INVARIANTS GraphIsWhole AsWithoutStoresUnlessRaced
PROPERTIES KeepsServing
CHECK_DEADLOCK FALSE
