SPECIFICATION MCSpec
CONSTANTS
    Pids = {p1, p2}
    Endpoints = {e1, e2}
    None = none
    FirstPid = p1
    FirstEndpoint = e1
    MaxStarts = 3
    MaxFaults = 1
INVARIANTS ServersAreListed
PROPERTIES RunningKeepsRecord StaleRecordsGo
CHECK_DEADLOCK FALSE
