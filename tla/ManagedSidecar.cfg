\* Two threads in one process or in two, two pages of which one is remembered, a failure or
\* a read under the lock that misses its file, a crash.
SPECIFICATION MCSpec
CONSTANTS
    p1 = p1  p2 = p2  t1 = t1  t2 = t2  a = a  b = b
    Procs = {p1, p2}
    Threads = {t1, t2}
    Pages = {a, b}
    Salts = {1, 2}
    Keys = {1, 2, 3, 4}
    KeyOf <- MCKeyOf
    NoSalt = NoSalt
    NoRecord = NoRecord
    Nothing = Nothing
    HitIncrement = 2
    MaxHitCounter = 3
    MaxHitEntries = 1
    Remaining <- Halving
    MaxSearches = 2
    MaxClock = 1
    MaxFaults = 1
    MaxBlind = 1
    MaxCrashes = 1
INVARIANTS BoostsWereReturned
PROPERTIES KeepsLedger EverySearchEnds
CHECK_DEADLOCK FALSE
