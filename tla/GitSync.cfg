\* Requests one at a time, on two branches; users act between any two git commands, commands
\* fail, a thread may not start.
SPECIFICATION LiveSpec
CONSTANTS
    r1 = r1  r2 = r2  s1 = s1  s2 = s2  main = main  other = other
    c0 = c0  c1 = c1  c2 = c2  mine = mine
    Requests = {r1}
    Syncs = {s1, s2}
    Branches = {main, other}
    Commits = {c0, c1, c2, mine}
    Ancestors <- MCAncestors
    First = c0
    ConfigBranch = Nothing
    Cooldown = 1
    StartMayFail = TRUE
    MaxPushes = 1
    MaxUserActs = 2
    MaxFailures = 1
    MaxClock = 1
    Nothing = Nothing
PROPERTIES KeepsLocalWork StartedSyncsEnd
CHECK_DEADLOCK FALSE
