\* Two requests over one checkout nobody else uses, with pushes and failing git
\* commands; and a service over small sources, which users change twice.
SPECIFICATION MCSpec
CONSTANTS
    r1 = r1  r2 = r2  s1 = s1  s2 = s2  main = main  other = other
    c0 = c0  c1 = c1  c2 = c2  mine = mine
    Requests = {r1, r2}
    Syncs = {s1, s2}
    Branches = {main}
    Commits = {c0, c1, c2, mine}
    Ancestors <- MCAncestors
    First = c0
    ConfigBranch = Nothing
    Cooldown = 0
    StartMayFail = FALSE
    MaxPushes = 1
    MaxUserActs = 0
    MaxFailures = 1
    MaxClock = 0
    Nothing = Nothing
    Names <- MCNames
    Contents <- MCContents
    Version <- MCVersion
    Vaults <- MCVaults
    Typed = {"typed"}
    Unclosed = {"open"}
    Invalid = {"invalid"}
    NamesFoam = {"foam"}
    Markdown = {"index.md", "a.md", "hot.md"}
    Org = {"a.org"}
    TypedDirs = {"concepts"}
    HubFiles = {"index.md", "overview.md", "hot.md", "quickstart.md"}
    RootName = "kb"
    Profiles = {"auto", "okf"}
    Absent = Absent
    Trees <- MCTrees
    Writable <- MCWritable
    Creatable <- MCCreatable
    MaxTreeChanges = 2
INVARIANTS SyncedAnswerUnlessUncounted LateIsStaleUnlessEnded
    AnswersAsStarted HubsWhateverMarkers
CHECK_DEADLOCK FALSE
