SPECIFICATION MCSpec
CONSTANTS
    p = p
    q = q
    d = d
    t = t
    u = u
    none = none
    Pages <- MCPages
    Ids <- MCIds
    Others <- MCOthers
    None = none
    Relations = {"links_to", "part_of", "tagged", "parent_of"}
    ParentOf = "parent_of"
    MarkerRelation = "tagged"
    MaxDepth = 3
    MaxLimit = 3
    MaxEdges = 5
    MaxReversed = 4
    MaxShared = 2
    g = g
    h = h
    p1 = p1
    p2 = p2
    other = other
    Nil = Nil
    Corpus <- MCCorpus
    Role <- MCRole
    Path <- MCPath
    Variants <- MCVariants
    TieBand = 1
    Boosts <- MCBoosts
    MaxScore = 3
    MaxAnswers = 2
    MaxPublications = 1
    DepthMin = 3
    DepthMultiplier = 1
    DepthCap = 3
    OrientationLimit = 2
    SeedLimit = 1
    PerSeedLimit = 1
    RelatedLimit = 2
    Scale = 7624512
    MaxHeadings = 3
    MaxLevel = 3
    Lengths = {1, 3, 6}
    Budgets = {5}
    MaxRoots = 1
    MaxRanked = 2
CHECK_DEADLOCK FALSE
INVARIANTS
    ApprovedOnly
    WalksAnswered
    RealPaths
    EverythingOnce
    BetterFirst
    NothingLost
