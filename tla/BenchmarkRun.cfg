SPECIFICATION MCSpec
CONSTANTS
    a1 = a1
    a2 = a2
    corpus = corpus
    labels = labels
    Acquirers <- MCAcquirers
    Files <- MCFiles
    Corpus = corpus
    Labels = labels
    Theirs = Theirs
    Missing = Missing
    None = None
    MaxVersion = 1
    MaxEdits = 2
    MaxCommands = 3
    q1 = q1
    q2 = q2
    q3 = q3
    one = one
    two = two
    page1 = page1
    page2 = page2
    Pages = {page1, page2}
    Asked <- MCAsked
    Slug <- MCSlug
    Plan <- MCPlan
    Gone = Gone
    Unborn = Unborn
    Part = Part
    MaxSource = 1
    MaxChanges = 2
    MaxCalls = 3
    texts = texts
    judged = judged
    SourceFiles <- MCSourceFiles
    PoolPages <- MCPages
    SearchModes = {"hybrid"}
    Nowhere = Nowhere
    MaxText = 1
    MaxMeddlings = 2
    MaxPoolCalls = 3
SYMMETRY MCSymmetry
CHECK_DEADLOCK FALSE
INVARIANTS
    TargetWhole
    PublishedOfItsTrees
    CollectionOfOneSource
    ColdIsCold
    OfficialPool
