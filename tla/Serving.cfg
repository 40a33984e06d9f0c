SPECIFICATION MCSpec
CONSTANTS
    r = r
    a = a
    b = b
    none = none
    Requests <- MCRequests
    Contents <- MCContents
    Nothing = none
    Judges = {"off", "unconfigured", "system-one"}
    MaxResponse = 1
    MaxCapture = 1
    MaxChunks = 2
    MaxPublications = 3
    current = current
    older = older
    unknown = unknown
    plain = plain
    accented = accented
    wrapped = wrapped
    Supported = {current, older}
    OtherVersions = {unknown}
    Names <- MCNames
    Wrapped = {wrapped}
    Accented = {accented}
    Ours = Ours
    Missing = Missing
    Null = Null
    Malformed = Malformed
    one = one
    two = two
    Bounds <- MCBounds
    ContextLimit = 2
    GraphLimit = 3
    NeighborLimit = 3
    IntTexts <- MCIntTexts
    LaxTexts <- MCLaxTexts
    FloatTexts <- MCFloatTexts
    Spelling <- MCSpelling
    Parts <- MCParts
    LowerCase <- MCLowerCase
    TrueTexts = {"true", "1"}
    YesTexts = {"true", "1", "t"}
    NoTexts = {"false", "0", "f"}
    Endless = 1000
    Writes <- MCWrites
    Titles = {one, two}
    Broken = Broken
    Settings <- MCSettings
    MaxRetitles = 1
    Unasked = Unasked
    Down = Down
    Refused = Refused
CHECK_DEADLOCK FALSE
INVARIANTS
    MixedShows
    LoggedAsSent
    ForwardedAgrees
    CallsAgree
    ToolsAsListed
PROPERTIES
    EveryRequestEnds
