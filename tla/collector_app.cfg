SPECIFICATION AppSpec
CONSTANTS
    None = None
    Traces = 5
    Single = {2}
    PageSize = 2
    Chats <- MCChats
    Current = "c1"
    MaxReads = 4
    Spools <- MCSpools
    Buckets = 2
    Edges <- MCEdges
    MaxSelections = 2
CHECK_DEADLOCK FALSE
INVARIANTS
    ShownIsAsked
    NothingIsSkipped
    RegionIsExplained
PROPERTY
    ReadsEnd
