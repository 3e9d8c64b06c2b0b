SPECIFICATION Spec
CONSTANTS
    None = None
    ShownOf <- MCShownOf
    Index <- MCIndex
    Contents <- MCContents
    StateDiagram = TRUE
    MaxMoves = 2
    MaxCalls = 3
    MaxReads = 1
INVARIANTS
    ShownIsSelected
    PanelIsOfDocument
    DocumentIsDrawn
PROPERTIES
    PageSettles
CHECK_DEADLOCK FALSE
