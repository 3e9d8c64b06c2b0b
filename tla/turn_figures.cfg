SPECIFICATION Spec
CONSTANTS
    Undefined = Undefined
    None = None
    FailureSignals <- MCFailureSignals
    Signals <- MCSignals
    Inputs <- MCInputs
    StartSignal = "ok"
    ToolAction = ToolAction
    Tools <- MCTools
    MaxSteps = 2
    MaxClicks = 1
    Milli = 2
    RequestNames <- MCRequestNames
    ToolNames <- MCToolNames
    ResponseWords = {}
    ForcedWords = {}
    ServiceOfHost <- MCServiceOfHost
    PeerKind <- MCPeerKind
    DeclaredInOrder = TRUE
INVARIANTS
    LayoutIsOfMachine
    RunIsDrawnTruly
    TraceIsShownWhole
    WindowReadingsAgree
CHECK_DEADLOCK FALSE
