SPECIFICATION Spec
CONSTANTS
    None = None
    Ill = Ill
    Unset = Unset
    Declared = Declared
    KitPanels <- MCKitPanels
    Registry = {"chat", "observability", "provisioning"}
    Malformed = {"a/b"}
    Docs <- MCDocs
    Mount <- MCMount
    OpenedAt <- MCOpenedAt
    Responses <- MCResponses
    MaxTurns = 2
    MaxChips = 2
    MaxClicks = 4
    Deployed <- Mesh1
    Others <- MCOthers
    RagEdits <- MCRagEdits
    LLMEdits <- MCLLMEdits
    ParamEdits <- MCParamEdits
    MaxRags = 2
    MaxEdits = 2
    MaxOthers = 1
    MaxRollouts = 1
INVARIANTS
    LinksOpenTheirPanels
    TurnsFollowRequests
    AnswerFollowsQuestion
    
PROPERTIES
    PanelsSettle
    AbsentPanelsReturn
CHECK_DEADLOCK FALSE
