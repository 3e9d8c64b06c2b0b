SPECIFICATION FairSpec
CONSTANTS
    State <- MCState
    Signal <- MCSignal
    Initial = "work"
    Terminal <- MCTerminal
    Declared <- MCDeclared
    Table <- SequentialTable
    Seed = "seed"
    ResumeSignal = "resume"
    AwaitApproval = "await"
    BudgetExhausted = "budget"
    CommandError = "error"
    MaxIterations = 10
    MaxTokens = 6
    ItemCounts = {0, 1, 3}
    Registries = {TRUE}
    Persistent = TRUE
    None = None
    Finalized = Finalized
    MaxRestarts = 2
    MaxFailures = 1
INVARIANTS
    ProgressIsDurable
PROPERTIES
    StoredLogGrows
    FramesEndTruly
    RunEnds
CHECK_DEADLOCK FALSE
