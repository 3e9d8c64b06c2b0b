SPECIFICATION Spec
CONSTANTS
    State <- MCState
    Signal <- MCSignal
    Initial = "work"
    Terminal <- MCTerminal
    Declared <- MCDeclared
    Table <- SequentialTable
    Seed = "seed"
    ResumeSignal = "resume"
    AwaitApproval = "await"
    BudgetExhausted = "budget"
    CommandError = "error"
    MaxIterations = 6
    MaxTokens = 3
    ItemCounts = {3}
    Registries = {TRUE}
    Persistent = TRUE
    None = None
    Finalized = Finalized
    MaxRestarts = 0
    MaxFailures = 1
PROPERTIES
    FailedSaveStops
CHECK_DEADLOCK FALSE
