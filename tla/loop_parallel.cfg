SPECIFICATION Spec
CONSTANTS
    State <- MCState
    Signal <- MCSignal
    Initial = "work"
    Terminal <- MCTerminal
    Declared <- MCDeclared
    Table <- ParallelTable
    Seed = "seed"
    ResumeSignal = "resume"
    AwaitApproval = "await"
    BudgetExhausted = "budget"
    CommandError = "error"
    MaxIterations = 8
    MaxTokens = 3
    ItemCounts = {0, 1, 3}
    Registries = {TRUE, FALSE}
    Persistent = TRUE
    None = None
    Finalized = Finalized
    MaxRestarts = 2
    MaxFailures = 1
INVARIANTS
    OutcomeIsDurable
    BatchesAreSerial
PROPERTY
    KeepsPort
CHECK_DEADLOCK FALSE
