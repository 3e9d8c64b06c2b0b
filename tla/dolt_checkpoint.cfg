SPECIFICATION Spec
CONSTANTS
    Callers = {"rows", "terminal items"}
    OtherSteps = {0, 1}
    None = None
    Finalized = Finalized
    MaxSteps = 4
    MaxRestarts = 3
    MaxFailures = 2
INVARIANTS
    StoreIsWhole
PROPERTIES
    ImplementsPort
    HistoryIsKept
CHECK_DEADLOCK FALSE
