SPECIFICATION Spec
CONSTANTS
    Policies = {"undo", "irreversible", "noop"}
    None = None
    Finalized = Finalized
    MaxSteps = 4
    MaxRollbacks = 3
INVARIANTS
    StoredStepsStand
    WalkIsReported
PROPERTIES
    UndoneOnce
CHECK_DEADLOCK FALSE
