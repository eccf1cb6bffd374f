SPECIFICATION Spec
CONSTANTS
    MaxWrites = 3
    MaxRestarts = 1
    StoreRejects = TRUE
    OperatorEdits = TRUE
INVARIANTS
    EnabledReachesStore
    QuietDisableHolds
