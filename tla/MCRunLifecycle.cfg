CONSTANTS
    a = a
    b = b
    Procs <- MCProcs
    ItemCount = 2
    Deps <- MCDeps
    MaxAttempts = 1
    MaxCommands = 3
    MaxCrashes = 1
    MaxStalls = 0
SPECIFICATION Spec
SYMMETRY Symmetry
INVARIANTS
    TypeOK
    OneExecution
    CancelledIsUndone
PROPERTIES
    CommittedKeepsEffects
CHECK_DEADLOCK FALSE
