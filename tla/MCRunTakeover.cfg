CONSTANTS
    a = a
    b = b
    Procs <- MCProcs
    ItemCount = 1
    Deps <- MCDeps
    MaxAttempts = 2
    MaxCommands = 2
    MaxCrashes = 0
    MaxStalls = 1
SPECIFICATION Spec
SYMMETRY Symmetry
INVARIANTS
    SucceededIsCommitted
CHECK_DEADLOCK FALSE
