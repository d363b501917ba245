CONSTANTS
    a = a
    b = b
    Procs <- MCProcs
    ItemCount = 1
    Deps <- MCDeps
    MaxAttempts = 1
    MaxCommands = 2
    MaxCrashes = 0
    MaxStalls = 0
SPECIFICATION Spec
SYMMETRY Symmetry
PROPERTIES
    FailedStaysFailed
CHECK_DEADLOCK FALSE
