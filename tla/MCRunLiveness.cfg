CONSTANTS
    a = a
    b = b
    Procs <- MCProcs
    ItemCount = 1
    Deps <- MCDeps
    MaxAttempts = 2
    MaxCommands = 2
    MaxCrashes = 0
    MaxStalls = 0
SPECIFICATION LiveSpec
PROPERTIES
    ExecutionEnds
CHECK_DEADLOCK FALSE
