CONSTANTS
    p1 = p1
    p2 = p2
    c1 = c1
    c2 = c2
    Missing = Missing
    Paths <- MCPaths
    Contents <- MCContents
    MaxMutations = 2
    MaxCrashes = 2
    MaxFaults = 2
    Platforms = {FALSE, TRUE}
SPECIFICATION Spec
SYMMETRY Symmetry
INVARIANTS
    TypeOK
    JournalTruthful
PROPERTIES
    EndsHold
CHECK_DEADLOCK FALSE
