CONSTANTS
    command = command
    write = write
    w1 = w1
    w2 = w2
    r1 = r1
    r2 = r2
    NoKey = NoKey
    NoOwner = NoOwner
    NoResult = NoResult
    MaxGeneration = 3
    Keys <- MCKeys
    Owners <- MCOwners
    Takeover <- MCTakeover
    Mutating <- MCMutating
    Results <- MCResults
    FailureKinds <- MCFailureKinds
SPECIFICATION Spec
SYMMETRY Symmetry
INVARIANTS
    TypeOK
    OneAnswer
    NonCompensatableOneOwner
PROPERTIES
    NoStealFromLive
    OutcomeSpec
CHECK_DEADLOCK FALSE
