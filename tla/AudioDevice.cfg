SPECIFICATION FairSpec
CONSTANTS
    Frame = 2
    Capacity = 1
    Periods = {1, 2}
    MaxCalls = 5
    MaxBoth = 2
INVARIANTS
    NoTornCopy
    OutputExact
    OneEpochFrames
    FailedMeansLost
PROPERTIES
    ImplementsPcmQueue
    CloseReturns
CHECK_DEADLOCK FALSE
