SPECIFICATION FairSpec
CONSTANTS
    Capacity = 2
    Outputs = {0, 1, 2, 3}
    FdLimit = 9
    MaxRuns = 3
INVARIANTS
    TypeOK
    OnlyKnownLeaks
    NoStrayClose
    SetupReleased
    ReturnsHonest
PROPERTY FittingCallReturns
