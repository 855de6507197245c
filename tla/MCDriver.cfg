SPECIFICATION FairSpec
CONSTANTS
    CommandLines <- MCCommandLines
INVARIANTS
    CommandLineRead
    LeftHeld
    TempDirRemoved
PROPERTIES
    KeepsPromise
