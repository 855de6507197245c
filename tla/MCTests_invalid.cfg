SPECIFICATION TestsSpec
CONSTANTS
    Trees <- Siblings
    StageOf <- MCStageOf
    CNames <- MCCNames
    SkipNames <- MCSkipNames
    maxStage = 4
    MaxEntries = 5
    Limits = {19, 30}
INVARIANT InvalidCasesListed
