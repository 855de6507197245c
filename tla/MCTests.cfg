SPECIFICATION TestsSpec
CONSTANTS
    Trees <- MCTrees
    StageOf <- MCStageOf
    CNames <- MCCNames
    SkipNames <- MCSkipNames
    maxStage = 4
    MaxEntries = 5
    Limits = {19, 30}
INVARIANTS
    
    VerdictsSound
    PipesSuffice
PROPERTIES
    SuiteEnds
