SPECIFICATION MCSpec
CONSTANTS
    Texts <- MCTexts
    Bases <- MCBases
    DigitValue <- MCDigitValue
    MaxInt = 10
    MaxLen = 4
    Slots = {"x", "y", "z"}
    StringTexts <- MCStringTexts
    Separators <- MCSeparators
    MaxLength = 3
    MaxAllocations = 4
    Contents <- MCContents
    DirLength = 1
    InputContents <- MCInputContents
    MaxRuns = 2
    Trees <- MCTrees
    Top <- MCTop
INVARIANTS
    TypeOK
    AccumulatorExact
    ResultCorrect
    OwnershipKept
    SlurpSound
    PairAgrees
    RemovalOutcome
PROPERTIES
    PairKept
    RemovesOnlyInside
