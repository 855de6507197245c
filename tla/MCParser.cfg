SPECIFICATION MCSpec
CONSTANTS
    Tokens <- AllTokens
    Alphabets <- BothAlphabets
    MaxTokens = 14
INVARIANTS
    TypeOK
    MemoryAccounted
    NeverStarved
    GrammarExact
    PrecedenceRespected
