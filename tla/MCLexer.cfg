SPECIFICATION MCSpec
CONSTANTS
    Sources <- MCSources
    Letters <- MCLetters
    Keywords <- MCKeywords
    PPKeywords <- MCPPKeywords
    MaxNum = 20
    Chunks <- MixedChunks
    ReleaseChunks <- OperatorChunks
    MaxChunks = 4
INVARIANTS
    TypeOK
    PositionCorrect
    TokensExact
    NumbersExact
PROPERTIES
    SourceLexed
