SPECIFICATION MCSpec
CONSTANTS
    Sources <- MCSources
    Letters <- MCLetters
    Keywords <- MCKeywords
    PPKeywords <- MCPPKeywords
    MaxNum = 20
    Chunks <- DigitChunks
    ReleaseChunks = {}
    MaxChunks = 2
INVARIANT AssertionHolds
