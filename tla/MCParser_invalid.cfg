SPECIFICATION MCSpec
CONSTANTS
    Tokens <- AllTokens
    Alphabets <- OnlyErrors
    MaxTokens = 11
INVARIANTS
    InvalidInputRejected
