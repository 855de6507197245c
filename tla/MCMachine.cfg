SPECIFICATION FairSpec
CONSTANTS
    Programs <- TreesPrograms
    Unary <- MCUnary
    Plain <- MCPlain
    Logical <- MCLogical
    Numbers = {0, 1, 3, 5, 15}
    FewNumbers = {0, 2}
    WordBits = 8
    IntBits = 5
    ByteBits = 4
INVARIANTS
    ExecutionSound
PROPERTIES
    ImplementsC
