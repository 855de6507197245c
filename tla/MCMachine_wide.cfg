SPECIFICATION FairSpec
CONSTANTS
    Programs <- WidePrograms
    Unary <- MCUnary
    Plain <- MCPlain
    Logical <- MCLogical
    Numbers = {0, 1, 16}
    FewNumbers = {}
    WordBits = 8
    IntBits = 5
    ByteBits = 4
INVARIANTS
    ExitCodesAgree
