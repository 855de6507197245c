SPECIFICATION MCSpec
CONSTANTS
    Programs <- Nested
    Dumped <- NestedDumped
    Unary <- NestedUnary
    Plain <- NestedPlain
    Logical <- NestedLogical
    Numbers = {1, 2}
    FewNumbers = {}
INVARIANTS
    TypeOK
    LabelsUnique
    JumpsGoForward
    StackBalanced
    DumpSound
