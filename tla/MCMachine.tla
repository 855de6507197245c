----------------------------- MODULE MCMachine -----------------------------
(* Compiled programs of one and two operators of every kind, run on a      *)
(* processor with words of 8 bits, ints and immediates of 5 and bytes of   *)
(* 4, so that every number of interest (the largest int, the width of an   *)
(* int, a number that only a long holds) is small.                         *)
EXTENDS Machine

CONSTANTS Unary, Plain, Logical, Numbers, FewNumbers

T == INSTANCE MCTrees
TreesPrograms == T!MCPrograms
WidePrograms  == T!OneOperator

MCUnary   == {"ARITHMETIC_NEGATION", "BITWISE_NEGATION", "LOGICAL_NEGATION"}
MCLogical == {"LOGICAL_AND", "LOGICAL_OR"}
MCPlain   ==
    {"ADDITION", "SUBTRACTION", "MULTIPLICATION", "DIVISION", "MODULUS", "BITWISE_AND",
     "BITWISE_XOR", "BITWISE_OR", "BITWISE_SHIFT_LEFT", "BITWISE_SHIFT_RIGHT", "LESS",
     "LESS_EQUAL", "GREATER", "GREATER_EQUAL", "EQUALITY", "INEQUALITY"}
=============================================================================
