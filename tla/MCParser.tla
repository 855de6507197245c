------------------------------ MODULE MCParser ------------------------------
(* Small alphabets of tokens for the parser.  A level of operators behaves *)
(* the same for each of its operators, so one of a level is enough.        *)
EXTENDS Parser

Punctuation == {Outline[i] : i \in 1..Len(Outline)} \ {"expression"}

(* Every token of a program and every kind of operator the error paths     *)
(* tell apart: unary and binary, whose token is freed and whose is not.    *)
ErrorTokens ==
    Punctuation \cup {"TT_NUM", "TT_MINUS", "TT_STAR", "TT_AMP_AMP", "TT_ERROR", "TT_EOF"}

(* One operator of each of the ten levels, without errors among them.      *)
LevelTokens ==
    Punctuation \cup {"TT_NUM", "TT_PIPE_PIPE", "TT_AMP_AMP", "TT_PIPE", "TT_CARET",
                      "TT_AMP", "TT_EQUAL_EQUAL", "TT_LEFT", "TT_LEFT_LEFT",
                      "TT_PLUS", "TT_PERCENT", "TT_BANG", "TT_EOF"}

(* A run parses the tokens of one of the alphabets.                        *)
CONSTANT Alphabets
VARIABLE alphabet

AllTokens     == ErrorTokens \cup LevelTokens
BothAlphabets == {ErrorTokens, LevelTokens}
OnlyErrors    == {ErrorTokens}

MCInit == Init /\ alphabet \in Alphabets /\ input[1] \in alphabet
MCNext ==
    /\ Next
    /\ input'[Len(input')] \in alphabet
    /\ UNCHANGED alphabet
MCSpec == MCInit /\ [][MCNext]_<<vars, alphabet>>
=============================================================================
