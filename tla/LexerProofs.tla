---------------------------- MODULE LexerProofs ----------------------------
(* Proofs about the lexer: its cursor stays in the source, the lines and   *)
(* columns it counts are those of the text, and the tokens it hands out    *)
(* are the longest lexemes of the text, with their types and values, for   *)
(* every source, keyword table and literal bound.                          *)
EXTENDS Lexer, SequenceTheorems, FiniteSetTheorems, TLAPS

(* Token values range over what str2i64 may return; nothing below depends  *)
(* on the arithmetic.                                                      *)
Values   == {0} \cup {Str2I64(t) : t \in Seq(STRING)}
TokenSet == [type : TokenTypes, start : Nat, end : Nat, loc : Nat \X Nat, value : Values]

TypeInv ==
    /\ ndebug \in BOOLEAN /\ src \in Seq(STRING)
    /\ pos \in Nat /\ pos <= Len(src)
    /\ line \in Nat \ {0} /\ column \in Nat \ {0}
    /\ tokenStart \in Nat /\ tokenStart <= pos
    /\ tokenStartLoc \in Nat \X Nat
    /\ canLexHeaderName \in BOOLEAN
    /\ pc \in {"skip", "comment", "word", "number", "pp", "header", "ready", "aborted"}
    /\ tokens \in Seq(TokenSet)
    /\ pc = "ready" => tokens # <<>>

(* The cursor moves forward inside the source.                             *)
LEMMA AdvanceTyped ==
    ASSUME TypeInv, NEW n \in {1, 2}, pos + n <= Len(src), Advance(n)
    PROVE  /\ pos' \in Nat /\ pos' = pos + n /\ pos' <= Len(src)
           /\ line' \in Nat \ {0} /\ column' \in Nat \ {0}
    BY SMT DEF TypeInv, Advance

(* Handing out a token keeps the history a sequence of tokens.             *)
LEMMA EmitTyped ==
    ASSUME TypeInv, NEW type \in TokenTypes, NEW start \in Nat,
           NEW loc \in Nat \X Nat, NEW value \in Values, pos' \in Nat,
           Emit(type, start, loc, value)
    PROVE  /\ tokens' \in Seq(TokenSet) /\ tokens' # <<>> /\ pc' = "ready"
           /\ tokens' = Append(tokens, Token(type, start, pos', loc, value))
<1>1. Token(type, start, pos', loc, value) \in TokenSet
  BY DEF Token, TokenSet
<1> QED BY <1>1 DEF TypeInv, Emit
----------------------------------------------------------------------------
(* Every token type lex() can hand out is one of TokenTypes. *)
LEMMA TypesCovered ==
    /\ \A c \in DOMAIN Single : Single[c] \in TokenTypes
    /\ \A c \in DOMAIN Solo : Solo[c] \in TokenTypes
    /\ \A c, d : PairType(c, d) \in TokenTypes
    /\ \A t \in DOMAIN Keywords : Keywords[t] \in TokenTypes
    /\ \A t \in DOMAIN PPKeywords : PPKeywords[t] \in TokenTypes
    /\ {"TT_EOF", "TT_ERROR", "TT_IDENT", "TT_NUM", "TT_HEADER_NAME"} \subseteq TokenTypes
    BY DEF TokenTypes, PairType

(* A pair never contains a newline, nor does a comment opener.             *)
LEMMA PairSpansNoNewline ==
    /\ \A c, d : IsPair(c, d) => c # NL /\ d # NL
    BY DEF IsPair, PairType, NL

(* The two-character steps of the lexer stay inside the source.            *)
LEMMA TwoLeft ==
    ASSUME TypeInv
    PROVE  /\ AtPair => pos + 2 <= Len(src)
           /\ AtComment => pos + 2 <= Len(src)
           /\ \A set : PeekIs(0, set) => pos + 1 <= Len(src)
           /\ ~AtEnd => pos + 1 <= Len(src)
    BY DEF TypeInv, AtPair, AtComment, PeekIs, AtEnd

LEMMA TextTyped ==
    ASSUME TypeInv
    PROVE  TextOf(tokenStart, pos) \in Seq(STRING)
    BY DEF TypeInv, TextOf

LEMMA TypeInvInit == Init => TypeInv
<1> SUFFICES ASSUME Init PROVE TypeInv
  OBVIOUS
<1>1. src \in Seq(STRING) /\ Len(src) \in Nat
  BY SourcesAssumption DEF Init
<1>2. tokens \in Seq(TokenSet)
  BY DEF Init
<1>3. tokenStartLoc \in Nat \X Nat BY DEF Init
<1>4. canLexHeaderName \in BOOLEAN /\ ndebug \in BOOLEAN BY Zenon DEF Init
<1>5. pos \in Nat /\ pos <= Len(src) /\ tokenStart \in Nat /\ tokenStart <= pos
  BY <1>1, SMT DEF Init
<1>6. line \in Nat \ {0} /\ column \in Nat \ {0}
  BY SMT DEF Init
<1>7. pc = "skip" BY DEF Init
<1> QED BY <1>1, <1>2, <1>3, <1>4, <1>5, <1>6, <1>7 DEF TypeInv

LEMMA TypeInvNext == TypeInv /\ [Next]_vars => TypeInv'
<1> SUFFICES ASSUME TypeInv, [Next]_vars PROVE TypeInv'
  OBVIOUS
<1> USE TypesCovered, TwoLeft
<1>1. CASE SkipBlank
  <2>1. pos + 1 <= Len(src) BY <1>1 DEF SkipBlank
  <2> QED BY <1>1, <2>1, AdvanceTyped DEF SkipBlank, TypeInv, Start
<1>2. CASE OpenComment
  BY <1>2, AdvanceTyped DEF OpenComment, TypeInv, Start
<1>3. CASE CommentChar
  <2>1. pos + 1 <= Len(src) BY <1>3 DEF CommentChar
  <2> QED BY <1>3, <2>1, AdvanceTyped DEF CommentChar, TypeInv, Start
<1>4. CASE CloseComment
  BY <1>4 DEF CloseComment, TypeInv, Start, Cursor
<1>5. CASE LexEOF
  <2>1. pos' \in Nat /\ pos' <= Len(src) /\ <<line, column>> \in Nat \X Nat
    BY <1>5 DEF LexEOF, Cursor, TypeInv
  <2>2. tokens' \in Seq(TokenSet) /\ tokens' # <<>> /\ pc' = "ready"
    BY <1>5, <2>1, EmitTyped DEF LexEOF, Values, TypeInv
  <2> QED BY <1>5, <2>1, <2>2 DEF LexEOF, BeginToken, Cursor, TypeInv
<1>6. CASE LexSingle
  <2>1. pos + 1 <= Len(src) /\ <<line, column>> \in Nat \X Nat
        /\ Single[src[pos + 1]] \in TokenTypes
    BY <1>6 DEF LexSingle, PeekIs, TypeInv
  <2>2. pos' \in Nat /\ pos' = pos + 1 /\ pos' <= Len(src)
        /\ line' \in Nat \ {0} /\ column' \in Nat \ {0}
    BY <1>6, <2>1, AdvanceTyped DEF LexSingle
  <2>3. tokens' \in Seq(TokenSet) /\ tokens' # <<>> /\ pc' = "ready"
    BY <1>6, <2>1, <2>2, EmitTyped DEF LexSingle, Values, TypeInv
  <2> QED BY <1>6, <2>1, <2>2, <2>3 DEF LexSingle, BeginToken, TypeInv
<1>7. CASE LexPair
  <2>1. pos + 2 <= Len(src) /\ <<line, column>> \in Nat \X Nat
        /\ PairType(src[pos + 1], src[pos + 2]) \in TokenTypes
    BY <1>7 DEF LexPair, TypeInv
  <2>2. pos' \in Nat /\ pos' = pos + 2 /\ pos' <= Len(src)
        /\ line' \in Nat \ {0} /\ column' \in Nat \ {0}
    BY <1>7, <2>1, AdvanceTyped DEF LexPair
  <2>3. tokens' \in Seq(TokenSet) /\ tokens' # <<>> /\ pc' = "ready"
    BY <1>7, <2>1, <2>2, EmitTyped DEF LexPair, Values, TypeInv
  <2> QED BY <1>7, <2>1, <2>2, <2>3 DEF LexPair, BeginToken, TypeInv
<1>8. CASE LexSolo
  <2>1. pos + 1 <= Len(src) /\ <<line, column>> \in Nat \X Nat
        /\ Solo[src[pos + 1]] \in TokenTypes
    BY <1>8 DEF LexSolo, AtOperator, PeekIs, TypeInv
  <2>2. pos' \in Nat /\ pos' = pos + 1 /\ pos' <= Len(src)
        /\ line' \in Nat \ {0} /\ column' \in Nat \ {0}
    BY <1>8, <2>1, AdvanceTyped DEF LexSolo
  <2>3. tokens' \in Seq(TokenSet) /\ tokens' # <<>> /\ pc' = "ready"
    BY <1>8, <2>1, <2>2, EmitTyped DEF LexSolo, Values, TypeInv
  <2> QED BY <1>8, <2>1, <2>2, <2>3 DEF LexSolo, BeginToken, TypeInv
<1>9. CASE LexUnknown
  <2>1. pos + 1 <= Len(src) /\ <<line, column>> \in Nat \X Nat
    BY <1>9 DEF LexUnknown, TypeInv
  <2>2. pos' \in Nat /\ pos' = pos + 1 /\ pos' <= Len(src)
        /\ line' \in Nat \ {0} /\ column' \in Nat \ {0}
    BY <1>9, <2>1, AdvanceTyped DEF LexUnknown
  <2>3. tokens' \in Seq(TokenSet) /\ tokens' # <<>> /\ pc' = "ready"
    BY <1>9, <2>1, <2>2, EmitTyped DEF LexUnknown, Values, TypeInv
  <2> QED BY <1>9, <2>1, <2>2, <2>3 DEF LexUnknown, BeginToken, TypeInv
<1>10. ASSUME NEW set, NEW loop \in {"word", "number", "pp", "header"},
              LexLong(set, loop), canLexHeaderName' \in BOOLEAN
       PROVE  TypeInv'
  <2>1. pos + 1 <= Len(src) /\ <<line, column>> \in Nat \X Nat
    BY <1>10 DEF LexLong, TypeInv
  <2>2. pos' \in Nat /\ pos' = pos + 1 /\ pos' <= Len(src)
        /\ line' \in Nat \ {0} /\ column' \in Nat \ {0}
    BY <1>10, <2>1, AdvanceTyped DEF LexLong
  <2> QED BY <1>10, <2>1, <2>2 DEF LexLong, BeginToken, TypeInv
<1>11. CASE LexWord
  BY <1>10, <1>11 DEF LexWord, TypeInv
<1>12. CASE LexNumber
  BY <1>10, <1>12 DEF LexNumber, TypeInv
<1>13. CASE LexHash
  BY <1>10, <1>13 DEF LexHash, TypeInv
<1>14. CASE LexHeader
  BY <1>10, <1>14 DEF LexHeader, TypeInv
<1>15. CASE LoopChar
  <2>1. pos + 1 <= Len(src) BY <1>15 DEF LoopChar
  <2> QED BY <1>15, <2>1, AdvanceTyped DEF LoopChar, TypeInv, Start
<1>16. ASSUME NEW type \in TokenTypes, NEW value \in Values,
              Finish(type, value), canLexHeaderName' \in BOOLEAN
       PROVE  TypeInv'
  <2>1. pos' \in Nat BY <1>16 DEF Finish, Cursor, TypeInv
  <2>2. tokens' \in Seq(TokenSet) /\ tokens' # <<>> /\ pc' = "ready"
    BY <1>16, <2>1, EmitTyped DEF Finish, TypeInv
  <2> QED BY <1>16, <2>2 DEF Finish, Cursor, Start, TypeInv
<1>17. CASE EndWord
  BY <1>16, <1>17 DEF EndWord, TypeInv, Values
<1>18. CASE EndNumber
  <2>1. Str2I64(TextOf(tokenStart, pos)) \in Values BY TextTyped DEF Values
  <2>2. CASE pc' = "aborted" /\ UNCHANGED <<ndebug, src, Cursor, Start, tokens>>
    BY <1>18, <2>2 DEF EndNumber, Cursor, Start, TypeInv
  <2> QED BY <1>16, <1>18, <2>1, <2>2 DEF EndNumber, TypeInv, Values
<1>19. CASE EndPPKeyword
  BY <1>16, <1>19 DEF EndPPKeyword, TypeInv, Values
<1>20. CASE HeaderChar
  <2>1. pos + 1 <= Len(src) BY <1>20 DEF HeaderChar
  <2> QED BY <1>20, <2>1, AdvanceTyped DEF HeaderChar, TypeInv, Start
<1>21. CASE CloseHeader
  <2>1. pos + 1 <= Len(src) BY <1>21 DEF CloseHeader
  <2>2. pos' \in Nat /\ pos' = pos + 1 /\ pos' <= Len(src)
        /\ line' \in Nat \ {0} /\ column' \in Nat \ {0}
    BY <1>21, <2>1, AdvanceTyped DEF CloseHeader
  <2>3. tokens' \in Seq(TokenSet) /\ tokens' # <<>> /\ pc' = "ready"
    BY <1>21, <2>2, EmitTyped DEF CloseHeader, Values, TypeInv
  <2> QED BY <1>21, <2>2, <2>3 DEF CloseHeader, Start, TypeInv
<1>22. CASE BreakHeader
  BY <1>16, <1>22 DEF BreakHeader, TypeInv, Values
<1>23. CASE LexerNext
  BY <1>23 DEF LexerNext, Cursor, Start, TypeInv
<1>24. CASE UNCHANGED vars
  BY <1>24 DEF vars, TypeInv
<1> QED
  BY <1>1, <1>2, <1>3, <1>4, <1>5, <1>6, <1>7, <1>8, <1>9, <1>11, <1>12, <1>13,
     <1>14, <1>15, <1>17, <1>18, <1>19, <1>20, <1>21, <1>22, <1>23, <1>24
     DEF Next, Skip, Dispatch, Loop, Terminating

LEMMA TypeInvAlways == Spec => []TypeInv
    BY TypeInvInit, TypeInvNext, PTL DEF Spec

(* The lexer's variables keep their types and its cursor never leaves the  *)
(* source text, whatever the text and the keyword tables.                  *)
THEOREM LexerTypeOK == Spec => []TypeOK
<1>1. ASSUME TypeInv PROVE TypeOK
  <2>1. \A i \in 1..Len(tokens) : tokens[i] \in TokenSet
    BY <1>1 DEF TypeInv
  <2>2. \A i \in 1..Len(tokens) : IsToken(tokens[i])
    BY <2>1 DEF TokenSet, IsToken
  <2> QED BY <1>1, <2>2 DEF TypeInv, TypeOK
<1> QED BY <1>1, TypeInvAlways, PTL
----------------------------------------------------------------------------
(* One more character: one more line when it is a newline. *)
LEMMA LineStep ==
    ASSUME NEW k \in Nat
    PROVE  /\ LineOf(k) \in Nat
           /\ LineOf(k + 1) = IF src[k + 1] = NL THEN LineOf(k) + 1 ELSE LineOf(k)
<1> DEFINE S(n) == {j \in 1..n : src[j] = NL}
<1>1. \A n \in Nat : IsFiniteSet(S(n)) /\ Cardinality(S(n)) \in Nat
  <2> TAKE n \in Nat
  <2>1. IsFiniteSet(1..n) BY FS_Interval
  <2>2. IsFiniteSet(S(n)) BY <2>1, FS_Subset
  <2> QED BY <2>2, FS_CardinalityType
<1>2. \A n \in Nat : LineOf(n) = 1 + Cardinality(S(n))
  BY DEF LineOf
<1>3. src[k + 1] = NL => S(k + 1) = S(k) \cup {k + 1} /\ k + 1 \notin S(k)
  OBVIOUS
<1>4. src[k + 1] # NL => S(k + 1) = S(k)
  OBVIOUS
<1> HIDE DEF S
<1>5. k + 1 \in Nat
  OBVIOUS
<1>6. CASE src[k + 1] = NL
  <2>1. Cardinality(S(k + 1)) = Cardinality(S(k)) + 1
    BY <1>3, <1>6, <1>1, FS_AddElement
  <2> QED BY <2>1, <1>1, <1>2, <1>5, <1>6
<1>7. CASE src[k + 1] # NL
  BY <1>1, <1>2, <1>4, <1>5, <1>7
<1> QED BY <1>6, <1>7

(* One more character: the column restarts after a newline and counts on   *)
(* after any other.                                                        *)
LEMMA ColumnStep ==
    ASSUME NEW k \in Nat, NEW c, ColumnIs(k, c)
    PROVE  ColumnIs(k + 1, IF src[k + 1] = NL THEN 1 ELSE c + 1)
<1>1. c \in Nat /\ 1 <= c /\ c <= k + 1
  BY DEF ColumnIs
<1>2. CASE src[k + 1] = NL
  BY <1>2 DEF ColumnIs
<1>3. CASE src[k + 1] # NL
  <2>1. \A j \in (k + 1 + 2 - (c + 1))..(k + 1) : src[j] # NL
    <3> TAKE j \in (k + 1 + 2 - (c + 1))..(k + 1)
    <3>1. j = k + 1 \/ j \in (k + 2 - c)..k BY <1>1
    <3> QED BY <3>1, <1>3 DEF ColumnIs
  <2>2. c + 1 = k + 1 + 1 \/ src[k + 1 + 1 - (c + 1)] = NL
    <3>1. k + 1 + 1 - (c + 1) = k + 1 - c BY <1>1
    <3> QED BY <3>1, <1>1 DEF ColumnIs
  <2>3. c + 1 \in 1..(k + 1 + 1) BY <1>1
  <2> QED BY <2>1, <2>2, <2>3, <1>3 DEF ColumnIs
<1> QED BY <1>2, <1>3

LEMMA LocationStep ==
    ASSUME NEW k \in Nat, NEW l, NEW c, LocationIs(k, <<l, c>>)
    PROVE  LocationIs(k + 1, IF src[k + 1] = NL THEN <<l + 1, 1>> ELSE <<l, c + 1>>)
    BY LineStep, ColumnStep DEF LocationIs

(* lexer_advance keeps the location of the cursor right.                   *)
LEMMA AdvanceLocates ==
    ASSUME TypeInv, LocationIs(pos, <<line, column>>), NEW n \in {1, 2}, Advance(n),
           n = 2 => src[pos + 1] # NL /\ src[pos + 2] # NL
    PROVE  LocationIs(pos', <<line', column'>>)
<1>0. pos \in Nat /\ line \in Nat /\ column \in Nat BY DEF TypeInv
<1>1. CASE n = 1
  <2>1. LocationIs(pos + 1, IF src[pos + 1] = NL THEN <<line + 1, 1>>
                                                 ELSE <<line, column + 1>>)
    BY <1>0, LocationStep
  <2> QED BY <1>1, <2>1 DEF Advance
<1>2. CASE n = 2
  <2>1. LocationIs(pos + 1, <<line, column + 1>>)
    BY <1>0, <1>2, LocationStep
  <2>2. LocationIs(pos + 1 + 1, <<line, column + 1 + 1>>)
    <3>1. src[pos + 1 + 1] # NL /\ pos + 1 \in Nat BY <1>2, <1>0
    <3> QED BY <1>0, <2>1, <3>1, LocationStep
  <2>3. pos + 1 + 1 = pos + 2 /\ column + 1 + 1 = column + 2 BY <1>0
  <2> QED BY <1>2, <2>2, <2>3 DEF Advance
<1> QED BY <1>1, <1>2

(* The source never changes, so a location is right in the next state when *)
(* it is right in this one.                                                *)
LEMMA LocationsCarryOver ==
    ASSUME src' = src
    PROVE  PositionCorrect' <=>
             /\ LocationIs(pos', <<line', column'>>)
             /\ LocationIs(tokenStart', tokenStartLoc')
             /\ \A i \in 1..Len(tokens') : LocationIs(tokens'[i].start, tokens'[i].loc)
    BY DEF PositionCorrect, LocationIs, LineOf, ColumnIs

LEMMA PositionInit == Init => PositionCorrect
<1> SUFFICES ASSUME Init PROVE PositionCorrect
  OBVIOUS
<1>1. LineOf(0) = 1
  <2>1. {j \in 1..0 : src[j] = NL} = {} OBVIOUS
  <2> QED BY <2>1, FS_EmptySet DEF LineOf
<1>2. ColumnIs(0, 1)
  BY DEF ColumnIs
<1> QED BY <1>1, <1>2 DEF Init, PositionCorrect, LocationIs

LEMMA PositionNext == TypeInv /\ PositionCorrect /\ [Next]_vars => PositionCorrect'
<1> SUFFICES ASSUME TypeInv, PositionCorrect, [Next]_vars PROVE PositionCorrect'
  OBVIOUS
<1> DEFINE CursorOK == LocationIs(pos', <<line', column'>>)
           StartOK  == LocationIs(tokenStart', tokenStartLoc')
           TokensOK == \A i \in 1..Len(tokens') : LocationIs(tokens'[i].start, tokens'[i].loc)
<1>1. src' = src
  BY DEF Next, Skip, Dispatch, Loop, Terminating, SkipBlank, OpenComment, CommentChar,
         CloseComment, LexEOF, LexSingle, LexPair, LexSolo, LexUnknown, LexWord,
         LexNumber, LexHash, LexHeader, LexLong, BeginToken, LoopChar, EndWord,
         EndNumber, EndPPKeyword, HeaderChar, CloseHeader, BreakHeader, Finish,
         LexerNext, vars
<1>2. SUFFICES CursorOK /\ StartOK /\ TokensOK
  BY <1>1, LocationsCarryOver
<1>3. LocationIs(pos, <<line, column>>) /\ LocationIs(tokenStart, tokenStartLoc)
      /\ \A i \in 1..Len(tokens) : LocationIs(tokens[i].start, tokens[i].loc)
  BY DEF PositionCorrect
<1>4. ASSUME NEW type, NEW start, NEW loc, NEW value, Emit(type, start, loc, value),
             LocationIs(start, loc)
      PROVE  TokensOK
  <2>1. tokens' = Append(tokens, Token(type, start, pos', loc, value)) BY <1>4 DEF Emit
  <2>2. tokens \in Seq(TokenSet) BY DEF TypeInv
  <2>3. /\ Len(tokens') = Len(tokens) + 1 /\ Len(tokens) \in Nat
        /\ \A i \in 1..Len(tokens) : tokens'[i] = tokens[i]
        /\ tokens'[Len(tokens) + 1] = Token(type, start, pos', loc, value)
    BY <2>1, <2>2
  <2>4. Token(type, start, pos', loc, value).start = start
        /\ Token(type, start, pos', loc, value).loc = loc
    BY DEF Token
  <2> SUFFICES ASSUME NEW i \in 1..(Len(tokens) + 1)
               PROVE  LocationIs(tokens'[i].start, tokens'[i].loc)
    BY <2>3
  <2>5. CASE i \in 1..Len(tokens)
    BY <1>3, <2>3, <2>5
  <2>6. CASE i = Len(tokens) + 1
    <3>1. tokens'[i] = Token(type, start, pos', loc, value) BY <2>3, <2>6
    <3>2. tokens'[i].start = start /\ tokens'[i].loc = loc BY <3>1, <2>4
    <3> QED BY <1>4, <3>2
  <2> QED BY <2>3, <2>5, <2>6
<1>5. tokens' = tokens => TokensOK
  BY <1>3
<1>6. UNCHANGED Start => StartOK
  BY <1>3 DEF Start
<1>7. UNCHANGED Cursor => CursorOK
  BY <1>3 DEF Cursor
<1>8. Advance(1) => CursorOK
  BY <1>3, AdvanceLocates
<1>9. BeginToken => StartOK
  BY <1>3 DEF BeginToken
<1> HIDE DEF CursorOK, StartOK, TokensOK
<1>10. CASE SkipBlank \/ CommentChar \/ LoopChar \/ HeaderChar
  BY <1>5, <1>6, <1>8, <1>10 DEF SkipBlank, CommentChar, LoopChar, HeaderChar
<1>11. CASE OpenComment
  <2>1. src[pos + 1] # NL /\ src[pos + 2] # NL
    BY <1>11 DEF OpenComment, AtComment, PeekIs, NL, TypeInv
  <2>2. CursorOK
    BY <1>11, <1>3, <2>1, AdvanceLocates DEF OpenComment, CursorOK
  <2> QED BY <1>11, <2>2, <1>5, <1>6 DEF OpenComment
<1>12. CASE CloseComment \/ LexerNext \/ Terminating \/ UNCHANGED vars
  BY <1>5, <1>6, <1>7, <1>12 DEF CloseComment, LexerNext, Terminating, vars, Start, Cursor
<1>13. CASE LexEOF
  BY <1>13, <1>3, <1>4, <1>7, <1>9 DEF LexEOF
<1>14. CASE LexSingle \/ LexSolo \/ LexUnknown
  BY <1>14, <1>3, <1>4, <1>8, <1>9 DEF LexSingle, LexSolo, LexUnknown
<1>15. CASE LexPair
  <2>1. src[pos + 1] # NL /\ src[pos + 2] # NL
    BY <1>15, PairSpansNoNewline DEF LexPair, AtPair
  <2>2. CursorOK
    BY <1>15, <1>3, <2>1, AdvanceLocates DEF LexPair, CursorOK
  <2> QED BY <1>15, <2>2, <1>3, <1>4, <1>9 DEF LexPair
<1>16. CASE LexWord \/ LexNumber \/ LexHash \/ LexHeader
  BY <1>16, <1>5, <1>8, <1>9 DEF LexWord, LexNumber, LexHash, LexHeader, LexLong
<1>17. ASSUME NEW type, NEW value, Finish(type, value)
       PROVE  CursorOK /\ StartOK /\ TokensOK
  BY <1>17, <1>3, <1>4, <1>6, <1>7 DEF Finish
<1>18. CASE EndWord \/ EndPPKeyword \/ BreakHeader
  BY <1>17, <1>18 DEF EndWord, EndPPKeyword, BreakHeader
<1>19. CASE EndNumber
  BY <1>17, <1>19, <1>5, <1>6, <1>7 DEF EndNumber
<1>20. CASE CloseHeader
  BY <1>20, <1>3, <1>4, <1>6, <1>8 DEF CloseHeader
<1> QED
  BY <1>10, <1>11, <1>12, <1>13, <1>14, <1>15, <1>16, <1>18, <1>19, <1>20
     DEF Next, Skip, Dispatch, Loop

(* The line and column of every token are those of the text it starts at.  *)
(* TypeInv is needed to know that the cursor is a number and that no step  *)
(* of two characters crosses a newline.                                    *)
THEOREM LexerPositions == Spec => []PositionCorrect
    BY PositionInit, PositionNext, TypeInvAlways, PTL DEF Spec
----------------------------------------------------------------------------
(* The tokens: what lies between them, and what they are. *)

(* The characters that start different things are different.               *)
LEMMA CharClasses ==
    /\ DOMAIN Single = {"{", "}", "(", ")", ";", "-", "~", "^", "+", "*", "/", "%"}
    /\ DOMAIN Solo = {"!", "&", "|", "=", ">", "<"}
    /\ \A c \in Letters : c \notin Digits /\ c \notin Blanks /\ c # "#"
                          /\ c \notin DOMAIN Single /\ c \notin DOMAIN Solo
    /\ \A c \in Digits : c # "#" /\ c \notin DOMAIN Single /\ c \notin DOMAIN Solo
    /\ \A c \in DOMAIN Single : c # "#" /\ c \notin DOMAIN Solo
    /\ "#" \notin DOMAIN Solo /\ "<" \in DOMAIN Solo /\ "/" \in DOMAIN Single
    /\ \A c, d : IsPair(c, d) => c \in DOMAIN Solo
<1>1. /\ DOMAIN Single = {"{", "}", "(", ")", ";", "-", "~", "^", "+", "*", "/", "%"}
      /\ DOMAIN Solo = {"!", "&", "|", "=", ">", "<"}
  BY DEF Single, Solo
<1>2. \A c, d : IsPair(c, d) => c \in DOMAIN Solo
  BY <1>1 DEF IsPair, PairType
<1>3. \A c \in Letters : c \notin Digits /\ c \notin Blanks /\ c # "#"
                         /\ c \notin DOMAIN Single /\ c \notin DOMAIN Solo
  BY TablesAssumption
<1>4. \A c \in Digits : c # "#" /\ c \notin DOMAIN Single /\ c \notin DOMAIN Solo
  BY <1>1 DEF Digits
<1>5. \A c \in DOMAIN Single : c # "#" /\ c \notin DOMAIN Solo
  BY <1>1
<1> QED BY <1>1, <1>2, <1>3, <1>4, <1>5

(* Types that lex() gives to one kind of token only.                       *)
LEMMA TypesApart ==
    /\ \A c \in DOMAIN Single : Single[c] \notin {"TT_EOF", "TT_NUM", "PP_INCLUDE"}
    /\ \A c \in DOMAIN Solo : Solo[c] \notin {"TT_EOF", "TT_NUM", "PP_INCLUDE"}
    /\ \A c, d : PairType(c, d) \notin {"TT_EOF", "TT_NUM", "PP_INCLUDE"}
    /\ \A text \in DOMAIN Keywords : Keywords[text] \notin {"TT_EOF", "TT_NUM", "PP_INCLUDE"}
    /\ \A text \in DOMAIN PPKeywords : PPKeywords[text] = "PP_INCLUDE"
<1>1. \A c \in DOMAIN Single : Single[c] \notin {"TT_EOF", "TT_NUM", "PP_INCLUDE"}
  BY DEF Single
<1>2. \A c \in DOMAIN Solo : Solo[c] \notin {"TT_EOF", "TT_NUM", "PP_INCLUDE"}
  BY DEF Solo
<1>3. \A c, d : PairType(c, d) \notin {"TT_EOF", "TT_NUM", "PP_INCLUDE"}
  BY DEF PairType
<1> QED BY <1>1, <1>2, <1>3, TablesAssumption

(* The text between two places.                                            *)
LEMMA TextPlaces ==
    ASSUME src \in Seq(STRING), NEW s \in Nat, NEW e \in Nat, s < e, e <= Len(src)
    PROVE  /\ TextOf(s, e) \in Seq(STRING) /\ Len(TextOf(s, e)) = e - s
           /\ e - s \in Nat \ {0}
           /\ TextOf(s, e)[1] = src[s + 1]
           /\ \A k \in 1..(e - s) : TextOf(s, e)[k] = src[s + k]
<1>1. Len(src) \in Nat /\ \A i \in (s + 1)..e : i \in 1..Len(src)
  OBVIOUS
<1>2. /\ SubSeq(src, s + 1, e) \in Seq(STRING)
      /\ Len(SubSeq(src, s + 1, e)) = IF s + 1 <= e THEN e - (s + 1) + 1 ELSE 0
      /\ \A k \in 1..(e - (s + 1) + 1) : SubSeq(src, s + 1, e)[k] = src[s + 1 + k - 1]
  <2>1. s + 1 \in Int /\ e \in Int /\ \A i \in (s + 1)..e : src[i] \in STRING
    BY <1>1
  <2> QED BY <2>1, SubSeqProperties
<1>3. e - (s + 1) + 1 = e - s /\ s + 1 <= e /\ e - s \in Nat \ {0} /\ 1 \in 1..(e - s)
  OBVIOUS
<1>4. \A k \in 1..(e - s) : s + 1 + k - 1 = s + k
  OBVIOUS
<1> DEFINE text == TextOf(s, e)
<1>5. /\ text \in Seq(STRING) /\ Len(text) = e - s
      /\ \A k \in 1..(e - s) : text[k] = src[s + k]
  BY <1>2, <1>3, <1>4 DEF TextOf
<1> QED BY <1>3, <1>5

(* What a lexeme looks like, by its first character.                       *)
LEMMA ShapesByStart ==
    ASSUME NEW text \in Seq(STRING), Len(text) # 0, NEW armed \in BOOLEAN
    PROVE  /\ text[1] \in Letters =>
                  (Shaped(text, armed) <=> AllIn(text, 2, Letters \cup Digits))
           /\ text[1] \in Digits => (Shaped(text, armed) <=> AllIn(text, 2, Digits))
           /\ text[1] = "#" => (Shaped(text, armed) <=> AllIn(text, 2, Letters))
           /\ text[1] \in DOMAIN Single => (Shaped(text, armed) <=> Len(text) = 1)
           /\ text[1] \in DOMAIN Solo /\ ~(armed /\ text[1] = "<") =>
                  (Shaped(text, armed) <=> \/ Len(text) = 1 /\ text[1] # "="
                                           \/ Len(text) = 2 /\ IsPair(text[1], text[2]))
           /\ armed /\ text[1] = "<" =>
                  (Shaped(text, armed) <=>
                      \A k \in 2..Len(text) :
                          text[k] # NL /\ (k < Len(text) => text[k] # ">"))
           /\ text[1] \notin DOMAIN Single \cup DOMAIN Solo \cup Letters \cup Digits \cup {"#"} =>
                  ~Shaped(text, armed)
<1> USE CharClasses
<1>1. text[1] \in Letters => (Shaped(text, armed) <=> AllIn(text, 2, Letters \cup Digits))
  BY DEF Shaped
<1>2. text[1] \in Digits => (Shaped(text, armed) <=> AllIn(text, 2, Digits))
  BY DEF Shaped
<1>3. text[1] = "#" => (Shaped(text, armed) <=> AllIn(text, 2, Letters))
  BY DEF Shaped
<1>4. text[1] \in DOMAIN Single => (Shaped(text, armed) <=> Len(text) = 1)
  BY DEF Shaped
<1>5. text[1] \in DOMAIN Solo /\ ~(armed /\ text[1] = "<") =>
          (Shaped(text, armed) <=> \/ Len(text) = 1 /\ text[1] # "="
                                   \/ Len(text) = 2 /\ IsPair(text[1], text[2]))
  BY DEF Shaped
<1>6. armed /\ text[1] = "<" =>
          (Shaped(text, armed) <=>
              \A k \in 2..Len(text) : text[k] # NL /\ (k < Len(text) => text[k] # ">"))
  BY DEF Shaped
<1>7. text[1] \notin DOMAIN Single \cup DOMAIN Solo \cup Letters \cup Digits \cup {"#"} =>
          ~Shaped(text, armed)
  BY DEF Shaped
<1> QED BY <1>1, <1>2, <1>3, <1>4, <1>5, <1>6, <1>7

LEMMA TypesByStart ==
    ASSUME NEW text, NEW armed \in BOOLEAN
    PROVE  /\ text[1] \in Letters =>
                  Classify(text, armed)
                  = IF text \in DOMAIN Keywords THEN Keywords[text] ELSE "TT_IDENT"
           /\ text[1] \in Digits => Classify(text, armed) = "TT_NUM"
           /\ text[1] = "#" =>
                  Classify(text, armed)
                  = IF text \in DOMAIN PPKeywords THEN PPKeywords[text] ELSE "TT_ERROR"
           /\ text[1] \in DOMAIN Single => Classify(text, armed) = Single[text[1]]
           /\ text[1] \in DOMAIN Solo /\ ~(armed /\ text[1] = "<") =>
                  Classify(text, armed)
                  = IF Len(text) = 1 THEN Solo[text[1]] ELSE PairType(text[1], text[2])
           /\ armed /\ text[1] = "<" =>
                  Classify(text, armed)
                  = IF Len(text) > 2 /\ text[Len(text)] = ">" THEN "TT_HEADER_NAME"
                                                               ELSE "TT_ERROR"
           /\ text[1] \notin DOMAIN Single \cup DOMAIN Solo \cup Letters \cup Digits \cup {"#"} =>
                  Classify(text, armed) = "TT_ERROR"
<1> USE CharClasses
<1>1. text[1] \in Letters =>
          Classify(text, armed) = IF text \in DOMAIN Keywords THEN Keywords[text] ELSE "TT_IDENT"
  BY DEF Classify
<1>2. text[1] \in Digits => Classify(text, armed) = "TT_NUM"
  BY DEF Classify
<1>3. text[1] = "#" =>
          Classify(text, armed) = IF text \in DOMAIN PPKeywords THEN PPKeywords[text] ELSE "TT_ERROR"
  BY DEF Classify
<1>4. text[1] \in DOMAIN Single => Classify(text, armed) = Single[text[1]]
  BY DEF Classify
<1>5. text[1] \in DOMAIN Solo /\ ~(armed /\ text[1] = "<") =>
          Classify(text, armed) = IF Len(text) = 1 THEN Solo[text[1]] ELSE PairType(text[1], text[2])
  BY DEF Classify
<1>6. armed /\ text[1] = "<" =>
          Classify(text, armed)
          = IF Len(text) > 2 /\ text[Len(text)] = ">" THEN "TT_HEADER_NAME" ELSE "TT_ERROR"
  BY DEF Classify
<1>7. text[1] \notin DOMAIN Single \cup DOMAIN Solo \cup Letters \cup Digits \cup {"#"} =>
          Classify(text, armed) = "TT_ERROR"
  BY DEF Classify
<1> QED BY <1>1, <1>2, <1>3, <1>4, <1>5, <1>6, <1>7
----------------------------------------------------------------------------
(* The invariant.  Blanks and comments lie between the end of the last     *)
(* token, `before`, and the place where lex() looks for the next; what a   *)
(* loop has read is the beginning of a lexeme of its kind.                 *)

Gap(a, b) == \A k \in a..(b - 1) : src[k + 1] \in Blanks \/ CommentedOut(a, k)
HasRead(set, start, p) == \A k \in (start + 1)..(p - 1) : src[k + 1] \in set

InToken == {"word", "number", "pp", "header"}
Placed(loop, start, p, before) ==
    /\ loop \in {"skip", "comment"} => before <= p /\ Gap(before, p)
    /\ loop = "comment" =>
           \E m \in before..(p - 2) :
               /\ src[m + 1] = "/" /\ src[m + 2] = "/"
               /\ \A j \in m..(p - 1) : src[j + 1] # NL
    /\ loop = "ready" => before = p
    /\ loop \in InToken => before <= start /\ start < p /\ Gap(before, start)
    /\ loop = "word" => src[start + 1] \in Letters /\ HasRead(Letters \cup Digits, start, p)
    /\ loop = "number" => src[start + 1] \in Digits /\ HasRead(Digits, start, p)
    /\ loop = "pp" => src[start + 1] = "#" /\ HasRead(Letters, start, p)
    /\ loop = "header" => /\ src[start + 1] = "<"
                          /\ \A k \in (start + 1)..(p - 1) : src[k + 1] \notin {">", NL}

(* The mode is what the tokens say, until the "<" that ends it.            *)
Moded(loop, mode, armed) ==
    /\ loop \in {"skip", "comment", "ready", "word", "number", "pp"} => (mode <=> armed)
    /\ loop = "header" => armed /\ ~mode

(* The longest lexeme from `start`; a token after one that ended at `before`.*)
Munched(start, end, type, armed) ==
    /\ Shaped(TextOf(start, end), armed) \/ (type = "TT_ERROR" /\ end = start + 1)
    /\ \A e \in (end + 1)..Len(src) : ~Shaped(TextOf(start, e), armed)
    /\ type = Classify(TextOf(start, end), armed)
Counted(t) ==
    t.type = "TT_NUM" =>
        \/ t.value = Numeral(TextOf(t.start, t.end), 10) /\ t.value <= MaxNum
        \/ ndebug /\ t.value = 0 /\ ~(Numeral(TextOf(t.start, t.end), 10) <= MaxNum)
Fits(t, before, armed) ==
    /\ before <= t.start /\ t.end <= Len(src) /\ Gap(before, t.start)
    /\ IF t.type = "TT_EOF" THEN t.start = Len(src)
                            ELSE t.start < t.end /\ Munched(t.start, t.end, t.type, armed)
    /\ Counted(t)

Before == EndBefore(Len(tokens) + 1)
Armed  == HeaderArmed(Len(tokens) + 1)
Last   == \A i \in 1..Len(tokens) : tokens[i].type = "TT_EOF" => i = Len(tokens) /\ pc = "ready"
AllFit == \A i \in 1..Len(tokens) : Fits(tokens[i], EndBefore(i), HeaderArmed(i))

LexInv == /\ Last /\ AllFit
          /\ Placed(pc, tokenStart, pos, Before)
          /\ Moded(pc, canLexHeaderName, Armed)
----------------------------------------------------------------------------
LEMMA BeforeTyped == ASSUME TypeInv PROVE Before \in Nat /\ Armed \in BOOLEAN
<1>1. tokens \in Seq(TokenSet) /\ Len(tokens) \in Nat
  BY DEF TypeInv
<1>2. \A i \in 1..Len(tokens) : tokens[i].end \in Nat
  <2>1. \A i \in 1..Len(tokens) : tokens[i] \in TokenSet
    BY <1>1
  <2> QED BY <2>1 DEF TokenSet
<1>3. Len(tokens) + 1 # 1 => Len(tokens) + 1 - 1 \in 1..Len(tokens)
  BY <1>1
<1> QED BY <1>2, <1>3 DEF Before, EndBefore, Armed, HeaderArmed

(* Nothing the invariant says of the tokens depends on the cursor.         *)
LEMMA SameTokens ==
    ASSUME UNCHANGED <<ndebug, src, tokens>>
    PROVE  /\ Before' = Before /\ (Armed' <=> Armed)
           /\ AllFit => AllFit'
           /\ \A l, s, p, b : Placed(l, s, p, b)' <=> Placed(l, s, p, b)
<1>1. Before' = Before /\ (Armed' <=> Armed)
  BY DEF Before, EndBefore, Armed, HeaderArmed, CharIs
<1>2. \A i : EndBefore(i)' = EndBefore(i) /\ (HeaderArmed(i)' <=> HeaderArmed(i))
  BY DEF EndBefore, HeaderArmed, CharIs
<1>3. \A t, b, a : Fits(t, b, a)' <=> Fits(t, b, a)
  BY DEF Fits, Gap, CommentedOut, CharIs, Munched, Counted, TextOf
<1>4. \A l, s, p, b : Placed(l, s, p, b)' <=> Placed(l, s, p, b)
  BY DEF Placed, Gap, CommentedOut, CharIs, HasRead
<1>5. ASSUME AllFit PROVE AllFit'
  BY <1>2, <1>3, <1>5 DEF AllFit
<1> QED BY <1>1, <1>4, <1>5

(* A step that hands out no token.                                         *)
LEMMA NoToken ==
    ASSUME LexInv, UNCHANGED <<ndebug, src, tokens>>, pc' # "ready",
           pc = "ready" => lookahead.type # "TT_EOF",
           Placed(pc', tokenStart', pos', Before), Moded(pc', canLexHeaderName', Armed)
    PROVE  LexInv'
<1>1. AllFit'
  BY SameTokens DEF LexInv
<1>2. Last'
  BY DEF LexInv, Last, lookahead
<1>3. Placed(pc, tokenStart, pos, Before)' /\ Moded(pc, canLexHeaderName, Armed)'
  BY SameTokens DEF Placed, Moded, Gap, CommentedOut, CharIs, HasRead
<1> QED BY <1>1, <1>2, <1>3 DEF LexInv

(* A step that hands out a token that fits.                                *)
LEMMA NewToken ==
    ASSUME TypeInv, LexInv, UNCHANGED <<ndebug, src>>, pc # "ready", pc' = "ready",
           NEW t \in TokenSet, tokens' = Append(tokens, t), t.end = pos',
           Fits(t, Before, Armed),
           canLexHeaderName' <=> t.type = "PP_INCLUDE" \/ (Armed /\ ~CharIs(t.start, "<"))
    PROVE  LexInv'
<1> DEFINE n == Len(tokens)
<1>1. /\ tokens \in Seq(TokenSet) /\ n \in Nat
      /\ Len(tokens') = n + 1 /\ tokens'[n + 1] = t
      /\ \A i \in 1..n : tokens'[i] = tokens[i]
      /\ \A i \in 1..(n + 1) : i \in 1..n \/ i = n + 1
  <2>1. tokens \in Seq(TokenSet) /\ n \in Nat
    BY DEF TypeInv
  <2> QED BY <2>1, AppendProperties
<1> HIDE DEF n
<1>2. \A k : \A c : CharIs(k, c)' <=> CharIs(k, c)
  BY DEF CharIs
<1>3. \A i \in 1..(n + 1) : EndBefore(i)' = EndBefore(i)
  <2>1. \A i \in 1..(n + 1) : i # 1 => i - 1 \in 1..n
    BY <1>1
  <2> QED BY <1>1, <2>1 DEF EndBefore
<1>4. ASSUME NEW i \in 1..(n + 1) PROVE HeaderArmed(i)' <=> HeaderArmed(i)
  <2>1. \A j \in 1..(i - 1) : j \in 1..n /\ \A k \in (j + 1)..(i - 1) : k \in 1..n
    BY <1>1
  <2> QED BY <1>1, <2>1 DEF HeaderArmed, CharIs
<1>5. \A f, b, a : Fits(f, b, a)' <=> Fits(f, b, a)
  BY DEF Fits, Gap, CommentedOut, CharIs, Munched, Counted, TextOf
<1>6. AllFit'
  <2>1. ASSUME NEW i \in 1..(n + 1) PROVE Fits(tokens'[i], EndBefore(i), HeaderArmed(i))
    <3>1. CASE i \in 1..n
      BY <1>1, <3>1 DEF LexInv, AllFit, n
    <3>2. CASE i = n + 1
      BY <1>1, <3>2 DEF Before, Armed, n
    <3> QED BY <1>1, <3>1, <3>2
  <2>2. ASSUME NEW i \in 1..(n + 1)
        PROVE  Fits(tokens[i], EndBefore(i), HeaderArmed(i))'
    <3> DEFINE f == tokens'[i]
               b == EndBefore(i)
               a == HeaderArmed(i)
    <3>1. Fits(f, b, a)
      BY <2>1
    <3>2. EndBefore(i)' = b /\ HeaderArmed(i)' = a
      <4>1. EndBefore(i)' = b
        BY <1>3
      <4>2. HeaderArmed(i)' = a
        <5>1. HeaderArmed(i)' \in BOOLEAN /\ HeaderArmed(i) \in BOOLEAN
          BY DEF HeaderArmed
        <5> QED BY <1>4, <5>1
      <4> QED BY <4>1, <4>2
    <3> HIDE DEF f, b, a
    <3>3. Fits(tokens[i], EndBefore(i), HeaderArmed(i))'
          <=> Fits(tokens'[i], EndBefore(i)', HeaderArmed(i)')
      BY DEF Fits, Gap, CommentedOut, CharIs, Munched, Counted, TextOf
    <3> QED BY <3>1, <3>2, <3>3 DEF f
  <2> QED BY <1>1, <2>2 DEF AllFit
<1>7. Last'
  <2>1. \A i \in 1..n : tokens[i].type # "TT_EOF"
    BY DEF LexInv, Last, n
  <2> QED BY <1>1, <2>1 DEF Last
<1>8. Placed(pc, tokenStart, pos, Before)'
  <2>1. Before' = pos'
    <3>1. n + 1 + 1 # 1 /\ n + 1 + 1 - 1 = n + 1
      BY <1>1
    <3> QED BY <1>1, <3>1 DEF Before, EndBefore
  <2> QED BY <2>1 DEF Placed, InToken
<1>9. canLexHeaderName' <=> Armed'
  <2>1. Armed' <=> \E j \in 1..(n + 1) :
                       /\ tokens'[j].type = "PP_INCLUDE"
                       /\ \A k \in (j + 1)..(n + 1) : ~CharIs(tokens'[k].start, "<")
    <3>1. Len(tokens') + 1 - 1 = n + 1
      BY <1>1
    <3>2. Armed' <=> \E j \in 1..(Len(tokens') + 1 - 1) :
                         /\ tokens'[j].type = "PP_INCLUDE"
                         /\ \A k \in (j + 1)..(Len(tokens') + 1 - 1) :
                                ~CharIs(tokens'[k].start, "<")
      BY DEF Armed, HeaderArmed, CharIs
    <3> QED BY <3>1, <3>2
  <2>2. Armed <=> \E j \in 1..n : /\ tokens[j].type = "PP_INCLUDE"
                                  /\ \A k \in (j + 1)..n : ~CharIs(tokens[k].start, "<")
    <3>1. n + 1 - 1 = n
      BY <1>1
    <3> QED BY <3>1 DEF Armed, HeaderArmed, n
  <2>3. ASSUME t.type = "PP_INCLUDE" PROVE Armed'
    <3>1. n + 1 \in 1..(n + 1) /\ \A k \in (n + 1 + 1)..(n + 1) : FALSE
      BY <1>1
    <3> QED BY <1>1, <2>1, <2>3, <3>1
  <2>4. ASSUME Armed, ~CharIs(t.start, "<") PROVE Armed'
    <3>1. PICK j \in 1..n : /\ tokens[j].type = "PP_INCLUDE"
                            /\ \A k \in (j + 1)..n : ~CharIs(tokens[k].start, "<")
      BY <2>2, <2>4
    <3>2. \A k \in (j + 1)..(n + 1) : k \in 1..(n + 1) /\ (k = n + 1 \/ k \in (j + 1)..n)
      BY <1>1
    <3>3. \A k \in (j + 1)..(n + 1) : ~CharIs(tokens'[k].start, "<")
      <4>1. \A k \in (j + 1)..n : k \in 1..n
        BY <1>1
      <4> QED BY <1>1, <2>4, <3>1, <3>2, <4>1
    <3>4. j \in 1..(n + 1)
      BY <1>1
    <3> QED BY <1>1, <2>1, <3>1, <3>3, <3>4
  <2>5. ASSUME Armed', t.type # "PP_INCLUDE" PROVE Armed /\ ~CharIs(t.start, "<")
    <3>1. PICK j \in 1..(n + 1) : /\ tokens'[j].type = "PP_INCLUDE"
                                  /\ \A k \in (j + 1)..(n + 1) : ~CharIs(tokens'[k].start, "<")
      BY <2>1, <2>5
    <3>2. j # n + 1
      BY <1>1, <2>5, <3>1
    <3>3. j \in 1..n /\ n + 1 \in (j + 1)..(n + 1)
          /\ \A k \in (j + 1)..n : k \in 1..n /\ k \in (j + 1)..(n + 1)
      BY <1>1, <3>2
    <3>4. ~CharIs(t.start, "<")
      BY <1>1, <3>1, <3>3
    <3>5. tokens[j].type = "PP_INCLUDE" /\ \A k \in (j + 1)..n : ~CharIs(tokens[k].start, "<")
      BY <1>1, <3>1, <3>3
    <3> QED BY <2>2, <3>3, <3>4, <3>5
  <2> QED BY <2>3, <2>4, <2>5
<1>10. Moded(pc, canLexHeaderName, Armed)'
  BY <1>9 DEF Moded
<1> QED BY <1>6, <1>7, <1>8, <1>10 DEF LexInv
----------------------------------------------------------------------------
(* Between the tokens. *)
LEMMA GapGrows ==
    ASSUME NEW a \in Nat, NEW b \in Nat, a <= b, Gap(a, b),
           src[b + 1] \in Blanks \/ CommentedOut(a, b)
    PROVE  Gap(a, b + 1)
<1>1. \A k \in a..(b + 1 - 1) : k \in a..(b - 1) \/ k = b
  OBVIOUS
<1> QED BY <1>1 DEF Gap

LEMMA ReadGrows ==
    ASSUME NEW a \in Nat, NEW b \in Nat, NEW set, a < b, HasRead(set, a, b), src[b + 1] \in set
    PROVE  HasRead(set, a, b + 1)
<1>1. \A k \in (a + 1)..(b + 1 - 1) : k \in (a + 1)..(b - 1) \/ k = b
  OBVIOUS
<1> QED BY <1>1 DEF HasRead

(* What a loop has read, as a text.                                        *)
LEMMA ReadText ==
    ASSUME TypeInv, NEW s \in Nat, NEW e \in Nat, s < e, e <= Len(src), NEW set
    PROVE  HasRead(set, s, e) <=> AllIn(TextOf(s, e), 2, set)
<1>1. /\ Len(TextOf(s, e)) = e - s /\ \A k \in 1..(e - s) : TextOf(s, e)[k] = src[s + k]
  BY TextPlaces DEF TypeInv
<1>2. ASSUME HasRead(set, s, e) PROVE AllIn(TextOf(s, e), 2, set)
  <2> SUFFICES ASSUME NEW k \in 2..(e - s) PROVE TextOf(s, e)[k] \in set
    BY <1>1 DEF AllIn
  <2>1. k \in 1..(e - s) /\ s + k - 1 \in (s + 1)..(e - 1) /\ s + k - 1 + 1 = s + k
    OBVIOUS
  <2>2. src[s + k - 1 + 1] \in set
    BY <1>2, <2>1 DEF HasRead
  <2> QED BY <1>1, <2>1, <2>2
<1>3. ASSUME AllIn(TextOf(s, e), 2, set) PROVE HasRead(set, s, e)
  <2> SUFFICES ASSUME NEW k \in (s + 1)..(e - 1) PROVE src[k + 1] \in set
    BY DEF HasRead
  <2>1. k + 1 - s \in 2..(e - s) /\ k + 1 - s \in 1..(e - s) /\ s + (k + 1 - s) = k + 1
    OBVIOUS
  <2>2. TextOf(s, e)[k + 1 - s] \in set
    BY <1>1, <1>3, <2>1 DEF AllIn
  <2> QED BY <1>1, <2>1, <2>2
<1> QED BY <1>2, <1>3
----------------------------------------------------------------------------
(* A lexeme of each kind is the longest there is, and has its type.        *)

LEMMA OneChar ==
    ASSUME TypeInv, NEW s \in Nat, NEW f \in Nat, NEW type, NEW armed \in BOOLEAN, NEW c,
           f = s + 1, f <= Len(src), c = src[s + 1],
           \/ c \in DOMAIN Single /\ type = Single[c]
           \/ /\ c \in DOMAIN Solo /\ ~(armed /\ c = "<") /\ type = Solo[c]
              /\ ~(f < Len(src) /\ IsPair(c, src[s + 2]))
           \/ /\ c \notin DOMAIN Single \cup DOMAIN Solo \cup Letters \cup Digits \cup {"#"}
              /\ type = "TT_ERROR"
    PROVE  Munched(s, f, type, armed)
<1>1. s \in Nat /\ s < s + 1 /\ Len(src) \in Nat /\ f \in Nat
  BY DEF TypeInv
<1>2. /\ TextOf(s, f) \in Seq(STRING) /\ Len(TextOf(s, f)) = 1
      /\ TextOf(s, f)[1] = c
  <2>1. f - s = 1 /\ s < f
    BY <1>1
  <2>2. src \in Seq(STRING)
    BY DEF TypeInv
  <2> QED BY <2>1, <2>2, TextPlaces
<1>3. ASSUME NEW e \in (f + 1)..Len(src)
      PROVE  /\ TextOf(s, e) \in Seq(STRING) /\ Len(TextOf(s, e)) \in Nat /\ Len(TextOf(s, e)) >= 2
             /\ TextOf(s, e)[1] = c /\ TextOf(s, e)[2] = src[s + 2] /\ f < Len(src)
  <2>1. e \in Nat /\ s < e /\ e <= Len(src) /\ 2 \in 1..(e - s) /\ e - s >= 2 /\ f < Len(src)
    BY <1>1
  <2>2. src \in Seq(STRING)
    BY DEF TypeInv
  <2>3. /\ TextOf(s, e) \in Seq(STRING) /\ Len(TextOf(s, e)) = e - s
        /\ TextOf(s, e)[1] = src[s + 1]
        /\ \A k \in 1..(e - s) : TextOf(s, e)[k] = src[s + k]
    BY <2>1, <2>2, TextPlaces
  <2> QED BY <2>1, <2>3
<1>4. CASE c \in DOMAIN Single /\ type = Single[c]
  <2>1. Shaped(TextOf(s, f), armed) /\ Classify(TextOf(s, f), armed) = Single[c]
    BY <1>2, <1>4, ShapesByStart, TypesByStart
  <2>2. ASSUME NEW e \in (f + 1)..Len(src) PROVE ~Shaped(TextOf(s, e), armed)
    BY <1>3, <1>4, ShapesByStart
  <2> QED BY <1>4, <2>1, <2>2 DEF Munched
<1>5. CASE /\ c \in DOMAIN Solo /\ ~(armed /\ c = "<") /\ type = Solo[c]
           /\ ~(f < Len(src) /\ IsPair(c, src[s + 2]))
  <2>1. c # "=" => Shaped(TextOf(s, f), armed)
    BY <1>2, <1>5, ShapesByStart
  <2>2. Classify(TextOf(s, f), armed) = Solo[c]
    BY <1>2, <1>5, TypesByStart
  <2>3. c = "=" => Solo[c] = "TT_ERROR"
    BY <1>5 DEF Solo
  <2>4. ASSUME NEW e \in (f + 1)..Len(src) PROVE ~Shaped(TextOf(s, e), armed)
    BY <1>3, <1>5, ShapesByStart
  <2> QED BY <1>5, <2>1, <2>2, <2>3, <2>4 DEF Munched
<1>6. CASE /\ c \notin DOMAIN Single \cup DOMAIN Solo \cup Letters \cup Digits \cup {"#"}
           /\ type = "TT_ERROR"
  <2>1. Classify(TextOf(s, f), armed) = "TT_ERROR"
    BY <1>2, <1>6, TypesByStart
  <2>2. ASSUME NEW e \in (f + 1)..Len(src) PROVE ~Shaped(TextOf(s, e), armed)
    BY <1>3, <1>6, ShapesByStart
  <2> QED BY <1>6, <2>1, <2>2 DEF Munched
<1> QED BY <1>4, <1>5, <1>6

LEMMA TwoChars ==
    ASSUME TypeInv, NEW s \in Nat, NEW f \in Nat, NEW type, NEW armed \in BOOLEAN, NEW c, NEW d,
           f = s + 2, f <= Len(src), c = src[s + 1], d = src[s + 2],
           IsPair(c, d), ~(armed /\ c = "<"), type = PairType(c, d)
    PROVE  Munched(s, f, type, armed)
<1>1. Len(src) \in Nat /\ src \in Seq(STRING)
  BY DEF TypeInv
<1>0. c \in DOMAIN Solo
  BY CharClasses
<1>2. /\ TextOf(s, f) \in Seq(STRING) /\ Len(TextOf(s, f)) = 2
      /\ TextOf(s, f)[1] = c /\ TextOf(s, f)[2] = d
  <2>1. f - s = 2 /\ 2 \in 1..(f - s) /\ s < f
    BY <1>1
  <2>2. /\ TextOf(s, f) \in Seq(STRING) /\ Len(TextOf(s, f)) = f - s
        /\ TextOf(s, f)[1] = src[s + 1]
        /\ \A k \in 1..(f - s) : TextOf(s, f)[k] = src[s + k]
    BY <1>1, <2>1, TextPlaces
  <2>3. TextOf(s, f)[2] = src[s + 2]
    BY <2>1, <2>2
  <2> QED BY <2>1, <2>2, <2>3
<1>3. ASSUME NEW e \in (f + 1)..Len(src)
      PROVE  /\ TextOf(s, e) \in Seq(STRING) /\ Len(TextOf(s, e)) \in Nat /\ Len(TextOf(s, e)) >= 3
             /\ TextOf(s, e)[1] = c
  <2>1. e \in Nat /\ s < e /\ e <= Len(src) /\ e - s >= 3
    BY <1>1
  <2>2. /\ TextOf(s, e) \in Seq(STRING) /\ Len(TextOf(s, e)) = e - s
        /\ TextOf(s, e)[1] = src[s + 1]
    BY <1>1, <2>1, TextPlaces
  <2> QED BY <2>1, <2>2
<1>4. Shaped(TextOf(s, f), armed) /\ Classify(TextOf(s, f), armed) = PairType(c, d)
  BY <1>0, <1>2, ShapesByStart, TypesByStart
<1>5. ASSUME NEW e \in (f + 1)..Len(src) PROVE ~Shaped(TextOf(s, e), armed)
  <2> DEFINE text == TextOf(s, e)
  <2>1. text \in Seq(STRING) /\ Len(text) >= 3 /\ Len(text) \in Nat /\ text[1] = c
    BY <1>3
  <2> HIDE DEF text
  <2>2. Len(text) # 0 /\ Len(text) # 1 /\ Len(text) # 2
    <3>1. \A n \in Nat : n >= 3 => n # 0 /\ n # 1 /\ n # 2
      OBVIOUS
    <3> QED BY <2>1, <3>1
  <2>3. ~Shaped(text, armed)
    BY <1>0, <2>1, <2>2, ShapesByStart
  <2> QED BY <2>3 DEF text
<1> QED BY <1>4, <1>5 DEF Munched

(* A word, a number or a directive: as many characters as the loop takes.  *)
LEMMA Run ==
    ASSUME TypeInv, NEW s \in Nat, NEW f \in Nat, NEW type, NEW armed \in BOOLEAN, NEW c, NEW set,
           s < f, f <= Len(src), c = src[s + 1],
           HasRead(set, s, f), ~(f < Len(src) /\ src[f + 1] \in set),
           \/ c \in Letters /\ set = Letters \cup Digits
           \/ c \in Digits /\ set = Digits
           \/ c = "#" /\ set = Letters,
           type = Classify(TextOf(s, f), armed)
    PROVE  Munched(s, f, type, armed)
<1>1. s \in Nat /\ Len(src) \in Nat /\ f \in Nat
  BY DEF TypeInv
<1>2. ASSUME NEW e \in Nat, s < e, e <= Len(src)
      PROVE  /\ TextOf(s, e) \in Seq(STRING) /\ Len(TextOf(s, e)) # 0
             /\ Shaped(TextOf(s, e), armed) <=> HasRead(set, s, e)
  <2>1. /\ TextOf(s, e) \in Seq(STRING) /\ Len(TextOf(s, e)) = e - s /\ e - s \in Nat \ {0}
        /\ TextOf(s, e)[1] = c
    BY <1>1, <1>2, TextPlaces DEF TypeInv
  <2>2. Shaped(TextOf(s, e), armed) <=> AllIn(TextOf(s, e), 2, set)
    BY <2>1, ShapesByStart
  <2> QED BY <1>1, <1>2, <2>1, <2>2, ReadText
<1>3. Shaped(TextOf(s, f), armed)
  BY <1>1, <1>2
<1>4. ASSUME NEW e \in (f + 1)..Len(src) PROVE ~Shaped(TextOf(s, e), armed)
  <2>1. e \in Nat /\ s < e /\ e <= Len(src) /\ f \in (s + 1)..(e - 1) /\ f < Len(src)
    BY <1>1
  <2>2. ~HasRead(set, s, e)
    BY <2>1 DEF HasRead
  <2> QED BY <1>2, <2>1, <2>2
<1> QED BY <1>3, <1>4 DEF Munched

(* A header name, to its ">" or cut off.                                   *)
LEMMA Header ==
    ASSUME TypeInv, NEW s \in Nat, NEW f \in Nat, NEW type, s < f, f <= Len(src),
           src[s + 1] = "<",
           \/ /\ src[f] = ">"
              /\ \A k \in (s + 1)..(f - 2) : src[k + 1] \notin {">", NL}
              /\ type = IF f - s > 2 THEN "TT_HEADER_NAME" ELSE "TT_ERROR"
           \/ /\ \A k \in (s + 1)..(f - 1) : src[k + 1] \notin {">", NL}
              /\ ~(f < Len(src) /\ src[f + 1] # NL)
              /\ type = "TT_ERROR"
    PROVE  Munched(s, f, type, TRUE)
<1> DEFINE text == TextOf(s, f)
<1>1. s \in Nat /\ Len(src) \in Nat /\ f \in Nat
  BY DEF TypeInv
<1>2. ASSUME NEW e \in Nat, s < e, e <= Len(src)
      PROVE  /\ TextOf(s, e) \in Seq(STRING) /\ Len(TextOf(s, e)) = e - s /\ e - s \in Nat \ {0}
             /\ TextOf(s, e)[1] = "<"
             /\ \A k \in 1..(e - s) : TextOf(s, e)[k] = src[s + k]
             /\ Shaped(TextOf(s, e), TRUE) <=>
                    \A k \in 2..(e - s) : src[s + k] # NL /\ (k < e - s => src[s + k] # ">")
  <2>1. /\ TextOf(s, e) \in Seq(STRING) /\ Len(TextOf(s, e)) = e - s /\ e - s \in Nat \ {0}
        /\ TextOf(s, e)[1] = "<"
        /\ \A k \in 1..(e - s) : TextOf(s, e)[k] = src[s + k]
    BY <1>1, <1>2, TextPlaces DEF TypeInv
  <2>2. Shaped(TextOf(s, e), TRUE) <=>
            \A k \in 2..(e - s) :
                TextOf(s, e)[k] # NL /\ (k < e - s => TextOf(s, e)[k] # ">")
    BY <2>1, ShapesByStart
  <2>3. \A k \in 2..(e - s) : k \in 1..(e - s)
    BY <2>1
  <2> QED BY <2>1, <2>2, <2>3
<1>3. /\ text[1] = "<" /\ Len(text) = f - s /\ f - s \in Nat \ {0}
      /\ text[Len(text)] = src[f]
  <2>1. f - s \in 1..(f - s) /\ s + (f - s) = f
    BY <1>1
  <2> QED BY <1>1, <1>2, <2>1
<1>4. Classify(text, TRUE)
      = IF f - s > 2 /\ src[f] = ">" THEN "TT_HEADER_NAME" ELSE "TT_ERROR"
  <2> HIDE DEF text
  <2> QED BY <1>3, TypesByStart
<1>5. CASE /\ src[f] = ">"
           /\ \A k \in (s + 1)..(f - 2) : src[k + 1] \notin {">", NL}
           /\ type = IF f - s > 2 THEN "TT_HEADER_NAME" ELSE "TT_ERROR"
  <2>1. Shaped(text, TRUE)
    <3>1. ASSUME NEW k \in 2..(f - s)
          PROVE  src[s + k] # NL /\ (k < f - s => src[s + k] # ">")
      <4>1. CASE k = f - s
        <5>1. s + k = f
          BY <1>1, <4>1
        <5> QED BY <1>5, <4>1, <5>1 DEF NL
      <4>2. CASE k # f - s
        <5>1. s + k - 1 \in (s + 1)..(f - 2) /\ s + k - 1 + 1 = s + k
          BY <1>1, <1>3, <4>2
        <5>2. src[s + k - 1 + 1] \notin {">", NL}
          BY <1>5, <5>1
        <5> QED BY <5>1, <5>2
      <4> QED BY <4>1, <4>2
    <3> QED BY <1>1, <1>2, <3>1
  <2>2. ASSUME NEW e \in (f + 1)..Len(src) PROVE ~Shaped(TextOf(s, e), TRUE)
    <3>1. e \in Nat /\ s < e /\ e <= Len(src) /\ f - s < e - s /\ s + (f - s) = f
      BY <1>1
    <3>2. CASE f - s >= 2
      <4>1. f - s \in 2..(e - s)
        BY <1>1, <1>3, <3>1, <3>2
      <4> QED BY <1>2, <1>5, <3>1, <4>1
    <3>3. CASE ~(f - s >= 2)
      <4>1. f = s + 1
        BY <1>1, <1>3, <3>3
      <4> QED BY <1>5, <4>1
    <3> QED BY <3>2, <3>3
  <2> QED BY <1>4, <1>5, <2>1, <2>2 DEF Munched
<1>6. CASE /\ \A k \in (s + 1)..(f - 1) : src[k + 1] \notin {">", NL}
           /\ ~(f < Len(src) /\ src[f + 1] # NL)
           /\ type = "TT_ERROR"
  <2>1. ASSUME NEW k \in 2..(f - s) PROVE src[s + k] # NL /\ src[s + k] # ">"
    <3>1. s + k - 1 \in (s + 1)..(f - 1) /\ s + k - 1 + 1 = s + k
      BY <1>1, <1>3
    <3>2. src[s + k - 1 + 1] \notin {">", NL}
      BY <1>6, <3>1
    <3> QED BY <3>1, <3>2
  <2>2. Shaped(text, TRUE)
    BY <1>1, <1>2, <2>1
  <2>3. ~(f - s > 2 /\ src[f] = ">")
    <3>1. f - s > 2 => f - s \in 2..(f - s)
      BY <1>1, <1>3
    <3>2. s + (f - s) = f
      BY <1>1
    <3> QED BY <2>1, <3>1, <3>2
  <2>4. ASSUME NEW e \in (f + 1)..Len(src) PROVE ~Shaped(TextOf(s, e), TRUE)
    <3>1. e \in Nat /\ s < e /\ e <= Len(src) /\ f < Len(src)
          /\ f + 1 - s \in 2..(e - s) /\ s + (f + 1 - s) = f + 1
      BY <1>1, <1>3
    <3>2. src[f + 1] = NL
      BY <1>6, <3>1
    <3> QED BY <1>2, <3>1, <3>2
  <2> QED BY <1>4, <1>6, <2>2, <2>3, <2>4 DEF Munched
<1> QED BY <1>5, <1>6
----------------------------------------------------------------------------
(* The steps between the tokens.                                           *)

LEMMA CommentPlaced ==
    ASSUME NEW start, NEW p, NEW before, before <= p, Gap(before, p),
           \E m \in before..(p - 2) : /\ src[m + 1] = "/" /\ src[m + 2] = "/"
                                      /\ \A j \in m..(p - 1) : src[j + 1] # NL
    PROVE  Placed("comment", start, p, before)
<1>1. "comment" \notin InToken
  BY DEF InToken
<1> QED BY <1>1 DEF Placed

LEMMA HeaderPlaced ==
    ASSUME NEW start, NEW p, NEW before, before <= start, start < p, Gap(before, start),
           src[start + 1] = "<", \A k \in (start + 1)..(p - 1) : src[k + 1] \notin {">", NL}
    PROVE  Placed("header", start, p, before)
    BY DEF Placed

LEMMA NothingRead == ASSUME NEW a \in Nat, NEW any PROVE HasRead(any, a, a + 1)
<1>1. \A k \in (a + 1)..(a + 1 - 1) : FALSE
  OBVIOUS
<1> QED BY <1>1 DEF HasRead

LEMMA SkipSteps == TypeInv /\ LexInv /\ Skip => LexInv'
<1> SUFFICES ASSUME TypeInv, LexInv, Skip PROVE LexInv'
  OBVIOUS
<1>1. /\ Before \in Nat /\ pos \in Nat /\ pos <= Len(src) /\ Len(src) \in Nat
      /\ src \in Seq(STRING)
  BY BeforeTyped DEF TypeInv
<1>2. pc \in {"skip", "comment"}
  BY DEF Skip, SkipBlank, OpenComment, CommentChar, CloseComment
<1>3. Before <= pos /\ Gap(Before, pos) /\ (canLexHeaderName <=> Armed)
  BY <1>2 DEF LexInv, Placed, Moded
<1>4. canLexHeaderName' = canLexHeaderName /\ UNCHANGED <<ndebug, src, tokens>>
  BY DEF Skip, SkipBlank, OpenComment, CommentChar, CloseComment
<1>5. ASSUME pc' \in {"skip", "comment"}, Placed(pc', tokenStart', pos', Before)
      PROVE  LexInv'
  <2>1. Moded(pc', canLexHeaderName', Armed)
    BY <1>3, <1>4, <1>5 DEF Moded
  <2> QED BY <1>2, <1>4, <1>5, <2>1, NoToken
<1>6. CASE SkipBlank
  <2>1. pos' = pos + 1 /\ pc' = "skip" /\ src[pos + 1] \in Blanks
    BY <1>1, <1>6 DEF SkipBlank, Advance, PeekIs
  <2>2. Gap(Before, pos + 1) /\ Before <= pos + 1
    BY <1>1, <1>3, <2>1, GapGrows
  <2>3. Placed(pc', tokenStart', pos', Before)
    BY <2>1, <2>2 DEF Placed, InToken
  <2> QED BY <1>5, <2>1, <2>3
<1>7. CASE OpenComment
  <2>1. /\ pos' = pos + 2 /\ pc' = "comment" /\ pos + 1 < Len(src)
        /\ src[pos + 1] = "/" /\ src[pos + 2] = "/"
    BY <1>1, <1>7 DEF OpenComment, AtComment, Advance, PeekIs
  <2>2. CommentedOut(Before, pos) /\ CommentedOut(Before, pos + 1)
    <3>1. /\ pos \in Before..pos /\ pos \in Before..(pos + 1)
          /\ \A j \in pos..(pos + 1) : j = pos \/ j = pos + 1
          /\ \A j \in pos..pos : j = pos
      BY <1>1, <1>3
    <3>2. CharIs(pos, "/") /\ CharIs(pos + 1, "/")
      BY <1>1, <2>1 DEF CharIs
    <3>3. src[pos + 1] # NL /\ src[pos + 1 + 1] # NL
      BY <1>1, <2>1 DEF NL
    <3> QED BY <3>1, <3>2, <3>3 DEF CommentedOut
  <2>3. Gap(Before, pos + 1)
    BY <1>1, <1>3, <2>2, GapGrows
  <2>4. Gap(Before, pos + 2)
    <3>1. pos + 1 \in Nat /\ Before <= pos + 1 /\ pos + 1 + 1 = pos + 2
      BY <1>1, <1>3
    <3>2. Gap(Before, pos + 1 + 1)
      BY <1>1, <2>2, <2>3, <3>1, GapGrows
    <3> QED BY <3>1, <3>2
  <2>5. Placed("comment", tokenStart', pos + 2, Before)
    <3>1. /\ pos \in Before..(pos + 2 - 2) /\ Before <= pos + 2
          /\ \A j \in pos..(pos + 2 - 1) : j = pos \/ j = pos + 1
      BY <1>1, <1>3
    <3>2. src[pos + 1] # NL /\ src[pos + 1 + 1] # NL
      BY <1>1, <2>1 DEF NL
    <3>3. \E m \in Before..(pos + 2 - 2) :
              /\ src[m + 1] = "/" /\ src[m + 2] = "/"
              /\ \A j \in m..(pos + 2 - 1) : src[j + 1] # NL
      BY <2>1, <3>1, <3>2
    <3> QED BY <2>4, <3>1, <3>3 DEF Placed, InToken
  <2> QED BY <1>5, <2>1, <2>5
<1>8. CASE CommentChar
  <2>1. /\ pos' = pos + 1 /\ pc' = "comment" /\ pc = "comment" /\ pos < Len(src)
        /\ src[pos + 1] # NL
    BY <1>1, <1>8 DEF CommentChar, AtEnd, Advance, PeekIs
  <2>2. PICK m \in Before..(pos - 2) :
            /\ src[m + 1] = "/" /\ src[m + 2] = "/"
            /\ \A j \in m..(pos - 1) : src[j + 1] # NL
    BY <2>1 DEF LexInv, Placed
  <2>3. /\ m \in Before..pos /\ m \in Before..(pos + 1 - 2) /\ m + 1 + 1 = m + 2
        /\ \A j \in m..pos : j \in m..(pos - 1) \/ j = pos
        /\ \A j \in m..(pos + 1 - 1) : j \in m..(pos - 1) \/ j = pos
        /\ m < Len(src) /\ m + 1 < Len(src)
    BY <1>1, <1>3, <2>1
  <2>4. CommentedOut(Before, pos)
    BY <2>1, <2>2, <2>3 DEF CommentedOut, CharIs
  <2>5. Gap(Before, pos + 1) /\ Before <= pos + 1
    BY <1>1, <1>3, <2>4, GapGrows
  <2>6. \A j \in m..(pos + 1 - 1) : src[j + 1] # NL
    BY <2>1, <2>2, <2>3
  <2>7. Placed("comment", tokenStart', pos + 1, Before)
    <3> DEFINE here == pos + 1
    <3>0. m \in Before..(here - 2)
      BY <1>1, <2>3
    <3>1. \A j \in m..(here - 1) : src[j + 1] # NL
      BY <1>1, <2>6
    <3>2. Before <= here /\ Gap(Before, here)
      BY <2>5
    <3> HIDE DEF here
    <3>3. Placed("comment", tokenStart', here, Before)
      BY <2>2, <3>0, <3>1, <3>2, CommentPlaced
    <3> QED BY <3>3 DEF here
  <2> QED BY <1>5, <2>1, <2>7
<1>9. CASE CloseComment
  <2>1. pos' = pos /\ pc' = "skip"
    BY <1>9 DEF CloseComment, Cursor
  <2>2. Placed(pc', tokenStart', pos', Before)
    BY <1>3, <2>1 DEF Placed, InToken
  <2> QED BY <1>5, <2>1, <2>2
<1> QED BY <1>6, <1>7, <1>8, <1>9 DEF Skip

(* lexer_next is called again.                                             *)
LEMMA NextStep == TypeInv /\ LexInv /\ LexerNext => LexInv'
<1> SUFFICES ASSUME TypeInv, LexInv, LexerNext PROVE LexInv'
  OBVIOUS
<1>1. Before \in Nat /\ pos \in Nat
  BY BeforeTyped DEF TypeInv
<1>2. /\ pc = "ready" /\ lookahead.type # "TT_EOF" /\ pc' = "skip" /\ pos' = pos
      /\ UNCHANGED <<ndebug, src, tokens, canLexHeaderName>>
  BY DEF LexerNext, Cursor
<1>3. Before = pos /\ (canLexHeaderName <=> Armed)
  BY <1>2 DEF LexInv, Placed, Moded
<1>4. Placed(pc', tokenStart', pos', Before)
  <2>1. \A k \in Before..(pos - 1) : FALSE
    BY <1>1, <1>3
  <2> QED BY <1>1, <1>2, <1>3, <2>1 DEF Placed, InToken, Gap
<1>5. Moded(pc', canLexHeaderName', Armed)
  BY <1>2, <1>3 DEF Moded
<1> QED BY <1>2, <1>4, <1>5, NoToken
----------------------------------------------------------------------------
(* lex() returns a token that fits.                                        *)
LEMMA Emitted ==
    ASSUME TypeInv, LexInv, UNCHANGED <<ndebug, src>>, pc # "ready",
           NEW type \in TokenTypes, NEW start \in Nat, NEW loc \in Nat \X Nat,
           NEW value \in Values, pos' \in Nat, pos' <= Len(src),
           Emit(type, start, loc, value), Before <= start, Gap(Before, start),
           IF type = "TT_EOF" THEN start = Len(src)
                              ELSE start < pos' /\ Munched(start, pos', type, Armed),
           type = "TT_NUM" =>
               \/ value = Numeral(TextOf(start, pos'), 10) /\ value <= MaxNum
               \/ ndebug /\ value = 0 /\ ~(Numeral(TextOf(start, pos'), 10) <= MaxNum),
           canLexHeaderName' <=> type = "PP_INCLUDE" \/ (Armed /\ ~CharIs(start, "<"))
    PROVE  LexInv'
<1> DEFINE t == Token(type, start, pos', loc, value)
<1>1. /\ t \in TokenSet /\ t.type = type /\ t.start = start /\ t.end = pos' /\ t.value = value
  BY DEF Token, TokenSet
<1>2. tokens' = Append(tokens, t) /\ pc' = "ready"
  BY DEF Emit
<1> HIDE DEF t
<1>3. Counted(t)
  BY <1>1 DEF Counted
<1>4. Fits(t, Before, Armed)
  BY <1>1, <1>3 DEF Fits
<1> QED BY <1>1, <1>2, <1>4, NewToken

(* The dispatch on the first character of a token.                         *)
LEMMA DispatchSteps == TypeInv /\ LexInv /\ Dispatch => LexInv'
<1> SUFFICES ASSUME TypeInv, LexInv, Dispatch PROVE LexInv'
  OBVIOUS
<1> USE TypesCovered
<1>1. /\ Before \in Nat /\ Armed \in BOOLEAN /\ pos \in Nat /\ pos <= Len(src)
      /\ Len(src) \in Nat /\ src \in Seq(STRING) /\ <<line, column>> \in Nat \X Nat
      /\ 0 \in Values /\ canLexHeaderName \in BOOLEAN
  BY BeforeTyped DEF TypeInv, Values
<1>2. BeginToken
  BY DEF Dispatch, LexEOF, LexSingle, LexPair, LexSolo, LexUnknown, LexWord, LexNumber,
         LexHash, LexHeader, LexLong
<1>3. pc = "skip" /\ tokenStart' = pos /\ UNCHANGED <<ndebug, src>>
  BY <1>2 DEF BeginToken
<1>4. Before <= pos /\ Gap(Before, pos) /\ (canLexHeaderName <=> Armed)
  BY <1>3 DEF LexInv, Placed, Moded
<1>5. CASE LexEOF
  <2>1. pos' = pos /\ pos = Len(src) /\ canLexHeaderName' = canLexHeaderName
        /\ Emit("TT_EOF", pos, <<line, column>>, 0)
    BY <1>1, <1>5 DEF LexEOF, AtEnd, Cursor
  <2>2. ~CharIs(pos, "<")
    BY <1>1, <2>1 DEF CharIs
  <2> QED BY <1>1, <1>3, <1>4, <2>1, <2>2, Emitted
<1>6. CASE LexSingle
  <2> DEFINE c == src[pos + 1]
  <2>1. /\ pos' = pos + 1 /\ pos + 1 <= Len(src) /\ canLexHeaderName' = canLexHeaderName
        /\ c \in DOMAIN Single /\ Emit(Single[c], pos, <<line, column>>, 0)
    BY <1>1, <1>6 DEF LexSingle, PeekIs, Advance
  <2>2. ~CharIs(pos, "<") /\ Single[c] \notin {"TT_EOF", "TT_NUM", "PP_INCLUDE"}
    BY <2>1, CharClasses, TypesApart DEF CharIs
  <2> HIDE DEF c
  <2>3. Munched(pos, pos', Single[c], Armed)
    BY <1>1, <2>1, OneChar DEF c
  <2>4. pos < pos' /\ pos' \in Nat /\ pos' <= Len(src)
    BY <1>1, <2>1
  <2> QED BY <1>1, <1>3, <1>4, <2>1, <2>2, <2>3, <2>4, Emitted
<1>7. ASSUME AtOperator
      PROVE  /\ pos < Len(src) /\ src[pos + 1] \in DOMAIN Solo
             /\ ~(Armed /\ src[pos + 1] = "<")
             /\ ~(Armed /\ CharIs(pos, "<"))
  BY <1>1, <1>4, <1>7 DEF AtOperator, PeekIs, CharIs
<1>8. CASE LexPair
  <2> DEFINE c == src[pos + 1]
             d == src[pos + 2]
  <2>1. /\ pos' = pos + 2 /\ pos + 1 < Len(src) /\ canLexHeaderName' = canLexHeaderName
        /\ AtOperator /\ IsPair(c, d) /\ Emit(PairType(c, d), pos, <<line, column>>, 0)
    BY <1>1, <1>8 DEF LexPair, AtPair, Advance
  <2>2. ~(Armed /\ c = "<") /\ ~(Armed /\ CharIs(pos, "<"))
    BY <1>7, <2>1
  <2>3. /\ PairType(c, d) \notin {"TT_EOF", "TT_NUM", "PP_INCLUDE"}
        /\ PairType(c, d) \in TokenTypes
    BY TypesApart
  <2>4. pos < pos' /\ pos' \in Nat /\ pos' <= Len(src)
    BY <1>1, <2>1
  <2> HIDE DEF c, d
  <2>5. Munched(pos, pos', PairType(c, d), Armed)
    BY <1>1, <2>1, <2>2, <2>4, TwoChars DEF c, d
  <2> QED BY <1>1, <1>3, <1>4, <2>1, <2>2, <2>3, <2>4, <2>5, Emitted
<1>9. CASE LexSolo
  <2> DEFINE c == src[pos + 1]
  <2>1. /\ pos' = pos + 1 /\ canLexHeaderName' = canLexHeaderName /\ AtOperator
        /\ ~(pos + 1 < Len(src) /\ IsPair(c, src[pos + 2]))
        /\ Emit(Solo[c], pos, <<line, column>>, 0)
    BY <1>1, <1>9 DEF LexSolo, AtPair, Advance
  <2>2. /\ c \in DOMAIN Solo /\ ~(Armed /\ c = "<") /\ ~(Armed /\ CharIs(pos, "<"))
        /\ pos < Len(src)
    BY <1>7, <2>1
  <2>3. Solo[c] \notin {"TT_EOF", "TT_NUM", "PP_INCLUDE"} /\ Solo[c] \in TokenTypes
    BY <2>2, TypesApart
  <2>4. pos < pos' /\ pos' \in Nat /\ pos' <= Len(src)
    BY <1>1, <2>1, <2>2
  <2> HIDE DEF c
  <2>5. Munched(pos, pos', Solo[c], Armed)
    BY <1>1, <2>1, <2>2, <2>4, OneChar DEF c
  <2> QED BY <1>1, <1>3, <1>4, <2>1, <2>2, <2>3, <2>4, <2>5, Emitted
<1>10. CASE LexUnknown
  <2> DEFINE c == src[pos + 1]
  <2>1. /\ pos' = pos + 1 /\ canLexHeaderName' = canLexHeaderName /\ pos < Len(src)
        /\ c \notin DOMAIN Single \cup DOMAIN Solo \cup Letters \cup Digits \cup {"#"}
        /\ Emit("TT_ERROR", pos, <<line, column>>, 0)
    BY <1>1, <1>10 DEF LexUnknown, AtEnd, PeekIs, Advance
  <2>2. ~CharIs(pos, "<")
    BY <2>1, CharClasses DEF CharIs
  <2>3. pos < pos' /\ pos' \in Nat /\ pos' <= Len(src)
    BY <1>1, <2>1
  <2> HIDE DEF c
  <2>4. Munched(pos, pos', "TT_ERROR", Armed)
    BY <1>1, <2>1, <2>3, OneChar DEF c
  <2> QED BY <1>1, <1>3, <1>4, <2>1, <2>2, <2>3, <2>4, Emitted
<1>11. ASSUME NEW set, NEW loop \in InToken, LexLong(set, loop)
       PROVE  /\ pos' = pos + 1 /\ pc' = loop /\ UNCHANGED tokens /\ src[pos + 1] \in set
              /\ pc' # "ready" /\ Before <= pos /\ pos < pos + 1
              /\ \A any : HasRead(any, pos, pos + 1)
              /\ \A k \in (pos + 1)..(pos + 1 - 1) : FALSE
  <2>1. /\ pos' = pos + 1 /\ pc' = loop /\ UNCHANGED tokens /\ src[pos + 1] \in set
    BY <1>1, <1>11 DEF LexLong, PeekIs, Advance
  <2>2. Before <= pos /\ pos < pos + 1 /\ \A k \in (pos + 1)..(pos + 1 - 1) : FALSE
    BY <1>1, <1>4
  <2>3. \A any : HasRead(any, pos, pos + 1)
    BY <1>1, NothingRead
  <2>4. pc' # "ready"
    BY <2>1 DEF InToken
  <2> QED BY <2>1, <2>2, <2>3, <2>4
<1>12. CASE LexWord
  <2>1. LexLong(Letters, "word") /\ "word" \in InToken /\ canLexHeaderName' = canLexHeaderName
    BY <1>12 DEF LexWord, InToken
  <2>2. Placed(pc', tokenStart', pos', Before)
    BY <1>3, <1>4, <1>11, <2>1 DEF Placed
  <2>3. Moded(pc', canLexHeaderName', Armed)
    BY <1>4, <1>11, <2>1 DEF Moded
  <2> QED BY <1>3, <1>11, <2>1, <2>2, <2>3, NoToken
<1>13. CASE LexNumber
  <2>1. LexLong(Digits, "number") /\ "number" \in InToken
        /\ canLexHeaderName' = canLexHeaderName
    BY <1>13 DEF LexNumber, InToken
  <2>2. Placed(pc', tokenStart', pos', Before)
    BY <1>3, <1>4, <1>11, <2>1 DEF Placed
  <2>3. Moded(pc', canLexHeaderName', Armed)
    BY <1>4, <1>11, <2>1 DEF Moded
  <2> QED BY <1>3, <1>11, <2>1, <2>2, <2>3, NoToken
<1>14. CASE LexHash
  <2>1. LexLong({"#"}, "pp") /\ "pp" \in InToken /\ canLexHeaderName' = canLexHeaderName
    BY <1>14 DEF LexHash, InToken
  <2>2. Placed(pc', tokenStart', pos', Before)
    BY <1>3, <1>4, <1>11, <2>1 DEF Placed
  <2>3. Moded(pc', canLexHeaderName', Armed)
    BY <1>4, <1>11, <2>1 DEF Moded
  <2> QED BY <1>3, <1>11, <2>1, <2>2, <2>3, NoToken
<1>15. CASE LexHeader
  <2>1. LexLong({"<"}, "header") /\ "header" \in InToken
        /\ canLexHeaderName' = FALSE /\ canLexHeaderName
    BY <1>15 DEF LexHeader, InToken
  <2>2. Placed(pc', tokenStart', pos', Before)
    <3> DEFINE here == pos + 1
    <3>0. /\ \A k \in (pos + 1)..(here - 1) : FALSE
          /\ src[pos + 1] \in {"<"} /\ pos < here /\ Before <= pos
      BY <1>1, <1>4, <1>11, <2>1
    <3>1. /\ \A k \in (pos + 1)..(here - 1) : src[k + 1] \notin {">", NL}
          /\ src[pos + 1] = "<"
      BY <3>0
    <3> HIDE DEF here
    <3>2. Placed("header", pos, here, Before)
      BY <1>4, <3>0, <3>1, HeaderPlaced
    <3> QED BY <1>3, <1>11, <2>1, <3>2 DEF here
  <2>3. Moded(pc', canLexHeaderName', Armed)
    BY <1>4, <1>11, <2>1 DEF Moded
  <2> QED BY <1>3, <1>11, <2>1, <2>2, <2>3, NoToken
<1> QED BY <1>5, <1>6, <1>8, <1>9, <1>10, <1>12, <1>13, <1>14, <1>15 DEF Dispatch

(* A loop ends without another character: the token runs to the cursor.    *)
LEMMA FinishStep ==
    ASSUME TypeInv, LexInv, pc \in {"word", "number", "pp"} \/ (pc = "header" /\ Armed),
           NEW type \in TokenTypes, NEW value \in Values, Finish(type, value),
           type # "TT_EOF", Munched(tokenStart, pos, type, Armed),
           type = "TT_NUM" =>
               \/ value = Numeral(TextOf(tokenStart, pos), 10) /\ value <= MaxNum
               \/ ndebug /\ value = 0 /\ ~(Numeral(TextOf(tokenStart, pos), 10) <= MaxNum),
           canLexHeaderName' <=> type = "PP_INCLUDE" \/ (Armed /\ ~CharIs(tokenStart, "<"))
    PROVE  LexInv'
<1>1. /\ UNCHANGED <<ndebug, src>> /\ pos' = pos /\ pc # "ready"
      /\ Emit(type, tokenStart, tokenStartLoc, value)
  BY DEF Finish, Cursor
<1>2. Before <= tokenStart /\ tokenStart < pos /\ Gap(Before, tokenStart)
  BY DEF LexInv, Placed, InToken
<1>3. /\ tokenStart \in Nat /\ pos \in Nat /\ pos <= Len(src) /\ tokenStartLoc \in Nat \X Nat
  BY DEF TypeInv
<1>4. pos' \in Nat /\ pos' <= Len(src) /\ tokenStart < pos' /\ Munched(tokenStart, pos', type, Armed)
  BY <1>1, <1>2, <1>3
<1>5. type = "TT_NUM" =>
          \/ value = Numeral(TextOf(tokenStart, pos'), 10) /\ value <= MaxNum
          \/ ndebug /\ value = 0 /\ ~(Numeral(TextOf(tokenStart, pos'), 10) <= MaxNum)
  BY <1>1
<1> QED BY <1>1, <1>2, <1>3, <1>4, <1>5, Emitted

LEMMA LoopSteps == TypeInv /\ LexInv /\ Loop => LexInv'
<1> SUFFICES ASSUME TypeInv, LexInv, Loop PROVE LexInv'
  OBVIOUS
<1> DEFINE text  == TextOf(tokenStart, pos)
           first == src[tokenStart + 1]
<1>1. pc \in InToken
  BY DEF Loop, LoopChar, LoopChars, LoopExit, EndWord, EndNumber, EndPPKeyword, HeaderChar,
         CloseHeader, BreakHeader, InToken
<1>2. /\ Before \in Nat /\ Armed \in BOOLEAN /\ pos \in Nat /\ pos <= Len(src)
      /\ Len(src) \in Nat /\ src \in Seq(STRING) /\ tokenStart \in Nat
      /\ tokenStartLoc \in Nat \X Nat /\ 0 \in Values /\ canLexHeaderName \in BOOLEAN
  BY BeforeTyped DEF TypeInv, Values
<1>3. Before <= tokenStart /\ tokenStart < pos /\ Gap(Before, tokenStart) /\ pc # "ready"
  BY <1>1 DEF LexInv, Placed, InToken
<1>4. /\ pc \in {"word", "number", "pp"} => (canLexHeaderName <=> Armed)
      /\ pc = "header" => Armed /\ ~canLexHeaderName
      /\ pc = "word" => first \in Letters /\ HasRead(Letters \cup Digits, tokenStart, pos)
      /\ pc = "number" => first \in Digits /\ HasRead(Digits, tokenStart, pos)
      /\ pc = "pp" => first = "#" /\ HasRead(Letters, tokenStart, pos)
      /\ pc = "header" => /\ first = "<"
                          /\ \A k \in (tokenStart + 1)..(pos - 1) : src[k + 1] \notin {">", NL}
  BY DEF LexInv, Placed, Moded
<1>5. text[1] = first /\ (CharIs(tokenStart, "<") <=> first = "<")
  <2>1. text[1] = first
    BY <1>2, <1>3, TextPlaces
  <2>2. tokenStart < Len(src)
    BY <1>2, <1>3
  <2> QED BY <2>1, <2>2 DEF CharIs
<1> HIDE DEF text, first
<1>6. ASSUME UNCHANGED <<ndebug, src, Start, canLexHeaderName, pc, tokens>>,
             Placed(pc, tokenStart, pos', Before)
      PROVE  LexInv'
  <2>1. Moded(pc', canLexHeaderName', Armed) /\ tokenStart' = tokenStart /\ pc' # "ready"
    BY <1>3, <1>6 DEF LexInv, Start
  <2> QED BY <1>3, <1>6, <2>1, NoToken
<1>7. CASE LoopChar
  <2>1. /\ pos' = pos + 1 /\ pc \in {"word", "number", "pp"}
        /\ src[pos + 1] \in LoopChars[pc]
        /\ UNCHANGED <<ndebug, src, Start, canLexHeaderName, pc, tokens>>
    BY <1>2, <1>7 DEF LoopChar, LoopChars, Advance, PeekIs
  <2>2. tokenStart < pos + 1
    BY <1>2, <1>3
  <2>3. CASE pc = "word"
    <3>1. HasRead(Letters \cup Digits, tokenStart, pos + 1)
      BY <1>2, <1>3, <1>4, <2>1, <2>3, ReadGrows DEF LoopChars
    <3>2. Placed(pc, tokenStart, pos + 1, Before)
      BY <1>3, <1>4, <2>2, <2>3, <3>1 DEF Placed, first
    <3> QED BY <1>6, <2>1, <3>2
  <2>4. CASE pc = "number"
    <3>1. HasRead(Digits, tokenStart, pos + 1)
      BY <1>2, <1>3, <1>4, <2>1, <2>4, ReadGrows DEF LoopChars
    <3>2. Placed(pc, tokenStart, pos + 1, Before)
      BY <1>3, <1>4, <2>2, <2>4, <3>1 DEF Placed, first
    <3> QED BY <1>6, <2>1, <3>2
  <2>5. CASE pc = "pp"
    <3>1. HasRead(Letters, tokenStart, pos + 1)
      BY <1>2, <1>3, <1>4, <2>1, <2>5, ReadGrows DEF LoopChars
    <3>2. Placed(pc, tokenStart, pos + 1, Before)
      BY <1>3, <1>4, <2>2, <2>5, <3>1 DEF Placed, first
    <3> QED BY <1>6, <2>1, <3>2
  <2> QED BY <2>1, <2>3, <2>4, <2>5
<1>8. CASE HeaderChar
  <2>1. /\ pos' = pos + 1 /\ pc = "header" /\ pos < Len(src) /\ src[pos + 1] \notin {">", NL}
        /\ UNCHANGED <<ndebug, src, Start, canLexHeaderName, pc, tokens>>
    BY <1>2, <1>8 DEF HeaderChar, Advance, AtEnd, PeekIs
  <2>2. tokenStart < pos'
    BY <1>2, <1>3, <2>1
  <2>3. \A k \in (tokenStart + 1)..(pos' - 1) : src[k + 1] \notin {">", NL}
    <3>1. \A k \in (tokenStart + 1)..(pos' - 1) :
              k \in (tokenStart + 1)..(pos - 1) \/ k = pos
      BY <1>2, <2>1
    <3> QED BY <1>4, <2>1, <3>1
  <2>4. Placed("header", tokenStart, pos', Before)
    BY <1>3, <1>4, <2>1, <2>2, <2>3, HeaderPlaced DEF first
  <2> QED BY <1>6, <2>1, <2>4
<1>9. CASE EndWord
  <2> DEFINE type == IF text \in DOMAIN Keywords THEN Keywords[text] ELSE "TT_IDENT"
  <2>1. /\ pc = "word" /\ ~(pos < Len(src) /\ src[pos + 1] \in Letters \cup Digits)
        /\ Finish(type, 0) /\ canLexHeaderName' = canLexHeaderName
    BY <1>2, <1>9 DEF EndWord, LoopExit, LoopChars, PeekIs, text
  <2>2. type = Classify(text, Armed)
    BY <1>2, <1>4, <1>5, <2>1, TypesByStart
  <2>3. type \notin {"TT_EOF", "TT_NUM", "PP_INCLUDE"} /\ type \in TokenTypes
    BY TypesApart, TypesCovered
  <2> HIDE DEF type
  <2>4. Munched(tokenStart, pos, type, Armed)
    BY <1>2, <1>3, <1>4, <2>1, <2>2, Run DEF text, first
  <2>5. first # "<"
    BY <1>4, <2>1, CharClasses
  <2> QED BY <1>2, <1>4, <1>5, <2>1, <2>3, <2>4, <2>5, FinishStep
<1>10. CASE EndNumber
  <2> DEFINE n == Str2I64(text)
  <2>1. /\ pc = "number" /\ ~(pos < Len(src) /\ src[pos + 1] \in Digits)
        /\ canLexHeaderName' = canLexHeaderName
        /\ IF n <= MaxNum THEN Finish("TT_NUM", n)
           ELSE IF ndebug THEN Finish("TT_NUM", 0)
           ELSE pc' = "aborted" /\ UNCHANGED <<ndebug, src, Cursor, Start, tokens>>
    BY <1>2, <1>10 DEF EndNumber, LoopExit, LoopChars, PeekIs, text
  <2>2. Classify(text, Armed) = "TT_NUM"
    BY <1>2, <1>4, <1>5, <2>1, TypesByStart
  <2>3. Munched(tokenStart, pos, "TT_NUM", Armed)
    BY <1>2, <1>3, <1>4, <2>1, <2>2, Run DEF text, first
  <2>4. first # "<" /\ "TT_NUM" \in TokenTypes /\ n \in Values /\ n = Numeral(text, 10)
    <3>1. first # "<"
      BY <1>4, <2>1, CharClasses
    <3>2. text \in Seq(STRING)
      BY TextTyped DEF text
    <3> QED BY <3>1, <3>2, TypesCovered DEF Values, Str2I64
  <2> HIDE DEF n
  <2>5. CASE n <= MaxNum
    <3>1. Finish("TT_NUM", n)
      BY <2>1, <2>5
    <3>2. n = Numeral(TextOf(tokenStart, pos), 10)
      BY <2>4 DEF text
    <3> QED BY <1>2, <1>4, <1>5, <2>1, <2>3, <2>4, <2>5, <3>1, <3>2, FinishStep
  <2>6. CASE ~(n <= MaxNum) /\ ndebug
    <3>1. Finish("TT_NUM", 0)
      BY <2>1, <2>6
    <3>2. ~(Numeral(TextOf(tokenStart, pos), 10) <= MaxNum)
      BY <2>4, <2>6 DEF text
    <3> QED BY <1>2, <1>4, <1>5, <2>1, <2>3, <2>4, <2>6, <3>1, <3>2, FinishStep
  <2>7. CASE ~(n <= MaxNum) /\ ~ndebug
    <3>1. pc' = "aborted" /\ UNCHANGED <<ndebug, src, Cursor, Start, tokens>>
      BY <2>1, <2>7
    <3>2. Placed(pc', tokenStart', pos', Before) /\ Moded(pc', canLexHeaderName', Armed)
      BY <3>1 DEF Placed, Moded, InToken
    <3> QED BY <1>3, <3>1, <3>2, NoToken
  <2> QED BY <2>5, <2>6, <2>7
<1>11. CASE EndPPKeyword
  <2>1. /\ pc = "pp" /\ ~(pos < Len(src) /\ src[pos + 1] \in Letters)
        /\ IF text \in DOMAIN PPKeywords
           THEN Finish(PPKeywords[text], 0) /\ canLexHeaderName' = TRUE
           ELSE Finish("TT_ERROR", 0) /\ UNCHANGED canLexHeaderName
    BY <1>2, <1>11 DEF EndPPKeyword, LoopExit, LoopChars, PeekIs, text
  <2>2. /\ Classify(text, Armed)
           = IF text \in DOMAIN PPKeywords THEN PPKeywords[text] ELSE "TT_ERROR"
        /\ first # "<"
    BY <1>2, <1>4, <1>5, <2>1, TypesByStart
  <2>3. CASE text \in DOMAIN PPKeywords
    <3>1. Munched(tokenStart, pos, PPKeywords[text], Armed)
      BY <1>2, <1>3, <1>4, <2>1, <2>2, <2>3, Run DEF text, first
    <3>2. PPKeywords[text] = "PP_INCLUDE" /\ PPKeywords[text] \in TokenTypes
      BY <2>3, TypesApart, TypesCovered
    <3> QED BY <1>2, <2>1, <2>3, <3>1, <3>2, FinishStep
  <2>4. CASE text \notin DOMAIN PPKeywords
    <3>1. Munched(tokenStart, pos, "TT_ERROR", Armed)
      BY <1>2, <1>3, <1>4, <2>1, <2>2, <2>4, Run DEF text, first
    <3> QED BY <1>2, <1>4, <1>5, <2>1, <2>2, <2>4, <3>1, TypesCovered, FinishStep
  <2> QED BY <2>3, <2>4
<1>12. CASE CloseHeader
  <2> DEFINE type == IF pos = tokenStart + 1 THEN "TT_ERROR" ELSE "TT_HEADER_NAME"
  <2>1. /\ pc = "header" /\ pos < Len(src) /\ src[pos + 1] = ">" /\ pos' = pos + 1
        /\ Emit(type, tokenStart, tokenStartLoc, 0) /\ UNCHANGED <<ndebug, src, canLexHeaderName>>
    BY <1>2, <1>12 DEF CloseHeader, PeekIs, Advance
  <2>2. /\ tokenStart < pos' /\ pos' \in Nat /\ pos' <= Len(src) /\ src[pos'] = ">"
        /\ pos' - 2 = pos - 1 /\ (pos' - tokenStart > 2 <=> pos # tokenStart + 1)
    BY <1>2, <1>3, <2>1
  <2>3. \A k \in (tokenStart + 1)..(pos' - 2) : src[k + 1] \notin {">", NL}
    BY <1>4, <2>1, <2>2
  <2>4. type = IF pos' - tokenStart > 2 THEN "TT_HEADER_NAME" ELSE "TT_ERROR"
    BY <2>2
  <2>5. type \notin {"TT_EOF", "TT_NUM", "PP_INCLUDE"} /\ type \in TokenTypes
    BY TypesCovered
  <2> HIDE DEF type
  <2>6. Munched(tokenStart, pos', type, TRUE)
    BY <1>2, <1>4, <2>1, <2>2, <2>3, <2>4, Header DEF first
  <2>7. Armed = TRUE
    BY <1>2, <1>4, <2>1
  <2> QED BY <1>2, <1>3, <1>4, <1>5, <2>1, <2>2, <2>5, <2>6, <2>7, Emitted
<1>13. CASE BreakHeader
  <2>1. /\ pc = "header" /\ ~(pos < Len(src) /\ src[pos + 1] # NL)
        /\ Finish("TT_ERROR", 0) /\ UNCHANGED canLexHeaderName
    BY <1>2, <1>13 DEF BreakHeader, AtEnd, PeekIs
  <2>2. Munched(tokenStart, pos, "TT_ERROR", TRUE)
    BY <1>2, <1>3, <1>4, <2>1, Header DEF first
  <2>3. Armed = TRUE
    BY <1>2, <1>4, <2>1
  <2> QED BY <1>2, <1>4, <1>5, <2>1, <2>2, <2>3, TypesCovered, FinishStep
<1> QED BY <1>7, <1>8, <1>9, <1>10, <1>11, <1>12, <1>13 DEF Loop
----------------------------------------------------------------------------
LEMMA LexInvInit == Init => LexInv
<1> SUFFICES ASSUME Init PROVE LexInv
  OBVIOUS
<1>1. tokens = <<>> /\ pos = 0 /\ pc = "skip" /\ canLexHeaderName = FALSE
  BY DEF Init
<1>2. \A i \in 1..Len(tokens) : FALSE
  BY <1>1
<1>3. Before = 0 /\ ~Armed
  BY <1>1 DEF Before, EndBefore, Armed, HeaderArmed
<1>4. Gap(0, 0)
  <2>1. \A k \in 0..(0 - 1) : FALSE
    OBVIOUS
  <2> QED BY <2>1 DEF Gap
<1>5. Placed(pc, tokenStart, pos, Before)
  BY <1>1, <1>3, <1>4 DEF Placed, InToken
<1>6. Moded(pc, canLexHeaderName, Armed)
  BY <1>1, <1>3 DEF Moded
<1>7. Last /\ AllFit
  BY <1>2 DEF Last, AllFit
<1> QED BY <1>5, <1>6, <1>7 DEF LexInv

LEMMA LexInvNext == TypeInv /\ LexInv /\ [Next]_vars => LexInv'
<1> SUFFICES ASSUME TypeInv, LexInv, [Next]_vars PROVE LexInv'
  OBVIOUS
<1>1. ASSUME UNCHANGED vars PROVE LexInv'
  <2>1. UNCHANGED <<ndebug, src, tokens, pc, pos, tokenStart, canLexHeaderName>>
    BY <1>1 DEF vars
  <2>2. Last' /\ AllFit'
    BY <2>1, SameTokens DEF LexInv, Last
  <2>3. Placed(pc, tokenStart, pos, Before)' /\ Moded(pc, canLexHeaderName, Armed)'
    <3>1. Before' = Before /\ (Armed' <=> Armed)
      BY <2>1, SameTokens
    <3> QED BY <2>1, <3>1 DEF LexInv, Placed, Moded, Gap, CommentedOut, CharIs, HasRead
  <2> QED BY <2>2, <2>3 DEF LexInv
<1> QED BY <1>1, SkipSteps, DispatchSteps, LoopSteps, NextStep DEF Next, Terminating

LEMMA LexInvAlways == Spec => []LexInv
<1>1. Spec => [](TypeInv /\ LexInv)
  <2>1. Init => TypeInv /\ LexInv
    BY TypeInvInit, LexInvInit
  <2>2. TypeInv /\ LexInv /\ [Next]_vars => (TypeInv /\ LexInv)'
    BY TypeInvNext, LexInvNext
  <2> QED BY <2>1, <2>2, PTL DEF Spec
<1> QED BY <1>1, PTL

(* The tokens are what the lexical grammar makes of the text: they tile    *)
(* it, each is the longest lexeme there with the type of that lexeme, and  *)
(* header names are read exactly where #include asks for them, for every   *)
(* source, keyword table and set of letters.                               *)
THEOREM LexerTokens == Spec => []TokensExact
<1>1. ASSUME LexInv PROVE TokensExact
  <2>1. Tiling
    <3> SUFFICES ASSUME NEW i \in 1..Len(tokens)
                 PROVE  /\ EndBefore(i) <= tokens[i].start /\ tokens[i].end <= Len(src)
                        /\ IF tokens[i].type = "TT_EOF"
                           THEN i = Len(tokens) /\ tokens[i].start = Len(src)
                           ELSE tokens[i].start < tokens[i].end
                        /\ \A k \in EndBefore(i)..(tokens[i].start - 1) :
                               src[k + 1] \in Blanks \/ CommentedOut(EndBefore(i), k)
      BY DEF Tiling
    <3>1. Fits(tokens[i], EndBefore(i), HeaderArmed(i))
      BY <1>1 DEF LexInv, AllFit
    <3>2. tokens[i].type = "TT_EOF" => i = Len(tokens)
      BY <1>1 DEF LexInv, Last
    <3> QED BY <3>1, <3>2 DEF Fits, Gap
  <2>2. MaximalMunch
    <3>1. \A i \in 1..Len(tokens) : Fits(tokens[i], EndBefore(i), HeaderArmed(i))
      BY <1>1 DEF LexInv, AllFit
    <3> QED BY <3>1 DEF MaximalMunch, Fits, Munched
  <2>3. HeaderModeTracksTokens
    BY <1>1 DEF LexInv, Moded, Armed, HeaderModeTracksTokens
  <2> QED BY <2>1, <2>2, <2>3 DEF TokensExact
<1> QED BY <1>1, LexInvAlways, PTL

(* Every number token carries the value of its digits, when INT64_MAX      *)
(* holds it; the zero of a failed conversion only without assertions.      *)
THEOREM LexerNumbers == Spec => []NumbersExact
<1>1. ASSUME LexInv PROVE NumbersExact
  <2>1. \A i \in 1..Len(tokens) : Counted(tokens[i])
    BY <1>1 DEF LexInv, AllFit, Fits
  <2> QED BY <2>1 DEF Counted, NumbersExact
<1> QED BY <1>1, LexInvAlways, PTL
=============================================================================
