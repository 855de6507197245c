------------------------------- MODULE Lexer -------------------------------
(***************************************************************************)
(* The lexer of src/src/compiler/lexer.c: lexer_new runs lex() once and    *)
(* lexer_next runs it again, each time leaving one token in `lookahead`.   *)
(* A loop iteration of the code (one lexer_advance in skip_whitespace,     *)
(* lex_ident_or_kw, lex_number, lex_pp_keyword or lex_header_name) is one  *)
(* action, so are the dispatch on the first character of a token and every *)
(* exit of a loop.  `pos` counts characters from 0 as in the code;         *)
(* src[pos + 1] is the character under it.                                 *)
(* A definition that stands right before another, with a name that says    *)
(* what it gets wrong, is a seeded defect: a run that uses it in place of  *)
(* the right one must find a property violated.                            *)
(***************************************************************************)
EXTENDS Integers, Sequences, FiniteSets

CONSTANTS
    Sources,     (* the source texts considered: sequences of characters    *)
    Letters,     (* the characters char_is_letter accepts                   *)
    Keywords,    (* the texts of gperf/keywords.gperf                       *)
    PPKeywords,  (* the texts of gperf/ppkeywords.gperf, "#" included       *)
    MaxNum       (* INT64_MAX                                               *)

ASSUME SourcesAssumption ==
    /\ Sources \subseteq Seq(STRING)
    /\ Letters \subseteq STRING
    /\ MaxNum \in Nat

VARIABLES
    ndebug,            (* the dist (Release) build, in which assert() is gone*)
    src,               (* Lexer.source, never written after lexer_new        *)
    pos, line, column, (* the cursor of lexer_advance                        *)
    tokenStart,        (* Lexer.tokenStart                                   *)
    tokenStartLoc,     (* Lexer.tokenStartLoc, without the file name         *)
    canLexHeaderName,  (* set by #include, cleared by the next "<"           *)
    pc,                (* the loop or call the lexer is in                   *)
    tokens             (* every value `lookahead` has held, oldest first     *)

vars == <<ndebug, src, pos, line, column, tokenStart, tokenStartLoc,
          canLexHeaderName, pc, tokens>>

lookahead == tokens[Len(tokens)]
----------------------------------------------------------------------------
(* Characters. *)

NL     == "\n"
Blanks == {" ", "\t", "\r", NL}
Digits == {"0", "1", "2", "3", "4", "5", "6", "7", "8", "9"}

(* lexer_peek: is there a character of `set` `n` places after the cursor? *)
PeekIs(n, set) == pos + n < Len(src) /\ src[pos + n + 1] \in set
AtEnd          == pos >= Len(src)

DigitOf(c) ==
    CASE c = "0" -> 0 [] c = "1" -> 1 [] c = "2" -> 2 [] c = "3" -> 3
      [] c = "4" -> 4 [] c = "5" -> 5 [] c = "6" -> 6 [] c = "7" -> 7
      [] c = "8" -> 8 [] c = "9" -> 9

(* The number a run of digits denotes in a base; module StrToX shows that  *)
(* str2i64 returns it, or ERANGE when it exceeds INT64_MAX.                *)
Numeral(text, base) ==
    LET v[k \in 0..Len(text)] ==
            IF k = 0 THEN 0 ELSE v[k - 1] * base + DigitOf(text[k])
    IN  v[Len(text)]

(* str2i64(text, 10) as lex_number calls it. *)
Str2I64(text) == Numeral(text, 10)
----------------------------------------------------------------------------
(* Tokens. *)

Single ==
    [c \in {"{", "}", "(", ")", ";", "-", "~", "^", "+", "*", "/", "%"} |->
        CASE c = "{" -> "TT_LBRACE" [] c = "}" -> "TT_RBRACE"
          [] c = "(" -> "TT_LPAREN" [] c = ")" -> "TT_RPAREN"
          [] c = ";" -> "TT_SEMI"   [] c = "-" -> "TT_MINUS"
          [] c = "~" -> "TT_TILDE"  [] c = "^" -> "TT_CARET"
          [] c = "+" -> "TT_PLUS"   [] c = "*" -> "TT_STAR"
          [] c = "/" -> "TT_SLASH"  [] c = "%" -> "TT_PERCENT"]

(* The characters that may begin a two-character operator, each with the   *)
(* type it has alone and its two-character forms.                          *)
Solo ==
    [c \in {"!", "&", "|", "=", ">", "<"} |->
        CASE c = "!" -> "TT_BANG" [] c = "&" -> "TT_AMP"
          [] c = "|" -> "TT_PIPE" [] c = "=" -> "TT_ERROR"
          [] c = ">" -> "TT_RIGHT" [] c = "<" -> "TT_LEFT"]

PairType(c, d) ==
    CASE c = "!" /\ d = "=" -> "TT_BANG_EQUAL"
      [] c = "&" /\ d = "&" -> "TT_AMP_AMP"
      [] c = "|" /\ d = "|" -> "TT_PIPE_PIPE"
      [] c = "=" /\ d = "=" -> "TT_EQUAL_EQUAL"
      [] c = ">" /\ d = "=" -> "TT_RIGHT_EQUAL"
      [] c = ">" /\ d = ">" -> "TT_RIGHT_RIGHT"
      [] c = "<" /\ d = "=" -> "TT_LEFT_EQUAL"
      [] c = "<" /\ d = "<" -> "TT_LEFT_LEFT"
      [] OTHER -> "TT_ERROR"
IsPair(c, d) == PairType(c, d) # "TT_ERROR"

(* No letter starts anything but a word, and the tables hold no type that  *)
(* lex() gives a token of its own.                                         *)
ASSUME TablesAssumption ==
    /\ Letters \cap (Digits \cup Blanks \cup {"#"} \cup DOMAIN Single \cup DOMAIN Solo) = {}
    /\ \A text \in DOMAIN Keywords : Keywords[text] \notin {"TT_EOF", "TT_NUM", "PP_INCLUDE"}
    /\ \A text \in DOMAIN PPKeywords : PPKeywords[text] = "PP_INCLUDE"

(* make_token: the text runs from tokenStart to the cursor. *)
Token(type, start, end, loc, value) ==
    [type |-> type, start |-> start, end |-> end, loc |-> loc, value |-> value]

(* The text between two places of the source: lexer_text. *)
TextOf(start, end) == SubSeq(src, start + 1, end)
----------------------------------------------------------------------------
(* Cursor movement.  The two-character steps never cross a newline, so one *)
(* clause per character, as in lexer_advance, is only needed for one.      *)

AdvanceForgetsColumn(n) ==
    /\ pos' = pos + n
    /\ line' = line + (IF n = 1 /\ src[pos + 1] = NL THEN 1 ELSE 0)
    /\ column' = column + n
Advance(n) ==
    /\ pos' = pos + n
    /\ IF n = 1 /\ src[pos + 1] = NL
       THEN line' = line + 1 /\ column' = 1
       ELSE line' = line /\ column' = column + n

Cursor == <<pos, line, column>>
Start  == <<tokenStart, tokenStartLoc>>

(* lex() returns with this token in lookahead. *)
Emit(type, start, loc, value) ==
    /\ tokens' = Append(tokens, Token(type, start, pos', loc, value))
    /\ pc' = "ready"
----------------------------------------------------------------------------
(* skip_whitespace *)

SkipBlank ==
    /\ pc = "skip" /\ PeekIs(0, Blanks)
    /\ Advance(1)
    /\ UNCHANGED <<ndebug, src, Start, canLexHeaderName, pc, tokens>>

AtCommentUnchecked == PeekIs(0, {"/"}) /\ ~(pos + 1 < Len(src) /\ src[pos + 2] # "/")
AtComment == PeekIs(0, {"/"}) /\ PeekIs(1, {"/"})

OpenComment ==
    /\ pc = "skip" /\ AtComment
    /\ Advance(2)
    /\ pc' = "comment"
    /\ UNCHANGED <<ndebug, src, Start, canLexHeaderName, tokens>>

CommentChar ==
    /\ pc = "comment" /\ ~AtEnd /\ ~PeekIs(0, {NL})
    /\ Advance(1)
    /\ UNCHANGED <<ndebug, src, Start, canLexHeaderName, pc, tokens>>

CloseCommentOnlyAtNewline ==
    /\ pc = "comment" /\ PeekIs(0, {NL})
    /\ pc' = "skip"
    /\ UNCHANGED <<ndebug, src, Cursor, Start, canLexHeaderName, tokens>>
CloseComment ==
    /\ pc = "comment" /\ (AtEnd \/ PeekIs(0, {NL}))
    /\ pc' = "skip"
    /\ UNCHANGED <<ndebug, src, Cursor, Start, canLexHeaderName, tokens>>
----------------------------------------------------------------------------
(* The dispatch of lex() on the character after the blanks. *)

BeginToken ==
    /\ pc = "skip" /\ ~PeekIs(0, Blanks) /\ ~AtComment
    /\ tokenStart' = pos
    /\ tokenStartLoc' = <<line, column>>
    /\ UNCHANGED <<ndebug, src>>

LexEOF ==
    /\ BeginToken /\ AtEnd
    /\ UNCHANGED <<Cursor, canLexHeaderName>>
    /\ Emit("TT_EOF", pos, <<line, column>>, 0)

LexSingle ==
    /\ BeginToken /\ PeekIs(0, DOMAIN Single)
    /\ Advance(1)
    /\ Emit(Single[src[pos + 1]], pos, <<line, column>>, 0)
    /\ UNCHANGED canLexHeaderName

(* After #include the "<" case does not look at the second character.      *)
AtOperator == PeekIs(0, DOMAIN Solo) /\ ~(PeekIs(0, {"<"}) /\ canLexHeaderName)
AtPair == pos + 1 < Len(src) /\ IsPair(src[pos + 1], src[pos + 2])

LexPair ==
    /\ BeginToken /\ AtOperator /\ AtPair
    /\ Advance(2)
    /\ Emit(PairType(src[pos + 1], src[pos + 2]), pos, <<line, column>>, 0)
    /\ UNCHANGED canLexHeaderName

LexSolo ==
    /\ BeginToken /\ AtOperator /\ ~AtPair
    /\ Advance(1)
    /\ Emit(Solo[src[pos + 1]], pos, <<line, column>>, 0)
    /\ UNCHANGED canLexHeaderName

(* A character that starts no token becomes a TT_ERROR token of its own.   *)
LexUnknown ==
    /\ BeginToken /\ ~AtEnd
    /\ ~PeekIs(0, DOMAIN Single \cup DOMAIN Solo \cup Letters \cup Digits \cup {"#"})
    /\ Advance(1)
    /\ Emit("TT_ERROR", pos, <<line, column>>, 0)
    /\ UNCHANGED canLexHeaderName

(* The first character of a longer lexeme selects the loop that reads it.  *)
LexLong(set, loop) ==
    /\ BeginToken /\ PeekIs(0, set)
    /\ Advance(1)
    /\ pc' = loop
    /\ UNCHANGED tokens

LexWord   == LexLong(Letters, "word")   /\ UNCHANGED canLexHeaderName
LexNumber == LexLong(Digits, "number")  /\ UNCHANGED canLexHeaderName
LexHash   == LexLong({"#"}, "pp")       /\ UNCHANGED canLexHeaderName
LexHeaderKeepsMode ==
    canLexHeaderName /\ LexLong({"<"}, "header") /\ UNCHANGED canLexHeaderName
LexHeader ==
    canLexHeaderName /\ LexLong({"<"}, "header") /\ canLexHeaderName' = FALSE
----------------------------------------------------------------------------
(* The loops of lex_ident_or_kw, lex_number, lex_pp_keyword and            *)
(* lex_header_name.                                                        *)

LoopChars == [word |-> Letters \cup Digits, number |-> Digits, pp |-> Letters]

LoopChar ==
    /\ pc \in DOMAIN LoopChars /\ PeekIs(0, LoopChars[pc])
    /\ Advance(1)
    /\ UNCHANGED <<ndebug, src, Start, canLexHeaderName, pc, tokens>>

LoopExit(loop) == pc = loop /\ ~PeekIs(0, LoopChars[loop])
Finish(type, value) ==
    /\ UNCHANGED <<ndebug, src, Cursor, Start>>
    /\ Emit(type, tokenStart, tokenStartLoc, value)

EndWord ==
    /\ LoopExit("word")
    /\ LET text == TextOf(tokenStart, pos) IN
       Finish(IF text \in DOMAIN Keywords THEN Keywords[text] ELSE "TT_IDENT", 0)
    /\ UNCHANGED canLexHeaderName

(* A literal above INT64_MAX trips assert(result.err == 0); without        *)
(* assertions the token carries the zero of the error result.              *)
EndNumberSaturates ==
    /\ LoopExit("number")
    /\ LET n == Str2I64(TextOf(tokenStart, pos)) IN
       Finish("TT_NUM", IF n <= MaxNum THEN n ELSE MaxNum)
    /\ UNCHANGED canLexHeaderName
EndNumber ==
    /\ LoopExit("number")
    /\ LET n == Str2I64(TextOf(tokenStart, pos)) IN
       IF n <= MaxNum THEN Finish("TT_NUM", n)
       ELSE IF ndebug THEN Finish("TT_NUM", 0)
       ELSE pc' = "aborted" /\ UNCHANGED <<ndebug, src, Cursor, Start, tokens>>
    /\ UNCHANGED canLexHeaderName

EndPPKeyword ==
    /\ LoopExit("pp")
    /\ LET text == TextOf(tokenStart, pos) IN
       IF text \in DOMAIN PPKeywords
       THEN Finish(PPKeywords[text], 0) /\ canLexHeaderName' = TRUE
       ELSE Finish("TT_ERROR", 0) /\ UNCHANGED canLexHeaderName

HeaderChar ==
    /\ pc = "header" /\ ~AtEnd /\ ~PeekIs(0, {">", NL})
    /\ Advance(1)
    /\ UNCHANGED <<ndebug, src, Start, canLexHeaderName, pc, tokens>>

(* The closing ">" is consumed; an empty name is an error all the same.    *)
CloseHeader ==
    /\ pc = "header" /\ PeekIs(0, {">"})
    /\ Advance(1)
    /\ Emit(IF pos = tokenStart + 1 THEN "TT_ERROR" ELSE "TT_HEADER_NAME",
            tokenStart, tokenStartLoc, 0)
    /\ UNCHANGED <<ndebug, src, Start, canLexHeaderName>>

BreakHeader ==
    /\ pc = "header" /\ (AtEnd \/ PeekIs(0, {NL}))
    /\ Finish("TT_ERROR", 0)
    /\ UNCHANGED canLexHeaderName
----------------------------------------------------------------------------
Init ==
    /\ ndebug \in BOOLEAN
    /\ src \in Sources
    /\ pos = 0 /\ line = 1 /\ column = 1
    /\ tokenStart = 0 /\ tokenStartLoc = <<1, 1>>
    /\ canLexHeaderName = FALSE
    /\ pc = "skip"
    /\ tokens = <<>>

(* lexer_next.  Its callers (the parser's peek and the lexer tests) stop   *)
(* asking once lexer_done() holds.                                         *)
LexerNext ==
    /\ pc = "ready" /\ lookahead.type # "TT_EOF"
    /\ pc' = "skip"
    /\ UNCHANGED <<ndebug, src, Cursor, Start, canLexHeaderName, tokens>>

Stopped == pc = "aborted" \/ (pc = "ready" /\ lookahead.type = "TT_EOF")
Terminating == Stopped /\ UNCHANGED vars

Skip == SkipBlank \/ OpenComment \/ CommentChar \/ CloseComment
Dispatch ==
    \/ LexEOF \/ LexSingle \/ LexPair \/ LexSolo \/ LexUnknown
    \/ LexWord \/ LexNumber \/ LexHash \/ LexHeader
Loop ==
    \/ LoopChar \/ EndWord \/ EndNumber \/ EndPPKeyword
    \/ HeaderChar \/ CloseHeader \/ BreakHeader

Next == Skip \/ Dispatch \/ Loop \/ LexerNext \/ Terminating

Spec == Init /\ [][Next]_vars
----------------------------------------------------------------------------
(* Properties. *)

TokenTypes ==
    {Single[c] : c \in DOMAIN Single} \cup {Solo[c] : c \in DOMAIN Solo}
    \cup {"TT_BANG_EQUAL", "TT_AMP_AMP", "TT_PIPE_PIPE", "TT_EQUAL_EQUAL",
          "TT_RIGHT_EQUAL", "TT_RIGHT_RIGHT", "TT_LEFT_EQUAL", "TT_LEFT_LEFT",
          "TT_EOF", "TT_ERROR", "TT_IDENT", "TT_NUM", "TT_HEADER_NAME"}
    \cup {Keywords[t] : t \in DOMAIN Keywords}
    \cup {PPKeywords[t] : t \in DOMAIN PPKeywords}

IsToken(t) ==
    t.type \in TokenTypes /\ t.start \in Nat /\ t.end \in Nat /\ t.loc \in Nat \X Nat

(* The variables have their types and the cursor stays inside the source:  *)
(* lexer_peek never lets lexer_advance run past its end.                   *)
TypeOK ==
    /\ ndebug \in BOOLEAN /\ src \in Seq(STRING)
    /\ pos \in 0..Len(src)
    /\ line \in Nat \ {0} /\ column \in Nat \ {0}
    /\ tokenStart \in 0..pos
    /\ tokenStartLoc \in Nat \X Nat
    /\ canLexHeaderName \in BOOLEAN
    /\ pc \in {"skip", "comment", "word", "number", "pp", "header", "ready", "aborted"}
    /\ \A i \in 1..Len(tokens) : IsToken(tokens[i])
    /\ pc = "ready" => tokens # <<>>

(* Where the k-th character (from 0) is, read off the text alone: one line *)
(* per newline before it, one column per character since the last newline. *)
LineOf(k) == 1 + Cardinality({j \in 1..k : src[j] = NL})
ColumnIs(k, c) ==
    /\ c \in 1..(k + 1)
    /\ \A j \in (k + 2 - c)..k : src[j] # NL
    /\ c = k + 1 \/ src[k + 1 - c] = NL
LocationIs(k, l) == l[1] = LineOf(k) /\ ColumnIs(k, l[2])

(* The line and the column the lexer counts incrementally, at the cursor,  *)
(* at the start of the current token and in every token handed out, are    *)
(* those of the text: no newline is missed inside blanks and comments.     *)
PositionCorrect ==
    /\ LocationIs(pos, <<line, column>>)
    /\ LocationIs(tokenStart, tokenStartLoc)
    /\ \A i \in 1..Len(tokens) : LocationIs(tokens[i].start, tokens[i].loc)

CharIs(k, c) == k < Len(src) /\ src[k + 1] = c

(* A character of the source is commented out when a "//" that no token    *)
(* owns stands before it on its line.                                      *)
CommentedOut(from, k) ==
    \E m \in from..k :
        /\ CharIs(m, "/") /\ CharIs(m + 1, "/")
        /\ \A j \in m..k : src[j + 1] # NL
EndBefore(i) == IF i = 1 THEN 0 ELSE tokens[i - 1].end

(* The tokens partition the source: in order, without overlap, none empty  *)
(* but the TT_EOF at the very end, and what lies between two of them is    *)
(* blanks and comments only.                                               *)
Tiling ==
    \A i \in 1..Len(tokens) : LET t == tokens[i] IN
        /\ EndBefore(i) <= t.start /\ t.end <= Len(src)
        /\ IF t.type = "TT_EOF" THEN i = Len(tokens) /\ t.start = Len(src)
                                ELSE t.start < t.end
        /\ \A k \in EndBefore(i)..(t.start - 1) :
               src[k + 1] \in Blanks \/ CommentedOut(EndBefore(i), k)

(* #include arms the header-name mode and only a token that begins with    *)
(* "<" disarms it, however many tokens and lines later.                    *)
HeaderArmed(i) ==
    \E j \in 1..(i - 1) :
        /\ tokens[j].type = "PP_INCLUDE"
        /\ \A k \in (j + 1)..(i - 1) : ~CharIs(tokens[k].start, "<")

(* The lexical grammar: the shapes a lexeme may have.                      *)
AllIn(text, from, set) == \A k \in from..Len(text) : text[k] \in set
Shaped(text, armed) ==
    LET c == text[1] IN
    \/ Len(text) = 1 /\ c \in DOMAIN Single \cup (DOMAIN Solo \ {"="})
                     /\ ~(armed /\ c = "<")
    \/ Len(text) = 2 /\ IsPair(c, text[2]) /\ ~(armed /\ c = "<")
    \/ c \in Letters /\ AllIn(text, 2, Letters \cup Digits)
    \/ c \in Digits /\ AllIn(text, 2, Digits)
    \/ c = "#" /\ AllIn(text, 2, Letters)
    \/ armed /\ c = "<" /\ \A k \in 2..Len(text) :
                              text[k] # NL /\ (k < Len(text) => text[k] # ">")

(* The type of a lexeme of that grammar, and of anything else.             *)
Classify(text, armed) ==
    LET c == text[1] IN
    CASE c \in Letters -> IF text \in DOMAIN Keywords THEN Keywords[text] ELSE "TT_IDENT"
      [] c \in Digits -> "TT_NUM"
      [] c = "#" -> IF text \in DOMAIN PPKeywords THEN PPKeywords[text] ELSE "TT_ERROR"
      [] c \in DOMAIN Single -> Single[c]
      [] armed /\ c = "<" ->
             IF Len(text) > 2 /\ text[Len(text)] = ">" THEN "TT_HEADER_NAME" ELSE "TT_ERROR"
      [] c \in DOMAIN Solo /\ ~(armed /\ c = "<") ->
             IF Len(text) = 1 THEN Solo[c] ELSE PairType(c, text[2])
      [] OTHER -> "TT_ERROR"

(* Every token is the longest lexeme that starts where it starts, with the *)
(* type of that lexeme; a character that starts none is an error by itself.*)
MaximalMunch ==
    \A i \in 1..Len(tokens) : LET t == tokens[i] IN
        t.type # "TT_EOF" =>
            LET armed == HeaderArmed(i)
                text  == TextOf(t.start, t.end)
            IN  /\ Shaped(text, armed) \/ (t.type = "TT_ERROR" /\ t.end = t.start + 1)
                /\ \A e \in (t.end + 1)..Len(src) : ~Shaped(TextOf(t.start, e), armed)
                /\ t.type = Classify(text, armed)

(* lex() is in header-name mode exactly when the tokens it has returned    *)
(* say so: the flag is not lost across calls nor left set by a header.     *)
HeaderModeTracksTokens ==
    pc \in {"skip", "comment", "ready"} =>
        (canLexHeaderName <=> HeaderArmed(Len(tokens) + 1))

(* The tokens are what the lexical grammar makes of the text, with nothing *)
(* between them but blanks and comments, in the mode the text asks for.    *)
TokensExact == Tiling /\ MaximalMunch /\ HeaderModeTracksTokens

(* A number token carries the value its text denotes, or, in a build       *)
(* without assertions, the zero of the failed conversion.                  *)
NumbersExact ==
    \A i \in 1..Len(tokens) : LET t == tokens[i] IN
        t.type = "TT_NUM" =>
            \/ t.value = Numeral(TextOf(t.start, t.end), 10) /\ t.value <= MaxNum
            \/ ndebug /\ t.value = 0 /\ ~(Numeral(TextOf(t.start, t.end), 10) <= MaxNum)

(* Every source text is lexed to its end (or to the failed assertion): no  *)
(* loop of the lexer is entered that a character cannot leave.             *)
SourceLexed == <>Stopped

(* assert(result.err == 0) in lex_number: no literal is out of range.      *)
AssertionHolds == pc # "aborted"
=============================================================================
