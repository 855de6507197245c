------------------------------- MODULE Parser -------------------------------
(***************************************************************************)
(* parser_new, parser_parse and parser_free of src/src/compiler/parser.c,  *)
(* with the ownership of the tokens and of the expressions they build.     *)
(* The C call stack is `stack`: a frame per running parse_..._expression   *)
(* function, the ten functions of the binary operators told apart by a     *)
(* level.  The lexer is any sequence of token types; tokens are known by   *)
(* their place in it, and a node of the tree by the token it stands for    *)
(* (the number, or the operator).  A tree is the set of its nodes.         *)
(***************************************************************************)
EXTENDS Integers, Sequences, FiniteSets

CONSTANTS
    Tokens,      (* the token types the lexer may return                    *)
    MaxTokens    (* bound on the tokens of a source, TT_EOF included        *)

ASSUME TokensAssumption ==
    Tokens \subseteq STRING /\ "TT_EOF" \in Tokens /\ MaxTokens \in Nat \ {0}

VARIABLES
    input,       (* the tokens lexed so far                                 *)
    buffer,      (* Parser.buffer: the tokens lexed but not consumed        *)
    live,        (* the tokens whose text is allocated                      *)
    heap,        (* the expression nodes that are allocated                 *)
    stack,       (* the functions that run, innermost last                  *)
    mode,        (* what the innermost one is about to do                   *)
    value,       (* the expression a function just returned                 *)
    at,          (* the place in the outline of a program                   *)
    id,          (* the identifier parse_function holds, 0 if none          *)
    expression,  (* the expression of the statement                         *)
    result,      (* the result of parser_parse                              *)
    stray        (* has something been freed that was not allocated?        *)

treeVars == <<heap, stack, value>>
callVars == <<at, id, expression, result>>
vars == <<input, buffer, live, treeVars, mode, callVars, stray>>
----------------------------------------------------------------------------
(* The tokens. *)

(* parse_function and parse_statement expect these, in order.              *)
Outline == <<"KW_INT", "TT_IDENT", "TT_LPAREN", "TT_RPAREN", "TT_LBRACE",
             "KW_RETURN", "expression", "TT_SEMI", "TT_RBRACE">>

UnaryOps == {"TT_MINUS", "TT_TILDE", "TT_BANG"}

(* The operators each of the ten functions matches, from                   *)
(* parse_logical_or_expression to parse_multiplicative_expression.         *)
Levels ==
    <<{"TT_PIPE_PIPE"}, {"TT_AMP_AMP"}, {"TT_PIPE"}, {"TT_CARET"}, {"TT_AMP"},
      {"TT_EQUAL_EQUAL", "TT_BANG_EQUAL"},
      {"TT_LEFT", "TT_RIGHT", "TT_LEFT_EQUAL", "TT_RIGHT_EQUAL"},
      {"TT_LEFT_LEFT", "TT_RIGHT_RIGHT"}, {"TT_PLUS", "TT_MINUS"},
      {"TT_STAR", "TT_SLASH", "TT_PERCENT"}>>
Deepest == 10

(* The two logical levels do not free the operator's token.                *)
FreesOperator(level) == level > 2

(* peek(parser, 0) fills an empty buffer, unless the lexer is done, in     *)
(* which case there is no token.                                           *)
LexerDone == input[Len(input)] = "TT_EOF"
NextToken == Len(input)
NextType  == input[NextToken]
Peeking ==
    \/ mode = "expect" /\ at <= Len(Outline) /\ at # 7
    \/ mode \in {"unary", "loop", "close"}

LexAhead ==
    /\ Peeking /\ ~LexerDone
    /\ \E t \in (IF Len(input) + 1 < MaxTokens THEN Tokens ELSE {"TT_EOF"}) :
           /\ input' = Append(input, t)
           /\ live' = IF t = "TT_EOF" THEN live ELSE live \cup {Len(input')}
    /\ buffer' = Append(buffer, Len(input'))
    /\ UNCHANGED <<treeVars, mode, callVars, stray>>
Lex ==
    /\ Peeking /\ buffer = <<>> /\ ~LexerDone
    /\ \E t \in (IF Len(input) + 1 < MaxTokens THEN Tokens ELSE {"TT_EOF"}) :
           /\ input' = Append(input, t)
           /\ live' = IF t = "TT_EOF" THEN live ELSE live \cup {Len(input')}
    /\ buffer' = <<Len(input')>>
    /\ UNCHANGED <<treeVars, mode, callVars, stray>>

Look(types) == Peeking /\ buffer # <<>> /\ NextType \in types
LookNot(types) == Peeking /\ buffer # <<>> /\ NextType \notin types

(* BUF_POP_FIRST *)
Pop == buffer' = Tail(buffer) /\ UNCHANGED input

(* token_free of some tokens (the TT_EOF owns no text) and expression_free *)
(* of a tree.                                                              *)
Free(tokens, tree) ==
    /\ live' = live \ tokens
    /\ stray' = (stray \/ ~({i \in tokens : input[i] # "TT_EOF"} \subseteq live)
                       \/ ~(tree \subseteq DOMAIN heap))
Without(tree) == [n \in DOMAIN heap \ tree |-> heap[n]]

(* A new expression, with the trees it owns.                               *)
Alloc(n, left, right) ==
    heap' = [k \in DOMAIN heap \cup {n} |->
                IF k = n THEN [left |-> left, right |-> right] ELSE heap[k]]
----------------------------------------------------------------------------
(* The stack of calls. *)

Frame(fn, level, left, op) == [fn |-> fn, level |-> level, left |-> left, op |-> op]

(* A function calls the one of the next level before anything else, down   *)
(* to parse_unary_expression.                                              *)
CallFrom(level) ==
    [i \in 1..(Deepest + 1 - level) |-> Frame("level", level + i - 1, {}, 0)]
ParseExpression == CallFrom(1)

Top   == stack[Len(stack)]
Under == SubSeq(stack, 1, Len(stack) - 1)
In(fn) == stack # <<>> /\ Top.fn = fn

(* Which function goes on with the value just returned.                    *)
Resume(frames) ==
    IF frames = <<>> THEN "expect"
    ELSE CASE frames[Len(frames)].fn = "level" -> "operand"
           [] frames[Len(frames)].fn = "unary" -> "negate"
           [] frames[Len(frames)].fn = "paren" -> "close"
----------------------------------------------------------------------------
(* parse_function and parse_statement *)

Expect ==
    /\ mode = "expect" /\ at <= Len(Outline)
    /\ Look({Outline[at]})
    /\ Pop
    /\ IF Outline[at] = "TT_IDENT"
       THEN id' = NextToken /\ UNCHANGED <<live, stray>>
       ELSE Free({NextToken}, {}) /\ UNCHANGED id
    /\ at' = at + 1
    /\ UNCHANGED <<treeVars, mode, expression, result>>

(* The unexpected token has left the buffer and is not freed; the          *)
(* identifier and the expression, when there is one already, are.          *)
Identifier == IF id = 0 THEN {} ELSE {id}
ExpectFailsSkips ==
    /\ mode = "expect" /\ at <= Len(Outline)
    /\ LookNot({Outline[at]})
    /\ Pop
    /\ at' = at + 1
    /\ UNCHANGED <<live, treeVars, mode, id, expression, result, stray>>
ExpectFails ==
    /\ mode = "expect" /\ at <= Len(Outline)
    /\ LookNot({Outline[at]})
    /\ Pop
    /\ Free(Identifier, expression)
    /\ heap' = Without(expression) /\ expression' = {}
    /\ id' = 0 /\ result' = "err"
    /\ mode' = "done"
    /\ UNCHANGED <<stack, value, at>>

CallExpression ==
    /\ mode = "expect" /\ at = 7 /\ value = {}
    /\ stack' = ParseExpression
    /\ mode' = "unary"
    /\ UNCHANGED <<input, buffer, live, heap, value, callVars, stray>>

ExpressionReturned ==
    /\ mode = "expect" /\ at = 7 /\ value # {}
    /\ expression' = value /\ value' = {}
    /\ at' = at + 1
    /\ UNCHANGED <<input, buffer, live, heap, stack, mode, id, result, stray>>

ExpressionFailed ==
    /\ mode = "error" /\ stack = <<>>
    /\ Free(Identifier, {})
    /\ id' = 0 /\ result' = "err"
    /\ mode' = "done"
    /\ UNCHANGED <<input, buffer, treeVars, at, expression>>

Finish ==
    /\ mode = "expect" /\ at > Len(Outline)
    /\ Free({id}, {})
    /\ id' = 0 /\ result' = "ok"
    /\ mode' = "done"
    /\ UNCHANGED <<input, buffer, treeVars, at, expression>>
----------------------------------------------------------------------------
(* parse_unary_expression and parse_primary_expression *)

UnaryOperator ==
    /\ mode = "unary" /\ Look(UnaryOps)
    /\ Pop
    /\ stack' = Append(stack, Frame("unary", 0, {}, NextToken))
    /\ UNCHANGED <<live, heap, mode, value, callVars, stray>>

OpenParen ==
    /\ mode = "unary" /\ Look({"TT_LPAREN"})
    /\ Pop /\ Free({NextToken}, {})
    /\ stack' = Append(stack, Frame("paren", 0, {}, 0)) \o ParseExpression
    /\ UNCHANGED <<heap, mode, value, callVars>>

Number ==
    /\ mode = "unary" /\ Look({"TT_NUM"})
    /\ Pop /\ Free({NextToken}, {})
    /\ Alloc(NextToken, {}, {})
    /\ value' = {NextToken}
    /\ mode' = Resume(stack)
    /\ UNCHANGED <<stack, callVars>>

Unexpected ==
    /\ mode = "unary" /\ LookNot(UnaryOps \cup {"TT_LPAREN", "TT_NUM"})
    /\ Pop
    /\ mode' = "error"
    /\ UNCHANGED <<live, treeVars, callVars, stray>>

Negate ==
    /\ mode = "negate"
    /\ Alloc(Top.op, {}, value) /\ Free({Top.op}, {})
    /\ value' = {Top.op} \cup value
    /\ stack' = Under
    /\ mode' = Resume(Under)
    /\ UNCHANGED <<input, buffer, callVars>>

CloseParen ==
    /\ mode = "close" /\ Look({"TT_RPAREN"})
    /\ Pop /\ Free({NextToken}, {})
    /\ stack' = Under
    /\ mode' = Resume(Under)
    /\ UNCHANGED <<heap, value, callVars>>

CloseParenFails ==
    /\ mode = "close" /\ LookNot({"TT_RPAREN"})
    /\ Pop /\ Free({}, value)
    /\ heap' = Without(value) /\ value' = {}
    /\ stack' = Under
    /\ mode' = "error"
    /\ UNCHANGED callVars
----------------------------------------------------------------------------
(* The functions of the binary operators *)

Update(left, op) == [stack EXCEPT ![Len(stack)].left = left, ![Len(stack)].op = op]

FirstOperand ==
    /\ mode = "operand" /\ Top.op = 0
    /\ stack' = Update(value, 0) /\ value' = {}
    /\ mode' = "loop"
    /\ UNCHANGED <<input, buffer, live, heap, callVars, stray>>

MatchRightAssociative ==
    /\ mode = "loop" /\ Look(Levels[Top.level])
    /\ Pop
    /\ stack' = Update(Top.left, NextToken) \o CallFrom(Top.level)
    /\ mode' = "unary"
    /\ UNCHANGED <<live, heap, value, callVars, stray>>
MatchOperator ==
    /\ mode = "loop" /\ Look(Levels[Top.level])
    /\ Pop
    /\ stack' = Update(Top.left, NextToken) \o CallFrom(Top.level + 1)
    /\ mode' = "unary"
    /\ UNCHANGED <<live, heap, value, callVars, stray>>

RightOperandReturns ==
    /\ mode = "operand" /\ Top.op # 0
    /\ Alloc(Top.op, Top.left, value)
    /\ Free(IF FreesOperator(Top.level) THEN {Top.op} ELSE {}, {})
    /\ value' = {Top.op} \cup Top.left \cup value
    /\ stack' = Under
    /\ mode' = Resume(Under)
    /\ UNCHANGED <<input, buffer, callVars>>
RightOperand ==
    /\ mode = "operand" /\ Top.op # 0
    /\ Alloc(Top.op, Top.left, value)
    /\ Free(IF FreesOperator(Top.level) THEN {Top.op} ELSE {}, {})
    /\ stack' = Update({Top.op} \cup Top.left \cup value, 0) /\ value' = {}
    /\ mode' = "loop"
    /\ UNCHANGED <<input, buffer, callVars>>

LeaveLevel ==
    /\ mode = "loop" /\ LookNot(Levels[Top.level])
    /\ value' = Top.left
    /\ stack' = Under
    /\ mode' = Resume(Under)
    /\ UNCHANGED <<input, buffer, live, heap, callVars, stray>>

(* On an error each function returns; one that holds a left operand frees  *)
(* it, none frees the token of its operator.                               *)
UnwindForgetsLeft ==
    /\ mode = "error" /\ stack # <<>>
    /\ stack' = Under
    /\ UNCHANGED <<input, buffer, live, heap, mode, value, callVars, stray>>
Unwind ==
    /\ mode = "error" /\ stack # <<>>
    /\ Free({}, Top.left) /\ heap' = Without(Top.left)
    /\ stack' = Under
    /\ UNCHANGED <<input, buffer, mode, value, callVars>>
----------------------------------------------------------------------------
(* parser_free, and program_free by the caller of a successful parse.      *)
ParserFree ==
    /\ mode = "done"
    /\ Free({buffer[i] : i \in 1..Len(buffer)}, {})
    /\ buffer' = <<>>
    /\ mode' = "freed"
    /\ UNCHANGED <<input, treeVars, callVars>>

ProgramFree ==
    /\ mode = "freed" /\ result = "ok" /\ expression # {}
    /\ Free({}, expression) /\ heap' = Without(expression)
    /\ expression' = {}
    /\ UNCHANGED <<input, buffer, stack, mode, value, at, id, result>>

Released    == mode = "freed" /\ expression = {}
Terminating == Released /\ UNCHANGED vars
----------------------------------------------------------------------------
(* parser_new lexes the first token into the buffer.                       *)
Init ==
    /\ \E t \in Tokens : input = <<t>> /\ live = IF t = "TT_EOF" THEN {} ELSE {1}
    /\ buffer = <<1>>
    /\ heap = [n \in {} |-> n]
    /\ stack = <<>> /\ mode = "expect" /\ value = {}
    /\ at = 1 /\ id = 0 /\ expression = {} /\ result = "none"
    /\ stray = FALSE

Function   == Expect \/ ExpectFails \/ CallExpression \/ ExpressionReturned
              \/ ExpressionFailed \/ Finish
Primary    == UnaryOperator \/ OpenParen \/ Number \/ Unexpected \/ Negate
              \/ CloseParen \/ CloseParenFails
Binary     == FirstOperand \/ MatchOperator \/ RightOperand \/ LeaveLevel \/ Unwind

Next == Lex \/ Function \/ Primary \/ Binary \/ ParserFree \/ ProgramFree \/ Terminating

Spec == Init /\ [][Next]_vars
----------------------------------------------------------------------------
(* Properties. *)

Places == 1..Len(input)

(* The variables have their types; the buffer never holds more than the    *)
(* last token lexed.                                                       *)
TypeOK ==
    /\ input \in Seq(Tokens) /\ input # <<>>
    /\ buffer \in {<<>>, <<Len(input)>>}
    /\ live \subseteq Places
    /\ DOMAIN heap \subseteq Places
    /\ \A n \in DOMAIN heap :
           DOMAIN heap[n] = {"left", "right"} /\ heap[n].left \subseteq Places
                                              /\ heap[n].right \subseteq Places
    /\ \A i \in 1..Len(stack) :
           stack[i].left \subseteq Places /\ stack[i].op \in 0..Len(input)
           /\ stack[i].fn \in {"level", "unary", "paren"}
    /\ mode \in {"expect", "unary", "negate", "operand", "loop", "close", "error",
                 "done", "freed"}
    /\ value \subseteq Places /\ expression \subseteq Places
    /\ at \in 1..(Len(Outline) + 1) /\ id \in 0..Len(input)
    /\ result \in {"none", "ok", "err"} /\ stray \in BOOLEAN

(* The trees somebody is responsible for: the statement's, the one just    *)
(* returned, and the left operands of the running functions.               *)
Trees == <<expression, value>> \o [i \in 1..Len(stack) |-> stack[i].left]
IsTree(t) ==
    \E root \in t :
        /\ t = {root} \cup heap[root].left \cup heap[root].right
        /\ root \notin heap[root].left \cup heap[root].right
        /\ heap[root].left \cap heap[root].right = {}

(* Every allocated expression belongs to exactly one tree that somebody    *)
(* will free: no error path loses a half-built operand and none is owned   *)
(* twice.  Nothing is left when the parse failed or the program is freed.  *)
HeapAccounted ==
    LET trees == Trees
        held  == {i \in 1..Len(trees) : trees[i] # {}}
    IN  /\ DOMAIN heap = UNION {trees[i] : i \in held}
        /\ \A i, j \in held : i # j => trees[i] \cap trees[j] = {}
        /\ \A i \in held : IsTree(trees[i])
        /\ Released \/ result = "err" => held = {}

(* Nothing is freed twice: no token, whoever consumed it or left it in the *)
(* buffer, and no expression.                                              *)
NoStrayFree == ~stray

(* The texts that leak: after a success those of the && and || of the      *)
(* program, after a failure that of the token the error is about and of    *)
(* operators met before it.                                                *)
TokensOf(types) == {i \in Places : input[i] \in types}
Operators == UnaryOps \cup UNION {Levels[k] : k \in 1..Deepest}
TokenLeaks ==
    mode = "freed" =>
        IF result = "ok" THEN live = TokensOf({"TT_AMP_AMP", "TT_PIPE_PIPE"})
        ELSE /\ TokensOf(Tokens \ {"TT_EOF"}) \cap {Len(input)} \subseteq live
             /\ live \subseteq TokensOf(Operators) \cup {Len(input)}

(* What parser_parse allocates and takes over is given back exactly once,  *)
(* whatever the source: the three above, which fail together when a way    *)
(* out forgets its part of the cleaning or does another one's.             *)
MemoryAccounted == HeapAccounted /\ NoStrayFree /\ TokenLeaks

(* The parser never asks for a token after TT_EOF: the "Unexpected end of  *)
(* file" of advance_nonnull cannot happen, nor can look() see nothing.     *)
NeverStarved == Peeking => buffer # <<>> \/ ~LexerDone

(* The grammar, read off the tokens by counting parentheses: the state     *)
(* after a prefix is the place in the outline, whether an operand is due,  *)
(* and the open parentheses; "dead" when no program begins so.             *)
Dead == <<"dead">>
Reads(state, t) ==
    IF state = Dead THEN Dead
    ELSE LET place == state[1]  due == state[2]  depth == state[3] IN
    CASE place # 7 ->
             IF place <= Len(Outline) /\ t = Outline[place]
             THEN <<place + 1, TRUE, 0>> ELSE Dead
      [] place = 7 /\ due ->
             CASE t \in UnaryOps -> state
               [] t = "TT_LPAREN" -> <<7, TRUE, depth + 1>>
               [] t = "TT_NUM" -> <<7, FALSE, depth>>
               [] OTHER -> Dead
      [] OTHER ->
             CASE t = "TT_RPAREN" /\ depth > 0 -> <<7, FALSE, depth - 1>>
               [] t = "TT_SEMI" /\ depth = 0 -> <<9, TRUE, 0>>
               [] t \in Operators \ {"TT_TILDE", "TT_BANG"} -> <<7, TRUE, depth>>
               [] OTHER -> Dead
StateAfter(k) ==
    LET reads[n \in 0..k] == IF n = 0 THEN <<1, TRUE, 0>> ELSE Reads(reads[n - 1], input[n])
    IN  reads[k]

(* parser_parse accepts exactly the programs of the grammar, stops after   *)
(* the last token of one, and reports an error at the first token with     *)
(* which no program goes on.                                               *)
GrammarExact ==
    /\ result = "ok" => StateAfter(Len(input))[1] = Len(Outline) + 1
    /\ result = "err" => StateAfter(Len(input)) = Dead /\ StateAfter(Len(input) - 1) # Dead

(* How tightly C's binary operators bind, 1 being the tightest.            *)
Binding(t) ==
    CASE t \in {"TT_STAR", "TT_SLASH", "TT_PERCENT"} -> 1
      [] t \in {"TT_PLUS", "TT_MINUS"} -> 2
      [] t \in {"TT_LEFT_LEFT", "TT_RIGHT_RIGHT"} -> 3
      [] t \in {"TT_LEFT", "TT_LEFT_EQUAL", "TT_RIGHT", "TT_RIGHT_EQUAL"} -> 4
      [] t \in {"TT_EQUAL_EQUAL", "TT_BANG_EQUAL"} -> 5
      [] t = "TT_AMP" -> 6   [] t = "TT_CARET" -> 7   [] t = "TT_PIPE" -> 8
      [] t = "TT_AMP_AMP" -> 9   [] t = "TT_PIPE_PIPE" -> 10

Depth(i) ==
    Cardinality({j \in 1..i : input[j] = "TT_LPAREN"})
    - Cardinality({j \in 1..i : input[j] = "TT_RPAREN"})
IsNode(i) == i > 6 /\ input[i] \in Operators \cup {"TT_NUM"}
IsBinary(i) == IsNode(i) /\ input[i] # "TT_NUM" /\ input[i - 1] \in {"TT_NUM", "TT_RPAREN"}

(* Does token j, outside parentheses x is in or by binding less tightly,   *)
(* end the operand of x that reaches towards it?                           *)
Ends(j, x, bound) ==
    Depth(j) < Depth(x) \/ (Depth(j) = Depth(x) /\ IsBinary(j) /\ Binding(input[j]) >= bound)
LeftSpan(x) ==
    {i \in Places : i < x /\ IsNode(i)
                    /\ \A j \in i..(x - 1) : ~Ends(j, x, Binding(input[x]) + 1)}
RightSpan(x, bound) ==
    {i \in Places : i > x /\ IsNode(i) /\ \A j \in (x + 1)..i : ~Ends(j, x, bound)}

(* The tree of an accepted program is the one C's precedences and left     *)
(* associativity give: each operator's operands are the longest stretches  *)
(* of tokens around it that no weaker operator or parenthesis ends.        *)
PrecedenceRespected ==
    mode = "done" /\ result = "ok" =>
        /\ expression = {i \in Places : IsNode(i)}
        /\ \A x \in expression :
               CASE input[x] = "TT_NUM" -> heap[x] = [left |-> {}, right |-> {}]
                 [] IsBinary(x) -> heap[x] = [left |-> LeftSpan(x),
                                              right |-> RightSpan(x, Binding(input[x]))]
                 [] OTHER -> heap[x] = [left |-> {}, right |-> RightSpan(x, 1)]

(* tests/parser.c:50, "parse succeeded on invalid input!": what is         *)
(* accepted is a whole valid source, so the parser has seen its end.       *)
InvalidInputRejected == result = "ok" => LexerDone
=============================================================================
