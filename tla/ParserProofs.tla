---------------------------- MODULE ParserProofs ----------------------------
(* Who owns what in the parser: for every alphabet of tokens, every source *)
(* of any length and wherever it is wrong, no expression and no token is   *)
(* lost or freed twice, no token is asked for after the last, the programs *)
(* of the grammar are what is accepted, and the tree of one is what C's    *)
(* precedences make of its tokens.                                         *)
EXTENDS Parser, SequenceTheorems, FiniteSetTheorems, WellFoundedInduction, TLAPS

(* The functions that run, and the nodes.                                  *)
Calls == [fn : {"level", "unary", "paren"}, level : 0..Deepest,
          left : SUBSET Nat, op : Nat]
Nodes == [left : SUBSET Nat, right : SUBSET Nat]
Modes == {"expect", "unary", "negate", "operand", "loop", "close", "error", "done", "freed"}

Typed ==
    /\ input \in Seq(Tokens) /\ input # <<>>
    /\ buffer \in {<<>>, <<Len(input)>>}
    /\ live \subseteq Places
    /\ DOMAIN heap \subseteq Places /\ heap \in [DOMAIN heap -> Nodes]
    /\ \A n \in DOMAIN heap : heap[n].left \subseteq Places /\ heap[n].right \subseteq Places
    /\ stack \in Seq(Calls)
    /\ mode \in Modes
    /\ at \in 1..(Len(Outline) + 1) /\ id \in 0..Len(input)
    /\ result \in {"none", "ok", "err"} /\ stray = FALSE

(* Where the parser is, and what that says of what it holds.  Tokens are   *)
(* only asked for while there are some.                                    *)
Running == {"unary", "negate", "operand", "loop", "close", "error"}
Over    == mode \in {"done", "freed"}
Failed  == mode = "error" \/ result = "err"
Located ==
    /\ mode \in Running => at = 7
    /\ mode \notin Running => stack = <<>>
    /\ mode \in {"operand", "loop"} => stack # <<>> /\ Top.fn = "level"
    /\ mode = "loop" => Top.op = 0
    /\ mode = "negate" => stack # <<>> /\ Top.fn = "unary"
    /\ mode = "close" => stack # <<>> /\ Top.fn = "paren"
    /\ value # {} => mode \in {"operand", "negate", "close"} \/ (mode = "expect" /\ at = 7)
    /\ expression # {} => mode \notin Running /\ value = {} /\ at > 7
    /\ Over <=> result # "none"
    /\ result = "err" => expression = {}
    /\ Over \/ at > Len(Outline) \/ Failed => buffer = <<>>
    /\ buffer = <<>> /\ LexerDone => mode = "error" \/ Over \/ at > Len(Outline)

(* The functions that run: one that goes round its loop has no operator,   *)
(* one that waits for its right operand has one, of its level.             *)
FrameShaped(i) ==
    /\ stack[i].fn = "level" => stack[i].level \in 1..Deepest
    /\ stack[i].fn = "level" /\ stack[i].op # 0 => input[stack[i].op] \in Levels[stack[i].level]
    /\ stack[i].fn = "unary" => stack[i].op # 0 /\ input[stack[i].op] \in UnaryOps
    /\ stack[i].fn = "paren" => stack[i].op = 0
    /\ stack[i].fn # "level" => stack[i].left = {}
    /\ stack[i].left # {} /\ mode # "error" =>
           stack[i].op # 0 \/ (i = Len(stack) /\ mode = "loop")
FramesShaped == \A i \in 1..Len(stack) : FrameShaped(i)

(* Every node belongs to the tree of the statement, to the one just        *)
(* returned or to the left operand of one function.                        *)
TreeIn(nodes, t) ==
    t = {} \/ \E root \in t :
        /\ t = {root} \cup nodes[root].left \cup nodes[root].right
        /\ root \notin nodes[root].left \cup nodes[root].right
        /\ nodes[root].left \cap nodes[root].right = {}
Holding(nodes, frames, returned, whole) ==
    /\ returned \subseteq DOMAIN nodes /\ whole \subseteq DOMAIN nodes
    /\ \A i \in 1..Len(frames) : frames[i].left \subseteq DOMAIN nodes
    /\ \A n \in DOMAIN nodes :
           n \in returned \/ n \in whole \/ \E i \in 1..Len(frames) : n \in frames[i].left
    /\ \A i \in 1..Len(frames), n \in DOMAIN nodes : n \in frames[i].left => n \notin returned
    /\ \A i, j \in 1..Len(frames), n \in DOMAIN nodes :
           n \in frames[i].left /\ n \in frames[j].left => i = j
    /\ TreeIn(nodes, returned) /\ TreeIn(nodes, whole)
    /\ \A i \in 1..Len(frames) : TreeIn(nodes, frames[i].left)
NodesHeld == Holding(heap, stack, value, expression)

(* The token in the buffer, the operators of the functions that run, the   *)
(* identifier and the nodes are all different tokens.                      *)
OpsOf(frames) == {frames[i].op : i \in 1..Len(frames)} \ {0}
Apart(frames) ==
    \A i, j \in 1..Len(frames) : frames[i].op # 0 /\ frames[i].op = frames[j].op => i = j
Pending == OpsOf(stack)
TokensApart ==
    /\ buffer # <<>> => Len(input) \notin DOMAIN heap \cup Pending \cup {id}
    /\ Pending \subseteq Places \ {id} /\ Pending \cap DOMAIN heap = {}
    /\ Apart(stack)
    /\ id # 0 => id \in live /\ input[id] = "TT_IDENT"
    /\ id = 0 <=> Over \/ at <= 2

(* Who has a token that is allocated: while nothing failed, the buffer,    *)
(* the functions that run and parse_function, but for the leaked ones.     *)
Buffered == IF buffer = <<>> \/ LexerDone THEN {} ELSE {Len(input)}
Logical  == TokensOf({"TT_AMP_AMP", "TT_PIPE_PIPE"})
TokensHeld ==
    /\ \A k \in live : input[k] # "TT_EOF"
    /\ ~Failed => live = Logical \cup Pending \cup Identifier \cup Buffered
    /\ Failed => /\ id # Len(input)
                 /\ ~LexerDone => Len(input) \in live
                 /\ live \subseteq TokensOf(Operators) \cup Identifier \cup {Len(input)}

PInv == Typed /\ Located /\ FramesShaped /\ NodesHeld /\ TokensApart /\ TokensHeld
----------------------------------------------------------------------------
(* The tokens. *)

(* The two logical levels are the first; no operator ends the source.      *)
LEMMA LevelsApart ==
  ASSUME NEW k \in 1..Deepest
  PROVE  /\ k > 2 => Levels[k] \cap {"TT_AMP_AMP", "TT_PIPE_PIPE"} = {}
         /\ k <= 2 => Levels[k] \subseteq {"TT_AMP_AMP", "TT_PIPE_PIPE"}
         /\ "TT_EOF" \notin Levels[k]
         /\ Levels[k] \subseteq Operators
<1>1. Levels[k] \subseteq Operators
  BY DEF Operators
<1> DEFINE P(n) == /\ n > 2 => Levels[n] \cap {"TT_AMP_AMP", "TT_PIPE_PIPE"} = {}
                   /\ n <= 2 => Levels[n] \subseteq {"TT_AMP_AMP", "TT_PIPE_PIPE"}
                   /\ "TT_EOF" \notin Levels[n]
<1>2. P(1) /\ P(2)
  BY DEF Levels
<1>3. P(3) /\ P(4) /\ P(5) /\ P(6)
  BY DEF Levels
<1>4. P(7) /\ P(8) /\ P(9) /\ P(10)
  BY DEF Levels
<1>5. k \in {1, 2, 3, 4, 5, 6, 7, 8, 9, 10}
  BY DEF Deepest
<1> QED BY <1>1, <1>2, <1>3, <1>4, <1>5

LEMMA OutlineTokens ==
  /\ Len(Outline) = 9
  /\ \A k \in 1..9 : Outline[k] \notin {"TT_EOF", "TT_AMP_AMP", "TT_PIPE_PIPE"}
<1>1. Len(Outline) = 9
  BY DEF Outline
<1> DEFINE P(k) == Outline[k] \notin {"TT_EOF", "TT_AMP_AMP", "TT_PIPE_PIPE"}
<1>2. P(1) /\ P(2) /\ P(3) /\ P(4) /\ P(5) /\ P(6) /\ P(7) /\ P(8) /\ P(9)
  BY DEF Outline
<1>3. \A k \in 1..9 : k \in {1, 2, 3, 4, 5, 6, 7, 8, 9}
  OBVIOUS
<1> QED BY <1>1, <1>2, <1>3

LEMMA UnaryTokens ==
  /\ UnaryOps \cap {"TT_EOF", "TT_AMP_AMP", "TT_PIPE_PIPE"} = {}
  /\ UnaryOps \subseteq Operators
BY DEF UnaryOps, Operators
----------------------------------------------------------------------------
(* The stack. *)

LEMMA Popped ==
  ASSUME NEW S \in Seq(Calls), S # <<>>, NEW T, T = SubSeq(S, 1, Len(S) - 1)
  PROVE  /\ T \in Seq(Calls)
         /\ Len(T) = Len(S) - 1 /\ Len(S) \in Nat \ {0}
         /\ \A i \in 1..(Len(S) - 1) : T[i] = S[i]
         /\ S[Len(S)] \in Calls
<1>1. Len(S) \in Nat \ {0} /\ \A i \in 1..Len(S) : S[i] \in Calls
  BY EmptySeq, LenProperties, ElementOfSeq
<1> DEFINE n == Len(S) - 1
<1>2. n \in Nat /\ \A i \in 1..n : i \in 1..Len(S)
  BY <1>1
<1>3. \A i \in 1..n : S[i] \in Calls
  BY <1>1, <1>2
<1> HIDE DEF n
<1>4. /\ SubSeq(S, 1, n) \in Seq(Calls)
      /\ Len(SubSeq(S, 1, n)) = n
      /\ \A i \in 1..n : SubSeq(S, 1, n)[i] = S[i]
  BY <1>2, <1>3, SubSeqProperties
<1> QED BY <1>1, <1>4 DEF n

LEMMA Updated ==
  ASSUME stack \in Seq(Calls), stack # <<>>, NEW left \in SUBSET Nat, NEW op \in Nat
  PROVE  /\ Update(left, op) \in Seq(Calls)
         /\ Len(Update(left, op)) = Len(stack) /\ Len(stack) \in Nat \ {0}
         /\ \A i \in 1..(Len(stack) - 1) : Update(left, op)[i] = stack[i]
         /\ Update(left, op)[Len(stack)].fn = Top.fn
         /\ Update(left, op)[Len(stack)].level = Top.level
         /\ Update(left, op)[Len(stack)].left = left
         /\ Update(left, op)[Len(stack)].op = op
<1> DEFINE top == [Top EXCEPT !.left = left, !.op = op]
<1>1. Len(stack) \in Nat \ {0} /\ \A i \in 1..Len(stack) : stack[i] \in Calls
  BY EmptySeq, LenProperties, ElementOfSeq
<1>2. /\ top \in Calls
      /\ top.fn = Top.fn /\ top.level = Top.level /\ top.left = left /\ top.op = op
  <2>1. Top \in Calls
    BY <1>1 DEF Top
  <2> QED BY <2>1 DEF Calls
<1>3. Update(left, op) = [stack EXCEPT ![Len(stack)] = top]
  BY <1>1 DEF Update, Top
<1> HIDE DEF top
<1>4. /\ [stack EXCEPT ![Len(stack)] = top] \in Seq(Calls)
      /\ Len([stack EXCEPT ![Len(stack)] = top]) = Len(stack)
      /\ \A i \in 1..(Len(stack) - 1) : [stack EXCEPT ![Len(stack)] = top][i] = stack[i]
      /\ [stack EXCEPT ![Len(stack)] = top][Len(stack)] = top
  BY <1>1, <1>2
<1> QED BY <1>1, <1>2, <1>3, <1>4

(* A function that starts has no operand yet.                              *)
Fresh(call) == call.fn = "level" /\ call.level \in 1..Deepest /\ call.left = {} /\ call.op = 0

LEMMA Started ==
  ASSUME NEW level \in 1..(Deepest + 1)
  PROVE  /\ CallFrom(level) \in Seq(Calls) /\ Len(CallFrom(level)) \in Nat
         /\ \A i \in 1..Len(CallFrom(level)) : Fresh(CallFrom(level)[i])
<1>1. \A i \in 1..(Deepest + 1 - level) : /\ Frame("level", level + i - 1, {}, 0) \in Calls
                                          /\ Fresh(Frame("level", level + i - 1, {}, 0))
  BY DEF Frame, Calls, Deepest, Fresh
<1>2. Deepest + 1 - level \in Nat
  BY DEF Deepest
<1> QED BY <1>1, <1>2 DEF CallFrom

LEMMA Pushed ==
  ASSUME NEW S \in Seq(Calls), NEW level \in 1..(Deepest + 1),
         NEW T, T = S \o CallFrom(level)
  PROVE  /\ T \in Seq(Calls) /\ Len(S) \in Nat /\ Len(T) \in Nat /\ Len(T) >= Len(S)
         /\ \A i \in 1..Len(S) : T[i] = S[i]
         /\ \A i \in 1..Len(T) : i > Len(S) => Fresh(T[i])
<1> DEFINE C == CallFrom(level)
<1>1. C \in Seq(Calls) /\ \A i \in 1..Len(C) : Fresh(C[i])
  BY Started
<1> HIDE DEF C
<1>2. S \o C \in Seq(Calls) /\ Len(S \o C) = Len(S) + Len(C)
      /\ \A i \in 1..(Len(S) + Len(C)) : (S \o C)[i] = IF i <= Len(S) THEN S[i] ELSE C[i - Len(S)]
  BY <1>1, ConcatProperties
<1>3. Len(S) \in Nat /\ Len(C) \in Nat
  BY <1>1, LenProperties
<1>4. \A i \in 1..(Len(S) + Len(C)) : i > Len(S) => i - Len(S) \in 1..Len(C)
  BY <1>3
<1>5. T = S \o C
  BY DEF C
<1> QED BY <1>1, <1>2, <1>3, <1>4, <1>5

(* Who goes on after a function that returns.                              *)
LEMMA Resumed ==
  ASSUME NEW S \in Seq(Calls)
  PROVE  /\ Resume(S) \in {"expect", "operand", "negate", "close"}
         /\ Resume(S) = "expect" <=> S = <<>>
         /\ Resume(S) = "operand" => S[Len(S)].fn = "level"
         /\ Resume(S) = "negate" => S[Len(S)].fn = "unary"
         /\ Resume(S) = "close" => S[Len(S)].fn = "paren"
<1>1. CASE S = <<>>
  BY <1>1 DEF Resume
<1>2. CASE S # <<>>
  <2>1. S[Len(S)].fn \in {"level", "unary", "paren"}
    BY <1>2, Popped DEF Calls
  <2> QED BY <1>2, <2>1 DEF Resume
<1> QED BY <1>1, <1>2

(* The operators of the functions that run, as they come and go.           *)
LEMMA OperatorDone ==
  ASSUME NEW S, NEW T, Len(S) \in Nat \ {0}, Len(T) \in {Len(S) - 1, Len(S)},
         \A i \in 1..(Len(S) - 1) : T[i] = S[i],
         Len(T) = Len(S) => T[Len(S)].op = 0,
         Apart(S)
  PROVE  Apart(T) /\ OpsOf(T) = OpsOf(S) \ {S[Len(S)].op}
<1>1. \A i \in 1..Len(S) : i = Len(S) \/ i \in 1..(Len(S) - 1)
  OBVIOUS
<1>2. \A i \in 1..(Len(S) - 1) : i \in 1..Len(S) /\ i # Len(S) /\ i \in 1..Len(T)
  OBVIOUS
<1>3. \A i \in 1..Len(T) : i \in 1..Len(S)
  OBVIOUS
<1>4. \A i \in 1..Len(T) : T[i].op # 0 => i \in 1..(Len(S) - 1) /\ T[i] = S[i]
  BY <1>1, <1>3
<1>5. Apart(T)
  BY <1>3, <1>4 DEF Apart
<1>6. ASSUME NEW k PROVE k \in OpsOf(T) <=> k \in OpsOf(S) \ {S[Len(S)].op}
  <2>1. ASSUME k \in OpsOf(T) PROVE k \in OpsOf(S) \ {S[Len(S)].op}
    <3>1. PICK i \in 1..Len(T) : T[i].op = k /\ k # 0
      BY <2>1 DEF OpsOf
    <3>2. i \in 1..Len(S) /\ i # Len(S) /\ S[i].op = k
      BY <3>1, <1>2, <1>4
    <3>3. Len(S) \in 1..Len(S)
      OBVIOUS
    <3> QED BY <3>1, <3>2, <3>3 DEF OpsOf, Apart
  <2>2. ASSUME k \in OpsOf(S) \ {S[Len(S)].op} PROVE k \in OpsOf(T)
    BY <2>2, <1>1, <1>2 DEF OpsOf
  <2> QED BY <2>1, <2>2
<1> QED BY <1>5, <1>6

LEMMA OperatorMet ==
  ASSUME NEW S, NEW T, NEW n \in Nat \ {0}, Len(S) \in Nat \ {0}, Len(T) = Len(S),
         \A i \in 1..(Len(S) - 1) : T[i] = S[i],
         S[Len(S)].op = 0, T[Len(S)].op = n,
         Apart(S), n \notin OpsOf(S)
  PROVE  Apart(T) /\ OpsOf(T) = OpsOf(S) \cup {n}
<1>1. \A i \in 1..Len(S) : i = Len(S) \/ (i \in 1..(Len(S) - 1) /\ T[i] = S[i])
  OBVIOUS
<1>2. \A i \in 1..Len(S) : S[i].op # n
  BY DEF OpsOf
<1>3. Apart(T)
  BY <1>1, <1>2 DEF Apart
<1>4. ASSUME NEW k \in OpsOf(T) PROVE k \in OpsOf(S) \cup {n}
  <2>1. PICK i \in 1..Len(S) : k = T[i].op /\ k # 0
    BY DEF OpsOf
  <2> QED BY <1>1, <2>1 DEF OpsOf
<1>5. ASSUME NEW k \in OpsOf(S) PROVE k \in OpsOf(T)
  <2>1. PICK i \in 1..Len(S) : k = S[i].op /\ k # 0
    BY DEF OpsOf
  <2>2. i \in 1..Len(T) /\ k = T[i].op
    BY <1>1, <2>1
  <2> QED BY <2>1, <2>2 DEF OpsOf
<1>6. n \in OpsOf(T)
  BY DEF OpsOf
<1> QED BY <1>3, <1>4, <1>5, <1>6

LEMMA OperatorsKept ==
  ASSUME NEW S, NEW T, Len(S) \in Nat, Len(T) \in Nat, Len(T) >= Len(S),
         \A i \in 1..Len(S) : T[i] = S[i],
         \A i \in 1..Len(T) : i > Len(S) => T[i].op = 0,
         Apart(S)
  PROVE  Apart(T) /\ OpsOf(T) = OpsOf(S)
<1>1. \A i \in 1..Len(T) : T[i].op # 0 => i \in 1..Len(S) /\ T[i] = S[i]
  OBVIOUS
<1>2. \A i \in 1..Len(S) : i \in 1..Len(T)
  OBVIOUS
<1>3. Apart(T)
  BY <1>1, <1>2 DEF Apart
<1>4. ASSUME NEW k PROVE k \in OpsOf(T) <=> k \in OpsOf(S)
  BY <1>1, <1>2 DEF OpsOf
<1> QED BY <1>3, <1>4
----------------------------------------------------------------------------
(* The trees. *)

(* The nodes with a new one, and without some.                             *)
Grown(nodes, n, left, right) ==
    [k \in DOMAIN nodes \cup {n} |->
        IF k = n THEN [left |-> left, right |-> right] ELSE nodes[k]]

LEMMA TreeKept ==
  ASSUME NEW f, NEW g, NEW t, TreeIn(f, t), \A k \in t : g[k] = f[k]
  PROVE  TreeIn(g, t)
BY DEF TreeIn

LEMMA TreeMade ==
  ASSUME NEW f, NEW n, NEW left, NEW right, n \notin DOMAIN f,
         left \subseteq DOMAIN f, right \subseteq DOMAIN f, left \cap right = {}
  PROVE  TreeIn(Grown(f, n, left, right), {n} \cup left \cup right)
<1>1. Grown(f, n, left, right)[n] = [left |-> left, right |-> right]
  BY DEF Grown
<1>2. n \notin left \cup right
  OBVIOUS
<1> QED BY <1>1, <1>2 DEF TreeIn

LEMMA GrownKeeps ==
  ASSUME NEW f, NEW n, NEW left, NEW right, NEW t, n \notin DOMAIN f,
         t \subseteq DOMAIN f, TreeIn(f, t)
  PROVE  TreeIn(Grown(f, n, left, right), t)
<1>1. \A k \in t : Grown(f, n, left, right)[k] = f[k]
  BY DEF Grown
<1> QED BY <1>1, TreeKept

(* The innermost function makes one tree of its operands.                  *)
LEMMA OperandsJoined ==
  ASSUME NEW f, NEW S, NEW T, NEW n, NEW right,
         Len(S) \in Nat \ {0}, Len(T) = Len(S), Holding(f, S, right, {}), n \notin DOMAIN f,
         \A i \in 1..(Len(S) - 1) : T[i] = S[i],
         T[Len(S)].left = {n} \cup S[Len(S)].left \cup right
  PROVE  Holding(Grown(f, n, S[Len(S)].left, right), T, {}, {})
<1> DEFINE left == S[Len(S)].left
           g    == Grown(f, n, left, right)
           tree == {n} \cup left \cup right
<1>1. DOMAIN g = DOMAIN f \cup {n}
  BY DEF Grown
<1>2. left \subseteq DOMAIN f /\ right \subseteq DOMAIN f /\ left \cap right = {}
  BY DEF Holding
<1>3. TreeIn(g, tree)
  BY <1>2, TreeMade
<1>4. \A i \in 1..Len(S) : i = Len(S) \/ (i \in 1..(Len(S) - 1) /\ i # Len(S))
  OBVIOUS
<1>5. \A i \in 1..Len(S) : i # Len(S) =>
          /\ T[i].left = S[i].left /\ S[i].left \subseteq DOMAIN f
          /\ \A k \in S[i].left : k \notin tree
          /\ TreeIn(g, S[i].left)
  BY <1>4, GrownKeeps DEF Holding
<1> HIDE DEF g, tree, left
<1>6. T[Len(S)].left = tree
  BY DEF tree, left
<1>7. \A k \in DOMAIN g : \E i \in 1..Len(T) : k \in T[i].left
  BY <1>1, <1>4, <1>5, <1>6 DEF Holding, tree, left
<1>8. \A i, j \in 1..Len(T), k \in DOMAIN g : k \in T[i].left /\ k \in T[j].left => i = j
  BY <1>1, <1>4, <1>5, <1>6 DEF Holding
<1>9. \A i \in 1..Len(T) : T[i].left \subseteq DOMAIN g /\ TreeIn(g, T[i].left)
  BY <1>1, <1>2, <1>3, <1>4, <1>5, <1>6 DEF tree
<1>10. TreeIn(g, {})
  BY DEF TreeIn
<1>11. Holding(g, T, {}, {})
  BY <1>7, <1>8, <1>9, <1>10 DEF Holding
<1> QED BY <1>11 DEF g, left

(* Functions that have started hold nothing yet.                           *)
LEMMA StartedHoldNothing ==
  ASSUME NEW f, NEW S, NEW T, NEW v, NEW e, Holding(f, S, v, e),
         Len(S) \in Nat, Len(T) \in Nat, Len(T) >= Len(S),
         \A i \in 1..Len(S) : T[i].left = S[i].left,
         \A i \in 1..Len(T) : i > Len(S) => T[i].left = {}
  PROVE  Holding(f, T, v, e)
<1>1. \A i \in 1..Len(T) : i \in 1..Len(S) \/ T[i].left = {}
  OBVIOUS
<1>2. \A i \in 1..Len(S) : i \in 1..Len(T)
  OBVIOUS
<1>3. TreeIn(f, {})
  BY DEF TreeIn
<1>4. \A k \in DOMAIN f : k \in v \/ k \in e \/ \E i \in 1..Len(T) : k \in T[i].left
  BY <1>2 DEF Holding
<1>5. \A i, j \in 1..Len(T), k \in DOMAIN f : k \in T[i].left /\ k \in T[j].left => i = j
  BY <1>1 DEF Holding
<1>6. \A i \in 1..Len(T) : TreeIn(f, T[i].left) /\ T[i].left \subseteq DOMAIN f
  BY <1>1, <1>3 DEF Holding
<1>7. \A i \in 1..Len(T), k \in DOMAIN f : k \in T[i].left => k \notin v
  BY <1>1 DEF Holding
<1> QED BY <1>4, <1>5, <1>6, <1>7 DEF Holding

(* The innermost function returns its operand, if it has one.              *)
LEMMA OperandReturned ==
  ASSUME NEW f, NEW S, NEW T, NEW v, NEW e, Holding(f, S, v, e),
         Len(S) \in Nat \ {0}, Len(T) = Len(S) - 1,
         \A i \in 1..(Len(S) - 1) : T[i] = S[i],
         v = {} \/ S[Len(S)].left = {}
  PROVE  Holding(f, T, S[Len(S)].left \cup v, e)
<1>1. \A i \in 1..Len(S) : i = Len(S) \/ (i \in 1..Len(T) /\ T[i] = S[i] /\ i # Len(S))
  OBVIOUS
<1>2. \A i \in 1..Len(T) : i \in 1..Len(S) /\ T[i] = S[i] /\ i # Len(S)
  OBVIOUS
<1> DEFINE w == S[Len(S)].left \cup v
<1>3. w = v \/ w = S[Len(S)].left
  OBVIOUS
<1>4. TreeIn(f, w) /\ w \subseteq DOMAIN f
  <2>1. Len(S) \in 1..Len(S)
    OBVIOUS
  <2>2. TreeIn(f, v) /\ TreeIn(f, S[Len(S)].left)
    BY <2>1 DEF Holding
  <2>3. v \subseteq DOMAIN f /\ S[Len(S)].left \subseteq DOMAIN f
    BY <2>1 DEF Holding
  <2> QED BY <1>3, <2>2, <2>3
<1>5. \A k \in DOMAIN f : k \in w \/ k \in e \/ \E i \in 1..Len(T) : k \in T[i].left
  BY <1>1 DEF Holding
<1>6. \A i, j \in 1..Len(T), k \in DOMAIN f : k \in T[i].left /\ k \in T[j].left => i = j
  BY <1>2 DEF Holding
<1>7. \A i \in 1..Len(T) : TreeIn(f, T[i].left) /\ T[i].left \subseteq DOMAIN f
  BY <1>2 DEF Holding
<1>8. \A i \in 1..Len(T), k \in DOMAIN f : k \in T[i].left => k \notin w
  <2> SUFFICES ASSUME NEW i \in 1..Len(T), NEW k \in DOMAIN f, k \in T[i].left
               PROVE  k \notin v /\ k \notin S[Len(S)].left
    OBVIOUS
  <2>1. /\ i \in 1..Len(S) /\ k \in S[i].left
        /\ Len(S) \in 1..Len(S) /\ i # Len(S)
    BY <1>2
  <2> QED BY <2>1 DEF Holding
<1> HIDE DEF w
<1>9. Holding(f, T, w, e)
  BY <1>4, <1>5, <1>6, <1>7, <1>8 DEF Holding
<1> QED BY <1>9 DEF w

(* The innermost function takes what was returned.                         *)
LEMMA OperandTaken ==
  ASSUME NEW f, NEW S, NEW T, NEW v, NEW e, Holding(f, S, v, e),
         Len(S) \in Nat \ {0}, Len(T) = Len(S),
         \A i \in 1..(Len(S) - 1) : T[i] = S[i],
         S[Len(S)].left = {}, T[Len(S)].left = v
  PROVE  Holding(f, T, {}, e)
<1>1. \A i \in 1..Len(S) : i = Len(S) \/ (T[i] = S[i] /\ i # Len(S))
  OBVIOUS
<1>2. Len(S) \in 1..Len(T)
  OBVIOUS
<1>3. TreeIn(f, {})
  BY DEF TreeIn
<1>4. \A k \in DOMAIN f : k \in e \/ \E i \in 1..Len(T) : k \in T[i].left
  BY <1>1, <1>2 DEF Holding
<1>5. \A i, j \in 1..Len(T), k \in DOMAIN f : k \in T[i].left /\ k \in T[j].left => i = j
  BY <1>1 DEF Holding
<1>6. \A i \in 1..Len(T) : TreeIn(f, T[i].left) /\ T[i].left \subseteq DOMAIN f
  BY <1>1 DEF Holding
<1> QED BY <1>3, <1>4, <1>5, <1>6 DEF Holding

(* A node on top of what was returned.                                     *)
LEMMA ReturnedGrows ==
  ASSUME NEW f, NEW S, NEW v, NEW e, NEW n, Holding(f, S, v, e), n \notin DOMAIN f
  PROVE  Holding(Grown(f, n, {}, v), S, {n} \cup v, e)
<1> DEFINE g == Grown(f, n, {}, v)
           w == {n} \cup v
<1>1. DOMAIN g = DOMAIN f \cup {n}
  BY DEF Grown
<1>2. TreeIn(g, {n} \cup {} \cup v)
  BY TreeMade DEF Holding
<1>3. w = {n} \cup {} \cup v
  OBVIOUS
<1>4. TreeIn(g, w) /\ TreeIn(g, e) /\ \A i \in 1..Len(S) : TreeIn(g, S[i].left)
  BY <1>2, <1>3, GrownKeeps DEF Holding
<1> HIDE DEF g
<1>5. \A k \in DOMAIN g : k \in w \/ k \in e \/ \E i \in 1..Len(S) : k \in S[i].left
  BY <1>1 DEF Holding
<1>6. \A i \in 1..Len(S), k \in DOMAIN g : k \in S[i].left => k \notin w /\ k \in DOMAIN f
  BY <1>1 DEF Holding
<1>7. w \subseteq DOMAIN g /\ e \subseteq DOMAIN g /\ \A i \in 1..Len(S) : S[i].left \subseteq DOMAIN g
  BY <1>1 DEF Holding
<1>8. \A i, j \in 1..Len(S), k \in DOMAIN g : k \in S[i].left /\ k \in S[j].left => i = j
  BY <1>6 DEF Holding
<1> HIDE DEF w
<1>9. Holding(g, S, w, e)
  BY <1>4, <1>5, <1>6, <1>7, <1>8 DEF Holding
<1> QED BY <1>9 DEF g, w

(* A tree that is freed touches no other.                                  *)
Pruned(nodes, tree) == [k \in DOMAIN nodes \ tree |-> nodes[k]]

LEMMA PrunedKeeps ==
  ASSUME NEW f, NEW t, NEW u, TreeIn(f, u), u \subseteq DOMAIN f, u \cap t = {}
  PROVE  TreeIn(Pruned(f, t), u)
<1>1. \A k \in u : Pruned(f, t)[k] = f[k]
  BY DEF Pruned
<1> QED BY <1>1, TreeKept

LEMMA ReturnedFreed ==
  ASSUME NEW f, NEW S, NEW T, NEW v, Holding(f, S, v, {}),
         Len(T) \in Nat, \A i \in 1..Len(T) : i \in 1..Len(S) /\ T[i] = S[i],
         \A i \in 1..Len(S) : i \in 1..Len(T) \/ S[i].left = {}
  PROVE  Holding(Pruned(f, v), T, {}, {})
<1> DEFINE g == Pruned(f, v)
<1>1. DOMAIN g = DOMAIN f \ v
  BY DEF Pruned
<1>2. TreeIn(g, {})
  BY DEF TreeIn
<1>3. \A i \in 1..Len(T) : S[i].left \cap v = {} /\ S[i].left \subseteq DOMAIN f
  BY DEF Holding
<1>4. \A i \in 1..Len(T) : TreeIn(g, S[i].left)
  BY <1>3, PrunedKeeps DEF Holding
<1> HIDE DEF g
<1>5. \A i \in 1..Len(T) : TreeIn(g, T[i].left) /\ T[i].left \subseteq DOMAIN g
  BY <1>1, <1>3, <1>4
<1>6. \A k \in DOMAIN g : \E i \in 1..Len(T) : k \in T[i].left
  BY <1>1 DEF Holding
<1>7. \A i, j \in 1..Len(T), k \in DOMAIN g : k \in T[i].left /\ k \in T[j].left => i = j
  BY <1>1 DEF Holding
<1>8. Holding(g, T, {}, {})
  BY <1>2, <1>5, <1>6, <1>7 DEF Holding
<1> QED BY <1>8 DEF g

LEMMA OperandFreed ==
  ASSUME NEW f, NEW S, NEW T, Holding(f, S, {}, {}),
         Len(S) \in Nat \ {0}, Len(T) = Len(S) - 1,
         \A i \in 1..(Len(S) - 1) : T[i] = S[i]
  PROVE  Holding(Pruned(f, S[Len(S)].left), T, {}, {})
<1>1. Holding(f, T, S[Len(S)].left \cup {}, {})
  BY OperandReturned
<1>2. S[Len(S)].left \cup {} = S[Len(S)].left
  OBVIOUS
<1>3. Holding(f, T, S[Len(S)].left, {})
  BY <1>1, <1>2
<1> QED BY <1>3, ReturnedFreed

(* The statement's tree, when nothing else is held.                        *)
LEMMA WholeHeld ==
  ASSUME NEW f, NEW v, NEW e, Holding(f, <<>>, v, e)
  PROVE  /\ v = {} => DOMAIN f = e
         /\ e = {} => Holding(f, <<>>, {}, v)
<1>1. Len(<<>>) = 0 /\ 1..0 = {}
  OBVIOUS
<1>2. TreeIn(f, {})
  BY DEF TreeIn
<1> QED BY <1>1, <1>2 DEF Holding

LEMMA NothingHeld ==
  ASSUME NEW f, DOMAIN f = {}
  PROVE  Holding(f, <<>>, {}, {})
<1>1. Len(<<>>) = 0 /\ 1..0 = {}
  OBVIOUS
<1>2. TreeIn(f, {})
  BY DEF TreeIn
<1> QED BY <1>1, <1>2 DEF Holding

(* The functions that go on running are what they were when one returns.   *)
LEMMA ReturnedShaped ==
  ASSUME PInv, Len(stack) \in Nat \ {0}, Len(stack') = Len(stack) - 1,
         \A i \in 1..(Len(stack) - 1) : stack'[i] = stack[i],
         input' = input, mode = "error" => mode' = "error"
  PROVE  FramesShaped'
<1> SUFFICES ASSUME NEW i \in 1..Len(stack') PROVE FrameShaped(i)'
  BY DEF FramesShaped
<1>1. i \in 1..(Len(stack) - 1) /\ i \in 1..Len(stack) /\ i # Len(stack)
  OBVIOUS
<1>2. stack'[i] = stack[i] /\ FrameShaped(i)
  BY <1>1 DEF PInv, FramesShaped
<1>3. stack[i].left # {} /\ mode # "error" => stack[i].op # 0
  BY <1>1, <1>2 DEF FrameShaped
<1> QED BY <1>2, <1>3 DEF FrameShaped
(* What the invariant says of the innermost function.                      *)
LEMMA TopHeld ==
  ASSUME PInv, stack # <<>>
  PROVE  /\ Len(stack) \in Nat \ {0} /\ Top \in Calls /\ Top = stack[Len(stack)]
         /\ Top.op \in Nat
         /\ Top.op # 0 => Top.op \in Pending
         /\ Top.left \subseteq DOMAIN heap /\ value \subseteq DOMAIN heap
         /\ Top.op # 0 => Top.op \in Places \ {id} /\ Top.op \notin DOMAIN heap
         /\ Top.fn = "level" => Top.level \in 1..Deepest
         /\ Top.fn = "level" /\ Top.op # 0 => input[Top.op] \in Levels[Top.level]
         /\ Top.fn = "unary" => Top.op # 0 /\ input[Top.op] \in UnaryOps
         /\ Top.fn # "level" => Top.left = {}
<1>1. Len(stack) \in Nat \ {0} /\ Top \in Calls /\ Top = stack[Len(stack)]
  <2>1. stack \in Seq(Calls)
    BY DEF PInv, Typed
  <2> QED BY <2>1, Popped DEF Top
<1>2. Len(stack) \in 1..Len(stack)
  BY <1>1
<1>3. Top.op \in Nat /\ (Top.op # 0 => Top.op \in Pending)
  BY <1>1, <1>2 DEF Pending, OpsOf, Calls
<1>4. Top.left \subseteq DOMAIN heap /\ value \subseteq DOMAIN heap
  BY <1>1, <1>2 DEF PInv, NodesHeld, Holding
<1>5. Top.op # 0 => Top.op \in Places \ {id} /\ Top.op \notin DOMAIN heap
  BY <1>3 DEF PInv, TokensApart
<1>6. /\ Top.fn = "level" => Top.level \in 1..Deepest
      /\ Top.fn = "level" /\ Top.op # 0 => input[Top.op] \in Levels[Top.level]
      /\ Top.fn = "unary" => Top.op # 0 /\ input[Top.op] \in UnaryOps
      /\ Top.fn # "level" => Top.left = {}
  BY <1>1, <1>2 DEF PInv, FramesShaped, FrameShaped
<1> QED BY <1>1, <1>3, <1>4, <1>5, <1>6
----------------------------------------------------------------------------
(* The functions of the binary operators. *)

LEMMA RightOperandKeeps ==
  ASSUME PInv, RightOperand
  PROVE  PInv'
<1> DEFINE n == Top.op
           tree == {n} \cup Top.left \cup value
<1>1. /\ stack # <<>> /\ Top.fn = "level" /\ n # 0
      /\ mode = "operand" /\ mode' = "loop" /\ value' = {}
      /\ UNCHANGED <<input, buffer, callVars>>
      /\ expression = {} /\ at = 7 /\ ~Failed
  BY DEF PInv, Located, RightOperand, Running, Failed, Over
<1>2. /\ stack' \in Seq(Calls) /\ Len(stack') = Len(stack)
      /\ \A i \in 1..(Len(stack) - 1) : stack'[i] = stack[i]
      /\ stack'[Len(stack)].fn = "level" /\ stack'[Len(stack)].level = Top.level
      /\ stack'[Len(stack)].left = tree /\ stack'[Len(stack)].op = 0
  <2>1. Top.op \in Nat /\ Top.left \subseteq DOMAIN heap
    BY <1>1, TopHeld
  <2>2. DOMAIN heap \subseteq Nat /\ value \subseteq DOMAIN heap /\ stack \in Seq(Calls)
    BY DEF PInv, Typed, Places, NodesHeld, Holding
  <2>3. tree \in SUBSET Nat /\ stack \in Seq(Calls) /\ 0 \in Nat
    BY <2>1, <2>2
  <2>4. stack' = Update(tree, 0)
    BY DEF RightOperand
  <2> HIDE DEF tree
  <2> QED BY <1>1, <2>3, <2>4, Updated
<1> HIDE DEF n
<1>4. /\ DOMAIN heap' = DOMAIN heap \cup {n}
      /\ heap'[n] = [left |-> Top.left, right |-> value]
      /\ \A k \in DOMAIN heap : heap'[k] = heap[k]
      /\ heap' = [k \in DOMAIN heap \cup {n} |->
                IF k = n THEN [left |-> Top.left, right |-> value] ELSE heap[k]]
  BY <1>1, TopHeld DEF RightOperand, Alloc, n
<1>5. /\ Len(stack) \in Nat \ {0} /\ n \in Nat \ {0} /\ n \in Places /\ n \in Pending
      /\ Top.left \subseteq DOMAIN heap /\ value \subseteq DOMAIN heap
      /\ n \notin DOMAIN heap /\ n # id
      /\ Top.level \in 1..Deepest /\ input[n] \in Levels[Top.level]
      /\ Top = stack[Len(stack)]
  BY <1>1, TopHeld DEF n
<1>6. n \in live
  BY <1>1, <1>5 DEF PInv, TokensHeld
<1>7. live' = IF Top.level > 2 THEN live \ {n} ELSE live
  BY DEF RightOperand, Free, FreesOperator, n
<1>8. stray' = FALSE
  BY <1>6 DEF RightOperand, Free, PInv, Typed, n
<1>9. Apart(stack') /\ Pending' = Pending \ {n}
  BY <1>2, <1>5, OperatorDone DEF PInv, TokensApart, Pending, n
<1>10. Typed'
  <2>1. DOMAIN heap' \subseteq Places' /\ heap' \in [DOMAIN heap' -> Nodes]
    BY <1>1, <1>4, <1>5 DEF PInv, Typed, Places, Nodes
  <2>2. \A k \in DOMAIN heap' : heap'[k].left \subseteq Places' /\ heap'[k].right \subseteq Places'
    BY <1>1, <1>4, <1>5 DEF PInv, Typed, Places, Nodes
  <2> QED BY <1>1, <1>2, <1>7, <1>8, <2>1, <2>2 DEF PInv, Typed, Modes, Places, callVars
<1>11. Located'
  BY <1>1, <1>2, <1>5 DEF PInv, Located, Running, Over, Failed, Top, callVars, LexerDone
<1>12. FramesShaped'
  BY <1>1, <1>2, <1>5 DEF PInv, FramesShaped, FrameShaped
<1>13. NodesHeld'
  <2>1. heap' = Grown(heap, n, stack[Len(stack)].left, value)
    BY <1>4, <1>5 DEF Grown
  <2>2. Holding(Grown(heap, n, stack[Len(stack)].left, value), stack', {}, {})
    BY <1>1, <1>2, <1>5, OperandsJoined DEF PInv, NodesHeld
  <2> QED BY <1>1, <2>1, <2>2 DEF NodesHeld, callVars
<1>14. TokensApart'
  BY <1>1, <1>4, <1>5, <1>7, <1>9 DEF PInv, TokensApart, callVars, Places, Over
<1>15. TokensHeld'
  <2>1. n \in Logical <=> Top.level <= 2
    BY <1>5, LevelsApart DEF Logical, TokensOf, Places
  <2>2. n \notin Identifier /\ n \notin Buffered
    BY <1>1, <1>5 DEF PInv, TokensApart, Identifier, Buffered
  <2>3. Buffered' = Buffered /\ Identifier' = Identifier /\ Logical' = Logical /\ ~Failed'
    BY <1>1 DEF Buffered, Identifier, Logical, TokensOf, Places, LexerDone, callVars, Failed
  <2>4. Top.level \in Nat
    BY <1>5 DEF Deepest
  <2> QED BY <1>1, <1>5, <1>7, <1>9, <2>1, <2>2, <2>3, <2>4 DEF PInv, TokensHeld
<1> QED BY <1>10, <1>11, <1>12, <1>13, <1>14, <1>15 DEF PInv

LEMMA FirstOperandKeeps ==
  ASSUME PInv, FirstOperand
  PROVE  PInv'
<1>1. /\ stack # <<>> /\ Top.fn = "level" /\ Top.op = 0
      /\ mode = "operand" /\ mode' = "loop" /\ value' = {}
      /\ UNCHANGED <<input, buffer, live, heap, callVars, stray>>
      /\ expression = {} /\ at = 7 /\ ~Failed
  BY DEF PInv, Located, FirstOperand, Running, Failed, Over
<1>2. Len(stack) \in Nat \ {0} /\ Top = stack[Len(stack)] /\ Len(stack) \in 1..Len(stack)
  BY <1>1, TopHeld
<1>3. /\ stack' \in Seq(Calls) /\ Len(stack') = Len(stack)
      /\ \A i \in 1..(Len(stack) - 1) : stack'[i] = stack[i]
      /\ stack'[Len(stack)].fn = "level" /\ stack'[Len(stack)].level = Top.level
      /\ stack'[Len(stack)].left = value /\ stack'[Len(stack)].op = 0
  <2>1. value \subseteq DOMAIN heap
    BY <1>1, TopHeld
  <2>2. DOMAIN heap \subseteq Nat /\ stack \in Seq(Calls)
    BY DEF PInv, Typed, Places
  <2>3. value \in SUBSET Nat /\ stack \in Seq(Calls) /\ 0 \in Nat
    BY <2>1, <2>2
  <2>4. stack' = Update(value, 0)
    BY DEF FirstOperand
  <2>5. stack # <<>> /\ Top.fn = "level"
    BY <1>1
  <2> QED BY <2>3, <2>4, <2>5, Updated
<1>4. Top.left = {}
  BY <1>1, <1>2 DEF PInv, FramesShaped, FrameShaped
<1>5. Apart(stack') /\ Pending' = Pending
  <2>1. Apart(stack') /\ OpsOf(stack') = OpsOf(stack) \ {Top.op}
    BY <1>2, <1>3, OperatorDone DEF PInv, TokensApart
  <2> QED BY <1>1, <2>1 DEF Pending, OpsOf
<1>6. Typed'
  BY <1>1, <1>3 DEF PInv, Typed, Modes, Places, callVars
<1>7. Located'
  BY <1>1, <1>2, <1>3 DEF PInv, Located, Running, Over, Failed, Top, callVars, LexerDone
<1>8. FramesShaped'
  BY <1>1, <1>2, <1>3, TopHeld DEF PInv, FramesShaped, FrameShaped
<1>9. NodesHeld'
  <2>1. Holding(heap, stack', {}, {})
    BY <1>1, <1>2, <1>3, <1>4, OperandTaken DEF PInv, NodesHeld
  <2> QED BY <1>1, <2>1 DEF NodesHeld, callVars
<1>10. TokensApart'
  BY <1>1, <1>5 DEF PInv, TokensApart, callVars, Places, Over
<1>11. TokensHeld'
  BY <1>1, <1>5 DEF PInv, TokensHeld, Buffered, Identifier, Logical, TokensOf, Places,
     LexerDone, callVars, Failed
<1> QED BY <1>6, <1>7, <1>8, <1>9, <1>10, <1>11 DEF PInv

LEMMA LeaveLevelKeeps ==
  ASSUME PInv, LeaveLevel
  PROVE  PInv'
<1>1. /\ stack # <<>> /\ Top.fn = "level" /\ Top.op = 0 /\ value = {}
      /\ mode = "loop" /\ mode' = Resume(stack') /\ value' = Top.left /\ stack' = Under
      /\ UNCHANGED <<input, buffer, live, heap, callVars, stray>>
      /\ expression = {} /\ at = 7 /\ ~Failed /\ ~Over /\ buffer # <<>>
  BY DEF PInv, Located, LeaveLevel, LookNot, Running, Failed, Over
<1>2. Len(stack) \in Nat \ {0} /\ Top = stack[Len(stack)] /\ Len(stack) \in 1..Len(stack)
  BY <1>1, TopHeld
<1>3. /\ stack' \in Seq(Calls) /\ Len(stack') = Len(stack) - 1
      /\ \A i \in 1..(Len(stack) - 1) : stack'[i] = stack[i]
  BY <1>1, Popped DEF Under, PInv, Typed
<1>4. /\ mode' \in {"expect", "operand", "negate", "close"}
      /\ mode' = "expect" <=> stack' = <<>>
      /\ mode' = "operand" => Top'.fn = "level"
      /\ mode' = "negate" => Top'.fn = "unary"
      /\ mode' = "close" => Top'.fn = "paren"
  BY <1>1, <1>3, Resumed DEF Top
<1>5. Apart(stack') /\ Pending' = Pending
  <2>1. Len(stack') \in {Len(stack) - 1, Len(stack)} /\ Len(stack') # Len(stack)
    BY <1>2, <1>3
  <2>2. Apart(stack') /\ OpsOf(stack') = OpsOf(stack) \ {Top.op}
    BY <1>2, <1>3, <2>1, OperatorDone DEF PInv, TokensApart
  <2> QED BY <1>1, <2>2 DEF Pending, OpsOf
<1>6. Typed'
  BY <1>1, <1>3, <1>4 DEF PInv, Typed, Modes, Places, callVars
<1>7. Located'
  BY <1>1, <1>4 DEF PInv, Located, Running, Over, Failed, callVars, LexerDone
<1>8. FramesShaped'
  BY <1>1, <1>2, <1>3, ReturnedShaped
<1>9. NodesHeld'
  <2>1. Holding(heap, stack', Top.left \cup {}, {})
    BY <1>1, <1>2, <1>3, OperandReturned DEF PInv, NodesHeld
  <2>2. value' = Top.left \cup {}
    BY <1>1
  <2> QED BY <1>1, <2>1, <2>2 DEF NodesHeld, callVars
<1>10. TokensApart'
  BY <1>1, <1>4, <1>5 DEF PInv, TokensApart, callVars, Places, Over
<1>11. TokensHeld'
  BY <1>1, <1>4, <1>5 DEF PInv, TokensHeld, Buffered, Identifier, Logical, TokensOf, Places,
     LexerDone, callVars, Failed
<1> QED BY <1>6, <1>7, <1>8, <1>9, <1>10, <1>11 DEF PInv

LEMMA UnwindKeeps ==
  ASSUME PInv, Unwind
  PROVE  PInv'
<1>1. /\ stack # <<>> /\ value = {} /\ mode = "error" /\ stack' = Under
      /\ UNCHANGED <<input, buffer, mode, value, callVars>>
      /\ expression = {} /\ at = 7 /\ ~Over /\ buffer = <<>>
  BY DEF PInv, Located, Unwind, Running, Failed, Over
<1>2. /\ Len(stack) \in Nat \ {0} /\ Top = stack[Len(stack)] /\ Len(stack) \in 1..Len(stack)
      /\ Top.left \subseteq DOMAIN heap
  BY <1>1, TopHeld
<1>3. /\ stack' \in Seq(Calls) /\ Len(stack') = Len(stack) - 1
      /\ \A i \in 1..(Len(stack) - 1) : stack'[i] = stack[i]
  BY <1>1, Popped DEF Under, PInv, Typed
<1>4. heap' = Pruned(heap, Top.left) /\ live' = live /\ stray' = FALSE
  BY <1>2 DEF Unwind, Without, Free, Pruned, PInv, Typed
<1>5. Apart(stack') /\ Pending' \subseteq Pending
  <2>1. Len(stack') \in {Len(stack) - 1, Len(stack)} /\ Len(stack') # Len(stack)
    BY <1>2, <1>3
  <2>2. Apart(stack') /\ OpsOf(stack') = OpsOf(stack) \ {Top.op}
    BY <1>2, <1>3, <2>1, OperatorDone DEF PInv, TokensApart
  <2> QED BY <2>2 DEF Pending
<1>6. Typed'
  <2>1. /\ DOMAIN heap' \subseteq Places /\ heap' \in [DOMAIN heap' -> Nodes]
        /\ \A n \in DOMAIN heap' : heap'[n].left \subseteq Places /\ heap'[n].right \subseteq Places
    BY <1>4 DEF PInv, Typed, Pruned
  <2> QED BY <1>1, <1>3, <1>4, <2>1 DEF PInv, Typed, Modes, Places, callVars
<1>7. Located'
  BY <1>1 DEF PInv, Located, Running, Over, Failed, callVars, LexerDone
<1>8. FramesShaped'
  BY <1>1, <1>2, <1>3, ReturnedShaped
<1>9. NodesHeld'
  <2>1. Holding(Pruned(heap, Top.left), stack', {}, {})
    BY <1>1, <1>2, <1>3, OperandFreed DEF PInv, NodesHeld
  <2> QED BY <1>1, <1>4, <2>1 DEF NodesHeld, callVars
<1>10. TokensApart'
  BY <1>1, <1>4, <1>5 DEF PInv, TokensApart, callVars, Places, Over, Pruned
<1>11. TokensHeld'
  BY <1>1, <1>4 DEF PInv, TokensHeld, Identifier, TokensOf, Places, LexerDone, callVars, Failed
<1> QED BY <1>6, <1>7, <1>8, <1>9, <1>10, <1>11 DEF PInv

(* What the next token is: nobody else has it.                             *)
LEMMA NextHeld ==
  ASSUME PInv, buffer # <<>>
  PROVE  /\ NextToken = Len(input) /\ NextToken \in Nat \ {0} /\ NextToken \in Places
         /\ NextToken \notin DOMAIN heap \cup Pending \cup {id}
         /\ Tail(buffer) = <<>> /\ ~Failed
         /\ NextType # "TT_EOF" => NextToken \in live /\ Buffered = {NextToken} /\ ~LexerDone
<1>1. Len(input) \in Nat \ {0}
  BY EmptySeq, LenProperties DEF PInv, Typed
<1>2. buffer = <<Len(input)>> /\ Tail(buffer) = <<>>
  <2>1. buffer = <<Len(input)>>
    BY DEF PInv, Typed
  <2> QED BY <2>1
<1>3. ~Failed
  BY DEF PInv, Located
<1> QED BY <1>1, <1>2, <1>3
        DEF PInv, TokensApart, TokensHeld, NextToken, NextType, Places, Buffered, LexerDone

LEMMA MatchOperatorKeeps ==
  ASSUME PInv, MatchOperator
  PROVE  PInv'
<1> DEFINE n == NextToken
           U == Update(Top.left, n)
<1>1. /\ stack # <<>> /\ Top.fn = "level" /\ Top.op = 0 /\ value = {}
      /\ mode = "loop" /\ mode' = "unary" /\ stack' = U \o CallFrom(Top.level + 1)
      /\ buffer # <<>> /\ buffer' = Tail(buffer)
      /\ UNCHANGED <<input, live, heap, value, callVars, stray>>
      /\ expression = {} /\ at = 7 /\ ~Over /\ result = "none"
      /\ NextType \in Levels[Top.level]
  BY DEF PInv, Located, MatchOperator, Look, Pop, Running, Failed, Over
<1>2. /\ Len(stack) \in Nat \ {0} /\ Top = stack[Len(stack)] /\ Len(stack) \in 1..Len(stack)
      /\ Top.left \subseteq DOMAIN heap /\ Top.level \in 1..Deepest
  BY <1>1, TopHeld
<1>3. /\ n = Len(input) /\ n \in Nat \ {0} /\ n \in Places
      /\ n \notin DOMAIN heap \cup Pending \cup {id}
      /\ buffer' = <<>> /\ ~Failed
      /\ n \in live /\ Buffered = {n} /\ ~LexerDone
  <2>1. NextType # "TT_EOF"
    BY <1>1, <1>2, LevelsApart
  <2> QED BY <1>1, <2>1, NextHeld
<1>4. /\ U \in Seq(Calls) /\ Len(U) = Len(stack)
      /\ \A i \in 1..(Len(stack) - 1) : U[i] = stack[i]
      /\ U[Len(stack)].fn = "level" /\ U[Len(stack)].level = Top.level
      /\ U[Len(stack)].left = Top.left /\ U[Len(stack)].op = n
  <2>1. DOMAIN heap \subseteq Nat /\ stack \in Seq(Calls)
    BY DEF PInv, Typed, Places
  <2>2. Top.left \in SUBSET Nat
    BY <1>2, <2>1
  <2>3. n \in Nat
    BY <1>3
  <2> HIDE DEF n
  <2> QED BY <1>1, <2>1, <2>2, <2>3, Updated
<1> HIDE DEF U, n
<1>5. /\ stack' \in Seq(Calls) /\ Len(stack') \in Nat /\ Len(stack') >= Len(stack)
      /\ \A i \in 1..Len(stack) : stack'[i] = U[i]
      /\ \A i \in 1..Len(stack') : i > Len(stack) => Fresh(stack'[i])
  <2>1. Top.level + 1 \in 1..(Deepest + 1)
    BY <1>2 DEF Deepest
  <2>2. U \in Seq(Calls) /\ stack' = U \o CallFrom(Top.level + 1)
    BY <1>1, <1>4
  <2>3. /\ stack' \in Seq(Calls) /\ Len(stack') \in Nat /\ Len(stack') >= Len(U)
        /\ \A i \in 1..Len(U) : stack'[i] = U[i]
        /\ \A i \in 1..Len(stack') : i > Len(U) => Fresh(stack'[i])
    BY <2>1, <2>2, Pushed
  <2> QED BY <1>4, <2>3
<1>6. \A i \in 1..Len(stack') :
          \/ i \in 1..(Len(stack) - 1) /\ i \in 1..Len(stack) /\ i # Len(stack) /\ stack'[i] = stack[i]
          \/ i = Len(stack) /\ stack'[i] = U[i]
          \/ i > Len(stack) /\ Fresh(stack'[i])
  BY <1>2, <1>4, <1>5
<1>7. Apart(stack') /\ Pending' = Pending \cup {n}
  <2>1. Apart(U) /\ OpsOf(U) = OpsOf(stack) \cup {n}
    BY <1>1, <1>2, <1>3, <1>4, OperatorMet DEF PInv, TokensApart, Pending
  <2>2. \A i \in 1..Len(stack') : i > Len(U) => stack'[i].op = 0
    BY <1>4, <1>5 DEF Fresh
  <2>3. Apart(stack') /\ OpsOf(stack') = OpsOf(U)
    BY <1>2, <1>4, <1>5, <2>1, <2>2, OperatorsKept
  <2> QED BY <2>1, <2>3 DEF Pending
<1>8. Typed'
  BY <1>1, <1>3, <1>5 DEF PInv, Typed, Modes, Places, callVars
<1>9. Located'
  BY <1>1, <1>3, <1>5 DEF PInv, Located, Running, Over, Failed, callVars, LexerDone
<1>10. FramesShaped'
  <2>1. ASSUME NEW i \in 1..Len(stack') PROVE FrameShaped(i)'
    <3>1. CASE i \in 1..(Len(stack) - 1) /\ i \in 1..Len(stack) /\ i # Len(stack) /\ stack'[i] = stack[i]
      BY <1>1, <3>1 DEF PInv, FramesShaped, FrameShaped
    <3>2. CASE i = Len(stack) /\ stack'[i] = U[i]
      BY <1>1, <1>2, <1>3, <1>4, <3>2 DEF NextType, NextToken, n, FrameShaped
    <3>3. CASE i > Len(stack) /\ Fresh(stack'[i])
      BY <1>1, <3>3 DEF Fresh, FrameShaped
    <3> QED BY <1>6, <3>1, <3>2, <3>3
  <2> QED BY <2>1 DEF FramesShaped
<1>11. NodesHeld'
  <2>1. \A i \in 1..Len(stack') : i > Len(stack) => stack'[i].left = {}
    BY <1>5 DEF Fresh
  <2>2. \A i \in 1..Len(stack) : stack'[i].left = stack[i].left
    BY <1>2, <1>4, <1>5
  <2>3. Holding(heap, stack', value, expression)
    BY <1>2, <1>5, <2>1, <2>2, StartedHoldNothing DEF PInv, NodesHeld
  <2> QED BY <1>1, <2>3 DEF NodesHeld, callVars
<1>12. TokensApart'
  BY <1>1, <1>3, <1>7 DEF PInv, TokensApart, callVars, Places, Over
<1>13. TokensHeld'
  <2>1. Buffered' = {} /\ Identifier' = Identifier /\ Logical' = Logical /\ ~Failed'
    BY <1>1, <1>3 DEF Buffered, Identifier, Logical, TokensOf, Places, LexerDone, callVars, Failed
  <2> QED BY <1>1, <1>3, <1>7, <2>1 DEF PInv, TokensHeld
<1> QED BY <1>8, <1>9, <1>10, <1>11, <1>12, <1>13 DEF PInv
----------------------------------------------------------------------------
(* The functions of the primary and the unary expressions. *)

LEMMA Framed ==
  ASSUME stack \in Seq(Calls), NEW call \in Calls
  PROVE  LET T == Append(stack, call) IN
         /\ T \in Seq(Calls) /\ Len(stack) \in Nat /\ Len(T) = Len(stack) + 1
         /\ \A i \in 1..Len(stack) : T[i] = stack[i]
         /\ T[Len(stack) + 1] = call
BY AppendProperties, LenProperties

LEMMA UnaryOperatorKeeps ==
  ASSUME PInv, UnaryOperator
  PROVE  PInv'
<1> DEFINE n == NextToken
           call == Frame("unary", 0, {}, n)
<1>1. /\ value = {} /\ mode = "unary" /\ mode' = "unary"
      /\ buffer # <<>> /\ buffer' = Tail(buffer)
      /\ UNCHANGED <<input, live, heap, value, callVars, stray>>
      /\ expression = {} /\ at = 7 /\ ~Over /\ result = "none"
      /\ NextType \in UnaryOps /\ stack' = Append(stack, call)
  BY DEF PInv, Located, UnaryOperator, Look, Pop, Running, Failed, Over
<1>2. /\ n = Len(input) /\ n \in Nat \ {0} /\ n \in Places
      /\ n \notin DOMAIN heap \cup Pending \cup {id}
      /\ buffer' = <<>> /\ ~Failed
      /\ n \in live /\ Buffered = {n} /\ ~LexerDone
  <2>1. NextType # "TT_EOF"
    BY <1>1, UnaryTokens
  <2> QED BY <1>1, <2>1, NextHeld
<1>3. /\ call \in Calls /\ call.fn = "unary" /\ call.left = {} /\ call.op = n
  BY <1>2 DEF Frame, Calls, Deepest
<1> HIDE DEF call, n
<1>4. /\ stack' \in Seq(Calls) /\ Len(stack) \in Nat /\ Len(stack') = Len(stack) + 1
      /\ \A i \in 1..Len(stack) : stack'[i] = stack[i]
      /\ stack'[Len(stack')] = call
  <2>1. stack \in Seq(Calls)
    BY DEF PInv, Typed
  <2> QED BY <1>1, <1>3, <2>1, Framed
<1>5. \A i \in 1..Len(stack') :
          \/ i \in 1..Len(stack) /\ stack'[i] = stack[i] /\ i # Len(stack')
          \/ i = Len(stack') /\ stack'[i] = call
  <2>1. ASSUME NEW i \in 1..Len(stack'), i # Len(stack')
        PROVE  i \in 1..Len(stack) /\ stack'[i] = stack[i]
    <3>1. i \in 1..Len(stack)
      BY <1>4, <2>1
    <3> QED BY <1>4, <3>1
  <2> QED BY <1>4, <2>1
<1>6. Apart(stack') /\ Pending' = Pending \cup {n}
  <2>1. \A i \in 1..Len(stack) : stack[i].op # n
    BY <1>2 DEF Pending, OpsOf
  <2>2. Apart(stack')
    BY <1>3, <1>5, <2>1 DEF PInv, TokensApart, Apart
  <2>3. Len(stack') \in 1..Len(stack') /\ \A i \in 1..Len(stack) : i \in 1..Len(stack')
    BY <1>4
  <2>4. ASSUME NEW k PROVE k \in OpsOf(stack') <=> k \in OpsOf(stack) \cup {n}
    BY <1>2, <1>3, <1>4, <1>5, <2>3 DEF OpsOf
  <2> QED BY <2>2, <2>4 DEF Pending
<1>7. Typed'
  BY <1>1, <1>2, <1>4 DEF PInv, Typed, Modes, Places, callVars
<1>8. Located'
  BY <1>1, <1>2 DEF PInv, Located, Running, Over, Failed, callVars, LexerDone
<1>9. FramesShaped'
  <2>1. ASSUME NEW i \in 1..Len(stack') PROVE FrameShaped(i)'
    <3>1. CASE i \in 1..Len(stack) /\ stack'[i] = stack[i]
      BY <1>1, <3>1 DEF PInv, FramesShaped, FrameShaped
    <3>2. CASE stack'[i] = call
      BY <1>1, <1>2, <1>3, <3>2 DEF NextType, NextToken, n, FrameShaped
    <3> QED BY <1>5, <3>1, <3>2
  <2> QED BY <2>1 DEF FramesShaped
<1>10. NodesHeld'
  <2>1. \A i \in 1..Len(stack') : i > Len(stack) => stack'[i].left = {}
    BY <1>3, <1>4, <1>5
  <2>2. \A i \in 1..Len(stack) : stack'[i].left = stack[i].left
    BY <1>4
  <2>3. Len(stack') \in Nat /\ Len(stack') >= Len(stack)
    BY <1>4
  <2>4. Holding(heap, stack', value, expression)
    BY <1>4, <2>1, <2>2, <2>3, StartedHoldNothing DEF PInv, NodesHeld
  <2> QED BY <1>1, <2>4 DEF NodesHeld, callVars
<1>11. TokensApart'
  BY <1>1, <1>2, <1>6 DEF PInv, TokensApart, callVars, Places, Over
<1>12. TokensHeld'
  <2>1. Buffered' = {} /\ Identifier' = Identifier /\ Logical' = Logical /\ ~Failed'
    BY <1>1, <1>2 DEF Buffered, Identifier, Logical, TokensOf, Places, LexerDone, callVars, Failed
  <2> QED BY <1>1, <1>2, <1>6, <2>1 DEF PInv, TokensHeld
<1> QED BY <1>7, <1>8, <1>9, <1>10, <1>11, <1>12 DEF PInv

LEMMA OpenParenKeeps ==
  ASSUME PInv, OpenParen
  PROVE  PInv'
<1> DEFINE n == NextToken
           call == Frame("paren", 0, {}, 0)
           U == Append(stack, call)
<1>1. /\ value = {} /\ mode = "unary" /\ mode' = "unary"
      /\ buffer # <<>> /\ buffer' = Tail(buffer)
      /\ UNCHANGED <<input, heap, mode, value, callVars>>
      /\ expression = {} /\ at = 7 /\ ~Over /\ result = "none"
      /\ NextType = "TT_LPAREN" /\ stack' = U \o CallFrom(1)
  BY DEF PInv, Located, OpenParen, Look, Pop, Running, Failed, Over, ParseExpression
<1>2. /\ n = Len(input) /\ n \in Nat \ {0} /\ n \in Places
      /\ n \notin DOMAIN heap \cup Pending \cup {id}
      /\ buffer' = <<>> /\ ~Failed
      /\ n \in live /\ Buffered = {n} /\ ~LexerDone
  BY <1>1, NextHeld
<1>3. /\ call \in Calls /\ call.fn = "paren" /\ call.left = {} /\ call.op = 0
  BY DEF Frame, Calls, Deepest
<1> HIDE DEF call
<1>4. /\ U \in Seq(Calls) /\ Len(stack) \in Nat /\ Len(U) = Len(stack) + 1
      /\ \A i \in 1..Len(stack) : U[i] = stack[i]
      /\ U[Len(U)] = call
  <2>1. stack \in Seq(Calls)
    BY DEF PInv, Typed
  <2> QED BY <1>3, <2>1, Framed
<1> HIDE DEF U, n
<1>5. /\ stack' \in Seq(Calls) /\ Len(stack') \in Nat /\ Len(stack') >= Len(U)
      /\ \A i \in 1..Len(U) : stack'[i] = U[i]
      /\ \A i \in 1..Len(stack') : i > Len(U) => Fresh(stack'[i])
  <2>1. 1 \in 1..(Deepest + 1)
    BY DEF Deepest
  <2> QED BY <1>1, <1>4, <2>1, Pushed
<1>6. \A i \in 1..Len(stack') :
          \/ i \in 1..Len(stack) /\ stack'[i] = stack[i]
          \/ i > Len(stack) /\ (Fresh(stack'[i]) \/ stack'[i] = call)
  <2>1. \A i \in 1..Len(stack') : i \in 1..Len(stack) \/ i = Len(U) \/ i > Len(U)
    BY <1>4, <1>5
  <2>2. Len(U) > Len(stack) /\ Len(U) \in 1..Len(U) /\ \A i \in 1..Len(stack) : i \in 1..Len(U)
    BY <1>4
  <2>3. \A i \in 1..Len(stack') : i > Len(U) => i > Len(stack)
    BY <1>4, <2>2
  <2> QED BY <1>4, <1>5, <2>1, <2>2, <2>3
<1>7. /\ Len(stack') >= Len(stack)
      /\ \A i \in 1..Len(stack) : i \in 1..Len(stack') /\ stack'[i] = stack[i]
      /\ \A i \in 1..Len(stack') : i > Len(stack) => stack'[i].op = 0 /\ stack'[i].left = {}
  <2>1. Len(stack') >= Len(stack) /\ \A i \in 1..Len(stack) : i \in 1..Len(U) /\ i \in 1..Len(stack')
    BY <1>4, <1>5
  <2>2. \A i \in 1..Len(stack') : i > Len(stack) => ~(i \in 1..Len(stack))
    BY <1>4
  <2> QED BY <1>3, <1>4, <1>5, <1>6, <2>1, <2>2 DEF Fresh
<1>8. Apart(stack') /\ Pending' = Pending
  BY <1>4, <1>5, <1>7, OperatorsKept DEF PInv, TokensApart, Pending
<1>9. live' = live \ {n} /\ stray' = FALSE
  BY <1>2 DEF OpenParen, Free, PInv, Typed, n
<1>10. Typed'
  BY <1>1, <1>2, <1>5, <1>9 DEF PInv, Typed, Modes, Places, callVars
<1>11. Located'
  BY <1>1, <1>2 DEF PInv, Located, Running, Over, Failed, callVars, LexerDone
<1>12. FramesShaped'
  <2>1. ASSUME NEW i \in 1..Len(stack') PROVE FrameShaped(i)'
    <3>1. CASE i \in 1..Len(stack) /\ stack'[i] = stack[i]
      BY <1>1, <3>1 DEF PInv, FramesShaped, FrameShaped
    <3>2. CASE stack'[i] = call
      BY <1>3, <3>2 DEF FrameShaped
    <3>3. CASE Fresh(stack'[i])
      BY <3>3 DEF FrameShaped, Fresh
    <3> QED BY <1>6, <3>1, <3>2, <3>3
  <2> QED BY <2>1 DEF FramesShaped
<1>13. NodesHeld'
  <2>1. Holding(heap, stack', value, expression)
    BY <1>4, <1>5, <1>7, StartedHoldNothing DEF PInv, NodesHeld
  <2> QED BY <1>1, <2>1 DEF NodesHeld, callVars
<1>14. TokensApart'
  BY <1>1, <1>2, <1>8, <1>9 DEF PInv, TokensApart, callVars, Places, Over
<1>15. TokensHeld'
  <2>1. Buffered' = {} /\ Identifier' = Identifier /\ Logical' = Logical /\ ~Failed'
    BY <1>1, <1>2 DEF Buffered, Identifier, Logical, TokensOf, Places, LexerDone, callVars, Failed
  <2>2. n \notin Logical /\ n \notin Identifier
    BY <1>1, <1>2 DEF Logical, TokensOf, Identifier, NextType, NextToken, n
  <2> QED BY <1>1, <1>2, <1>8, <1>9, <2>1, <2>2 DEF PInv, TokensHeld
<1> QED BY <1>10, <1>11, <1>12, <1>13, <1>14, <1>15 DEF PInv

LEMMA NumberKeeps ==
  ASSUME PInv, Number
  PROVE  PInv'
<1> DEFINE n == NextToken
<1>1. /\ value = {} /\ mode = "unary" /\ mode' = Resume(stack)
      /\ buffer # <<>> /\ buffer' = Tail(buffer)
      /\ UNCHANGED <<input, stack, callVars>>
      /\ expression = {} /\ at = 7 /\ ~Over /\ result = "none"
      /\ NextType = "TT_NUM" /\ value' = {n}
      /\ heap' = Grown(heap, n, {}, {})
  BY DEF PInv, Located, Number, Look, Pop, Running, Failed, Over, Alloc, Grown
<1>2. /\ n = Len(input) /\ n \in Nat \ {0} /\ n \in Places
      /\ n \notin DOMAIN heap \cup Pending \cup {id}
      /\ buffer' = <<>> /\ ~Failed
      /\ n \in live /\ Buffered = {n} /\ ~LexerDone
  BY <1>1, NextHeld
<1>3. live' = live \ {n} /\ stray' = FALSE
  BY <1>2 DEF Number, Free, PInv, Typed, n
<1>4. stack \in Seq(Calls)
  BY DEF PInv, Typed
<1>5. /\ mode' \in {"expect", "operand", "negate", "close"}
      /\ mode' = "expect" <=> stack' = <<>>
      /\ mode' = "operand" => Top'.fn = "level"
      /\ mode' = "negate" => Top'.fn = "unary"
      /\ mode' = "close" => Top'.fn = "paren"
  BY <1>1, <1>4, Resumed DEF Top
<1>6. n \notin Logical /\ n \notin Identifier
  BY <1>1, <1>2 DEF Logical, TokensOf, Identifier, NextType, NextToken
<1>7. NodesHeld'
  <2>1. Holding(Grown(heap, n, {}, {}), stack, {n} \cup {}, {})
    BY <1>1, <1>2, ReturnedGrows DEF PInv, NodesHeld
  <2>2. {n} \cup {} = {n}
    OBVIOUS
  <2>3. Holding(Grown(heap, n, {}, {}), stack, {n}, {})
    BY <2>1, <2>2
  <2> QED BY <1>1, <2>3 DEF NodesHeld, callVars
<1> HIDE DEF n
<1>8. Typed'
  <2>1. /\ DOMAIN heap' \subseteq Places /\ heap' \in [DOMAIN heap' -> Nodes]
        /\ \A k \in DOMAIN heap' : heap'[k].left \subseteq Places /\ heap'[k].right \subseteq Places
    BY <1>1, <1>2 DEF PInv, Typed, Grown, Nodes
  <2> QED BY <1>1, <1>2, <1>3, <1>5, <2>1 DEF PInv, Typed, Modes, Places, callVars
<1>9. Located'
  BY <1>1, <1>2, <1>5 DEF PInv, Located, Running, Over, Failed, callVars, LexerDone
<1>10. FramesShaped'
  BY <1>1 DEF PInv, FramesShaped, FrameShaped
<1>11. TokensApart'
  <2>1. DOMAIN heap' = DOMAIN heap \cup {n}
    BY <1>1 DEF Grown
  <2> QED BY <1>1, <1>2, <1>3, <1>5, <2>1 DEF PInv, TokensApart, callVars, Places, Over, Pending
<1>12. TokensHeld'
  <2>1. Buffered' = {} /\ Identifier' = Identifier /\ Logical' = Logical /\ ~Failed' /\ Pending' = Pending
    BY <1>1, <1>2, <1>5
       DEF Buffered, Identifier, Logical, TokensOf, Places, LexerDone, callVars, Failed, Pending
  <2> QED BY <1>1, <1>2, <1>3, <1>6, <2>1 DEF PInv, TokensHeld
<1> QED BY <1>7, <1>8, <1>9, <1>10, <1>11, <1>12 DEF PInv

(* An unexpected token stays allocated, and so do the pending operators.   *)
LEMMA FailureHolds ==
  ASSUME PInv, ~Failed
  PROVE  live \subseteq TokensOf(Operators) \cup Identifier \cup Buffered
<1>1. Logical \subseteq TokensOf(Operators)
  <2>1. 1 \in 1..Deepest /\ 2 \in 1..Deepest /\ "TT_PIPE_PIPE" \in Levels[1] /\ "TT_AMP_AMP" \in Levels[2]
    BY DEF Deepest, Levels
  <2> QED BY <2>1, LevelsApart DEF Logical, TokensOf
<1>2. Pending \subseteq TokensOf(Operators)
  <2>1. ASSUME NEW k \in Pending PROVE k \in TokensOf(Operators)
    <3>1. PICK i \in 1..Len(stack) : stack[i].op = k /\ k # 0
      BY <2>1 DEF Pending, OpsOf
    <3>2. k \in Places /\ stack[i] \in Calls
      BY ElementOfSeq DEF PInv, Typed, TokensApart
    <3>3. input[k] \in Operators
      BY <3>1, <3>2, LevelsApart, UnaryTokens DEF PInv, FramesShaped, FrameShaped, Calls
    <3> QED BY <3>2, <3>3 DEF TokensOf
  <2> QED BY <2>1
<1> QED BY <1>1, <1>2 DEF PInv, TokensHeld

LEMMA UnexpectedKeeps ==
  ASSUME PInv, Unexpected
  PROVE  PInv'
<1>1. /\ value = {} /\ mode = "unary" /\ mode' = "error"
      /\ buffer # <<>> /\ buffer' = Tail(buffer)
      /\ UNCHANGED <<input, live, heap, stack, value, callVars, stray>>
      /\ expression = {} /\ at = 7 /\ ~Over /\ result = "none"
  BY DEF PInv, Located, Unexpected, LookNot, Pop, Running, Failed, Over, treeVars
<1>2. Len(input) # id /\ buffer' = <<>> /\ ~Failed
  BY <1>1, NextHeld
<1>3. ~LexerDone => Len(input) \in live
  BY <1>1, NextHeld DEF LexerDone, NextType, NextToken
<1>4. live \subseteq TokensOf(Operators) \cup Identifier \cup {Len(input)}
  BY <1>2, FailureHolds DEF Buffered
<1>5. Typed'
  BY <1>1, <1>2 DEF PInv, Typed, Modes, Places, callVars
<1>6. Located'
  BY <1>1, <1>2 DEF PInv, Located, Running, Over, Failed, callVars, LexerDone
<1>7. FramesShaped'
  BY <1>1 DEF PInv, FramesShaped, FrameShaped
<1>8. NodesHeld'
  BY <1>1 DEF PInv, NodesHeld, callVars
<1>9. TokensApart'
  BY <1>1, <1>2 DEF PInv, TokensApart, callVars, Places, Over, Pending
<1>10. TokensHeld'
  BY <1>1, <1>2, <1>3, <1>4 DEF PInv, TokensHeld, TokensOf, Places, Identifier, LexerDone,
     Failed, callVars
<1> QED BY <1>5, <1>6, <1>7, <1>8, <1>9, <1>10 DEF PInv

LEMMA NegateKeeps ==
  ASSUME PInv, Negate
  PROVE  PInv'
<1> DEFINE n == Top.op
<1>1. /\ stack # <<>> /\ Top.fn = "unary"
      /\ mode = "negate" /\ mode' = Resume(stack') /\ value' = {n} \cup value /\ stack' = Under
      /\ UNCHANGED <<input, buffer, callVars>>
      /\ expression = {} /\ at = 7 /\ ~Failed /\ ~Over /\ result = "none"
      /\ heap' = Grown(heap, n, {}, value)
  BY DEF PInv, Located, Negate, Running, Failed, Over, Alloc, Grown
<1>2. /\ Len(stack) \in Nat \ {0} /\ Top = stack[Len(stack)] /\ Len(stack) \in 1..Len(stack)
      /\ n \in Nat \ {0} /\ n \in Places /\ n \in Pending /\ n \notin DOMAIN heap /\ n # id
      /\ input[n] \in UnaryOps /\ value \subseteq DOMAIN heap /\ Top.left = {}
  BY <1>1, TopHeld
<1>3. /\ stack' \in Seq(Calls) /\ Len(stack') = Len(stack) - 1
      /\ \A i \in 1..(Len(stack) - 1) : stack'[i] = stack[i]
  BY <1>1, Popped DEF Under, PInv, Typed
<1>4. /\ mode' \in {"expect", "operand", "negate", "close"}
      /\ mode' = "expect" <=> stack' = <<>>
      /\ mode' = "operand" => Top'.fn = "level"
      /\ mode' = "negate" => Top'.fn = "unary"
      /\ mode' = "close" => Top'.fn = "paren"
  BY <1>1, <1>3, Resumed DEF Top
<1>5. Apart(stack') /\ Pending' = Pending \ {n}
  <2>1. Len(stack') \in {Len(stack) - 1, Len(stack)} /\ Len(stack') # Len(stack)
    BY <1>2, <1>3
  <2> QED BY <1>2, <1>3, <2>1, OperatorDone DEF PInv, TokensApart, Pending
<1>6. n \in live
  BY <1>1, <1>2 DEF PInv, TokensHeld
<1>7. live' = live \ {n} /\ stray' = FALSE
  BY <1>6 DEF Negate, Free, PInv, Typed
<1>8. NodesHeld'
  <2>1. Holding(Grown(heap, n, {}, value), stack, {n} \cup value, {})
    BY <1>1, <1>2, ReturnedGrows DEF PInv, NodesHeld
  <2>2. Holding(Grown(heap, n, {}, value), stack', Top.left \cup ({n} \cup value), {})
    BY <1>2, <1>3, <2>1, OperandReturned
  <2>3. Top.left \cup ({n} \cup value) = value'
    BY <1>1, <1>2
  <2> QED BY <1>1, <2>2, <2>3 DEF NodesHeld, callVars
<1> HIDE DEF n
<1>9. Typed'
  <2>1. /\ DOMAIN heap' \subseteq Places /\ heap' \in [DOMAIN heap' -> Nodes]
        /\ \A k \in DOMAIN heap' : heap'[k].left \subseteq Places /\ heap'[k].right \subseteq Places
    BY <1>1, <1>2 DEF PInv, Typed, Grown, Nodes, Places
  <2> QED BY <1>1, <1>2, <1>3, <1>4, <1>7, <2>1 DEF PInv, Typed, Modes, Places, callVars
<1>10. Located'
  BY <1>1, <1>4 DEF PInv, Located, Running, Over, Failed, callVars, LexerDone
<1>11. FramesShaped'
  BY <1>1, <1>2, <1>3, ReturnedShaped
<1>12. TokensApart'
  <2>1. DOMAIN heap' = DOMAIN heap \cup {n}
    BY <1>1 DEF Grown
  <2> QED BY <1>1, <1>2, <1>4, <1>5, <1>7, <2>1 DEF PInv, TokensApart, callVars, Places, Over
<1>13. TokensHeld'
  <2>1. n \notin Logical
    BY <1>2, UnaryTokens DEF Logical, TokensOf
  <2>2. n \notin Identifier /\ n \notin Buffered
    BY <1>1, <1>2 DEF PInv, TokensApart, Identifier, Buffered
  <2>3. Buffered' = Buffered /\ Identifier' = Identifier /\ Logical' = Logical /\ ~Failed'
    BY <1>1, <1>4 DEF Buffered, Identifier, Logical, TokensOf, Places, LexerDone, callVars, Failed
  <2> QED BY <1>1, <1>5, <1>7, <2>1, <2>2, <2>3 DEF PInv, TokensHeld
<1> QED BY <1>8, <1>9, <1>10, <1>11, <1>12, <1>13 DEF PInv

LEMMA CloseParenKeeps ==
  ASSUME PInv, CloseParen
  PROVE  PInv'
<1> DEFINE n == NextToken
<1>1. /\ stack # <<>> /\ Top.fn = "paren"
      /\ mode = "close" /\ mode' = Resume(stack') /\ stack' = Under
      /\ buffer # <<>> /\ buffer' = Tail(buffer)
      /\ UNCHANGED <<input, heap, value, callVars>>
      /\ expression = {} /\ at = 7 /\ ~Failed /\ ~Over /\ result = "none"
      /\ NextType = "TT_RPAREN"
  BY DEF PInv, Located, CloseParen, Look, Pop, Running, Failed, Over
<1>2. /\ Len(stack) \in Nat \ {0} /\ Top = stack[Len(stack)] /\ Len(stack) \in 1..Len(stack)
      /\ Top.left = {} /\ Top.op = 0
  BY <1>1, TopHeld DEF PInv, FramesShaped, FrameShaped
<1>3. /\ stack' \in Seq(Calls) /\ Len(stack') = Len(stack) - 1
      /\ \A i \in 1..(Len(stack) - 1) : stack'[i] = stack[i]
  BY <1>1, Popped DEF Under, PInv, Typed
<1>4. /\ mode' \in {"expect", "operand", "negate", "close"}
      /\ mode' = "expect" <=> stack' = <<>>
      /\ mode' = "operand" => Top'.fn = "level"
      /\ mode' = "negate" => Top'.fn = "unary"
      /\ mode' = "close" => Top'.fn = "paren"
  BY <1>1, <1>3, Resumed DEF Top
<1>5. Apart(stack') /\ Pending' = Pending
  <2>1. Len(stack') \in {Len(stack) - 1, Len(stack)} /\ Len(stack') # Len(stack)
    BY <1>2, <1>3
  <2>2. Apart(stack') /\ OpsOf(stack') = OpsOf(stack) \ {Top.op}
    BY <1>2, <1>3, <2>1, OperatorDone DEF PInv, TokensApart
  <2> QED BY <1>2, <2>2 DEF Pending, OpsOf
<1>6. /\ n = Len(input) /\ n \in Places /\ n \notin DOMAIN heap \cup Pending \cup {id}
      /\ buffer' = <<>> /\ n \in live /\ Buffered = {n} /\ ~LexerDone
  BY <1>1, NextHeld
<1>7. live' = live \ {n} /\ stray' = FALSE
  BY <1>6 DEF CloseParen, Free, PInv, Typed
<1>8. n \notin Logical /\ n \notin Identifier
  BY <1>1, <1>6 DEF Logical, TokensOf, Identifier, NextType, NextToken
<1>9. Typed'
  BY <1>1, <1>3, <1>4, <1>6, <1>7 DEF PInv, Typed, Modes, Places, callVars
<1>10. Located'
  BY <1>1, <1>4, <1>6 DEF PInv, Located, Running, Over, Failed, callVars, LexerDone
<1>11. FramesShaped'
  BY <1>1, <1>2, <1>3, ReturnedShaped
<1>12. NodesHeld'
  <2>1. Holding(heap, stack', Top.left \cup value, {})
    BY <1>1, <1>2, <1>3, OperandReturned DEF PInv, NodesHeld
  <2>2. Top.left \cup value = value
    BY <1>2
  <2>3. Holding(heap, stack', value, {})
    BY <2>1, <2>2
  <2> QED BY <1>1, <2>3 DEF NodesHeld, callVars
<1>13. TokensApart'
  BY <1>1, <1>4, <1>5, <1>6, <1>7 DEF PInv, TokensApart, callVars, Places, Over
<1>14. TokensHeld'
  <2>1. Buffered' = {} /\ Identifier' = Identifier /\ Logical' = Logical /\ ~Failed'
    BY <1>1, <1>4, <1>6
       DEF Buffered, Identifier, Logical, TokensOf, Places, LexerDone, callVars, Failed
  <2> QED BY <1>1, <1>5, <1>6, <1>7, <1>8, <2>1 DEF PInv, TokensHeld
<1> QED BY <1>9, <1>10, <1>11, <1>12, <1>13, <1>14 DEF PInv

LEMMA CloseParenFailsKeeps ==
  ASSUME PInv, CloseParenFails
  PROVE  PInv'
<1>1. /\ stack # <<>> /\ Top.fn = "paren"
      /\ mode = "close" /\ mode' = "error" /\ stack' = Under /\ value' = {}
      /\ buffer # <<>> /\ buffer' = Tail(buffer)
      /\ UNCHANGED <<input, callVars>>
      /\ expression = {} /\ at = 7 /\ ~Failed /\ ~Over /\ result = "none"
  BY DEF PInv, Located, CloseParenFails, LookNot, Pop, Running, Failed, Over
<1>2. /\ Len(stack) \in Nat \ {0} /\ Top = stack[Len(stack)] /\ Len(stack) \in 1..Len(stack)
      /\ Top.left = {} /\ Top.op = 0 /\ value \subseteq DOMAIN heap
  BY <1>1, TopHeld DEF PInv, FramesShaped, FrameShaped
<1>3. /\ stack' \in Seq(Calls) /\ Len(stack') = Len(stack) - 1
      /\ \A i \in 1..(Len(stack) - 1) : stack'[i] = stack[i]
  BY <1>1, Popped DEF Under, PInv, Typed
<1>4. heap' = Pruned(heap, value) /\ live' = live /\ stray' = FALSE
  BY <1>2 DEF CloseParenFails, Without, Free, Pruned, PInv, Typed
<1>5. Apart(stack') /\ Pending' = Pending
  <2>1. Len(stack') \in {Len(stack) - 1, Len(stack)} /\ Len(stack') # Len(stack)
    BY <1>2, <1>3
  <2>2. Apart(stack') /\ OpsOf(stack') = OpsOf(stack) \ {Top.op}
    BY <1>2, <1>3, <2>1, OperatorDone DEF PInv, TokensApart
  <2> QED BY <1>2, <2>2 DEF Pending, OpsOf
<1>6. Len(input) # id /\ buffer' = <<>>
  BY <1>1, NextHeld
<1>7. ~LexerDone => Len(input) \in live
  BY <1>1, NextHeld DEF LexerDone, NextType, NextToken
<1>8. live \subseteq TokensOf(Operators) \cup Identifier \cup {Len(input)}
  BY <1>1, FailureHolds DEF Buffered
<1>9. Typed'
  <2>1. /\ DOMAIN heap' \subseteq Places /\ heap' \in [DOMAIN heap' -> Nodes]
        /\ \A n \in DOMAIN heap' : heap'[n].left \subseteq Places /\ heap'[n].right \subseteq Places
    BY <1>4 DEF PInv, Typed, Pruned
  <2> QED BY <1>1, <1>3, <1>4, <1>6, <2>1 DEF PInv, Typed, Modes, Places, callVars
<1>10. Located'
  BY <1>1, <1>6 DEF PInv, Located, Running, Over, Failed, callVars, LexerDone
<1>11. FramesShaped'
  BY <1>1, <1>2, <1>3, ReturnedShaped
<1>12. NodesHeld'
  <2>1. \A i \in 1..Len(stack) : i \in 1..Len(stack') \/ stack[i].left = {}
    BY <1>2, <1>3
  <2>2. Len(stack') \in Nat /\ \A i \in 1..Len(stack') : i \in 1..Len(stack) /\ stack'[i] = stack[i]
    BY <1>2, <1>3
  <2>3. Holding(Pruned(heap, value), stack', {}, {})
    BY <1>1, <2>1, <2>2, ReturnedFreed DEF PInv, NodesHeld
  <2> QED BY <1>1, <1>4, <2>3 DEF NodesHeld, callVars
<1>13. TokensApart'
  BY <1>1, <1>4, <1>5, <1>6 DEF PInv, TokensApart, callVars, Places, Over, Pruned
<1>14. TokensHeld'
  BY <1>1, <1>4, <1>6, <1>7, <1>8
     DEF PInv, TokensHeld, TokensOf, Places, Identifier, LexerDone, Failed, callVars
<1> QED BY <1>9, <1>10, <1>11, <1>12, <1>13, <1>14 DEF PInv
----------------------------------------------------------------------------
(* parse_function and parse_statement. *)

LEMMA CallExpressionKeeps ==
  ASSUME PInv, CallExpression
  PROVE  PInv'
<1>1. /\ value = {} /\ mode = "expect" /\ mode' = "unary" /\ at = 7
      /\ UNCHANGED <<input, buffer, live, heap, value, callVars, stray>>
      /\ expression = {} /\ ~Failed /\ ~Over /\ result = "none"
      /\ stack = <<>> /\ stack' = CallFrom(1)
  BY DEF PInv, Located, CallExpression, Running, Failed, Over, ParseExpression
<1>2. /\ stack' \in Seq(Calls) /\ Len(stack') \in Nat
      /\ \A i \in 1..Len(stack') : Fresh(stack'[i])
  <2>1. 1 \in 1..(Deepest + 1)
    BY DEF Deepest
  <2> QED BY <1>1, <2>1, Started
<1>3. Len(stack) = 0
  BY <1>1
<1>4. Apart(stack') /\ Pending' = Pending
  <2>1. /\ Len(stack) \in Nat /\ Len(stack') >= Len(stack)
        /\ \A i \in 1..Len(stack) : stack'[i] = stack[i]
        /\ \A i \in 1..Len(stack') : i > Len(stack) => stack'[i].op = 0
    BY <1>2, <1>3 DEF Fresh
  <2> QED BY <1>2, <2>1, OperatorsKept DEF PInv, TokensApart, Pending
<1>5. Typed'
  BY <1>1, <1>2 DEF PInv, Typed, Modes, Places, callVars
<1>6. Located'
  BY <1>1 DEF PInv, Located, Running, Over, Failed, callVars, LexerDone, Outline
<1>7. FramesShaped'
  BY <1>2 DEF FramesShaped, FrameShaped, Fresh
<1>8. NodesHeld'
  <2>1. /\ Len(stack) \in Nat /\ Len(stack') >= Len(stack)
        /\ \A i \in 1..Len(stack) : stack'[i].left = stack[i].left
        /\ \A i \in 1..Len(stack') : i > Len(stack) => stack'[i].left = {}
    BY <1>2, <1>3 DEF Fresh
  <2>2. Holding(heap, stack', value, expression)
    BY <1>2, <2>1, StartedHoldNothing DEF PInv, NodesHeld
  <2> QED BY <1>1, <2>2 DEF NodesHeld, callVars
<1>9. TokensApart'
  BY <1>1, <1>4 DEF PInv, TokensApart, callVars, Places, Over
<1>10. TokensHeld'
  BY <1>1, <1>4 DEF PInv, TokensHeld, Buffered, Identifier, Logical, TokensOf, Places,
     LexerDone, callVars, Failed
<1> QED BY <1>5, <1>6, <1>7, <1>8, <1>9, <1>10 DEF PInv

LEMMA ExpressionReturnedKeeps ==
  ASSUME PInv, ExpressionReturned
  PROVE  PInv'
<1>1. /\ value # {} /\ mode = "expect" /\ mode' = "expect" /\ at = 7 /\ at' = 8
      /\ UNCHANGED <<input, buffer, live, heap, stack, id, result, stray>>
      /\ expression = {} /\ ~Failed /\ ~Over /\ result = "none"
      /\ stack = <<>> /\ expression' = value /\ value' = {}
  BY DEF PInv, Located, ExpressionReturned, Running, Failed, Over
<1>2. Typed'
  BY <1>1, OutlineTokens DEF PInv, Typed, Modes, Places
<1>3. Located'
  BY <1>1, OutlineTokens DEF PInv, Located, Running, Over, Failed, LexerDone
<1>4. FramesShaped'
  BY <1>1 DEF PInv, FramesShaped, FrameShaped
<1>5. NodesHeld'
  BY <1>1, WholeHeld DEF PInv, NodesHeld
<1>6. TokensApart'
  BY <1>1 DEF PInv, TokensApart, Places, Over, Pending
<1>7. TokensHeld'
  BY <1>1 DEF PInv, TokensHeld, Buffered, Identifier, Logical, TokensOf, Places,
     LexerDone, Failed, Pending
<1> QED BY <1>2, <1>3, <1>4, <1>5, <1>6, <1>7 DEF PInv

LEMMA ExpectKeeps ==
  ASSUME PInv, Expect
  PROVE  PInv'
<1> DEFINE n == NextToken
<1>1. /\ mode = "expect" /\ at \in 1..9 /\ at # 7 /\ at' = at + 1
      /\ buffer # <<>> /\ buffer' = Tail(buffer)
      /\ UNCHANGED <<input, heap, stack, value, mode, expression, result>>
      /\ ~Failed /\ ~Over /\ result = "none" /\ stack = <<>> /\ value = {}
      /\ NextType = Outline[at]
  BY OutlineTokens DEF PInv, Typed, Located, Expect, Look, Peeking, Pop, Running, Failed, Over, treeVars
<1>2. NextType \notin {"TT_EOF", "TT_AMP_AMP", "TT_PIPE_PIPE"}
  BY <1>1, OutlineTokens
<1>3. /\ n = Len(input) /\ n \in Nat \ {0} /\ n \in Places
      /\ n \notin DOMAIN heap \cup Pending \cup {id}
      /\ buffer' = <<>> /\ n \in live /\ Buffered = {n} /\ ~LexerDone
  BY <1>1, <1>2, NextHeld
<1>4. \/ NextType = "TT_IDENT" /\ at = 2 /\ id' = n /\ live' = live /\ stray' = FALSE
      \/ NextType # "TT_IDENT" /\ at # 2 /\ live' = live \ {n} /\ stray' = FALSE /\ id' = id
  <2>1. Outline[at] = "TT_IDENT" <=> at = 2
    <3>1. at \in {1, 2, 3, 4, 5, 6, 7, 8, 9}
      BY <1>1
    <3> QED BY <3>1 DEF Outline
  <2> QED BY <1>1, <1>3, <2>1 DEF Expect, Free, PInv, Typed
<1>5. at = 2 => id = 0
  BY <1>1 DEF PInv, TokensApart
<1>6. n \notin Logical
  BY <1>2, <1>3 DEF Logical, TokensOf, NextType, NextToken
<1>7. Typed'
  BY <1>1, <1>3, <1>4, OutlineTokens DEF PInv, Typed, Modes, Places
<1>8. Located'
  BY <1>1, <1>3, OutlineTokens DEF PInv, Located, Running, Over, Failed, LexerDone
<1>9. FramesShaped'
  BY <1>1 DEF PInv, FramesShaped, FrameShaped
<1>10. NodesHeld'
  BY <1>1 DEF PInv, NodesHeld
<1>11. TokensApart'
  BY <1>1, <1>3, <1>4 DEF PInv, TokensApart, Places, Over, Pending, NextType, NextToken
<1>12. TokensHeld'
  <2>1. Buffered' = {} /\ Logical' = Logical /\ ~Failed' /\ Pending' = Pending
    BY <1>1, <1>3 DEF Buffered, Logical, TokensOf, Places, LexerDone, Failed, Pending
  <2>2. ~Failed /\ live = Logical \cup Pending \cup Identifier \cup {n}
        /\ \A k \in live : input[k] # "TT_EOF"
    BY <1>1, <1>3 DEF PInv, TokensHeld
  <2>3. Identifier' = IF at = 2 THEN {n} ELSE Identifier
    BY <1>4, <1>5, <1>3 DEF Identifier, Places
  <2>4. n \notin Pending /\ n \notin Identifier
    BY <1>3 DEF Identifier
  <2>5. live' = Logical \cup Pending \cup Identifier'
    <3>1. CASE at = 2
      <4>1. Identifier = {} /\ Identifier' = {n} /\ live' = live
        BY <1>4, <1>5, <2>3, <3>1 DEF Identifier
      <4> QED BY <2>2, <4>1
    <3>2. CASE at # 2
      <4>1. Identifier' = Identifier /\ live' = live \ {n}
        BY <1>4, <2>3, <3>2
      <4> QED BY <1>6, <2>2, <2>4, <4>1
    <3> QED BY <3>1, <3>2
  <2>6. live' \subseteq live /\ input' = input
    BY <1>1, <1>4
  <2> QED BY <2>1, <2>2, <2>5, <2>6 DEF TokensHeld
<1> QED BY <1>7, <1>8, <1>9, <1>10, <1>11, <1>12 DEF PInv

LEMMA ExpectFailsKeeps ==
  ASSUME PInv, ExpectFails
  PROVE  PInv'
<1>1. /\ mode = "expect" /\ mode' = "done" /\ at \in 1..9 /\ at # 7
      /\ buffer # <<>> /\ buffer' = Tail(buffer)
      /\ UNCHANGED <<input, stack, value, at>>
      /\ ~Failed /\ ~Over /\ result = "none" /\ result' = "err" /\ id' = 0
      /\ stack = <<>> /\ value = {} /\ expression' = {}
  BY OutlineTokens DEF PInv, Typed, Located, ExpectFails, LookNot, Peeking, Pop, Running, Failed, Over
<1>2. DOMAIN heap = expression
  BY <1>1, WholeHeld DEF PInv, NodesHeld
<1>3. heap' = Pruned(heap, expression) /\ DOMAIN heap' = {}
  BY <1>2 DEF ExpectFails, Without, Pruned
<1>4. Identifier \subseteq live
  BY DEF PInv, TokensApart, Identifier
<1>5. live' = live \ Identifier /\ stray' = FALSE
  BY <1>2, <1>4 DEF ExpectFails, Free, PInv, Typed
<1>6. Len(input) # id /\ buffer' = <<>> /\ Len(input) \notin Identifier
  BY <1>1, NextHeld DEF NextToken, Identifier
<1>7. ~LexerDone => Len(input) \in live
  BY <1>1, NextHeld DEF LexerDone, NextType, NextToken
<1>8. live \subseteq TokensOf(Operators) \cup Identifier \cup {Len(input)}
  BY <1>1, FailureHolds DEF Buffered
<1>9. Len(input) \in Nat \ {0}
  BY EmptySeq, LenProperties DEF PInv, Typed
<1>10. Typed'
  BY <1>1, <1>3, <1>5, <1>6 DEF PInv, Typed, Modes, Places
<1>11. Located'
  BY <1>1, <1>6 DEF PInv, Located, Running, Over, Failed, LexerDone
<1>12. FramesShaped'
  BY <1>1 DEF PInv, FramesShaped, FrameShaped
<1>13. NodesHeld'
  BY <1>1, <1>3, NothingHeld DEF NodesHeld
<1>14. TokensApart'
  BY <1>1, <1>3, <1>6 DEF PInv, TokensApart, Places, Over, Pending, OpsOf
<1>15. TokensHeld'
  BY <1>1, <1>5, <1>6, <1>7, <1>8, <1>9
     DEF PInv, TokensHeld, TokensOf, Places, Identifier, LexerDone, Failed
<1> QED BY <1>10, <1>11, <1>12, <1>13, <1>14, <1>15 DEF PInv

LEMMA ExpressionFailedKeeps ==
  ASSUME PInv, ExpressionFailed
  PROVE  PInv'
<1>1. /\ mode = "error" /\ mode' = "done"
      /\ buffer = <<>> /\ UNCHANGED <<input, buffer, heap, stack, value, at, expression>>
      /\ Failed /\ ~Over /\ result = "none" /\ result' = "err" /\ id' = 0
      /\ stack = <<>> /\ value = {} /\ expression = {}
  BY DEF PInv, Located, ExpressionFailed, Running, Failed, Over, treeVars
<1>2. Identifier \subseteq live
  BY DEF PInv, TokensApart, Identifier
<1>3. live' = live \ Identifier /\ stray' = FALSE
  BY <1>2 DEF ExpressionFailed, Free, PInv, Typed
<1>4. /\ Len(input) # id /\ Len(input) \notin Identifier
      /\ ~LexerDone => Len(input) \in live
      /\ live \subseteq TokensOf(Operators) \cup Identifier \cup {Len(input)}
  BY <1>1 DEF PInv, TokensHeld, Identifier
<1>5. Len(input) \in Nat \ {0}
  BY EmptySeq, LenProperties DEF PInv, Typed
<1>6. Typed'
  BY <1>1, <1>3 DEF PInv, Typed, Modes, Places
<1>7. Located'
  BY <1>1 DEF PInv, Located, Running, Over, Failed, LexerDone
<1>8. FramesShaped'
  BY <1>1 DEF PInv, FramesShaped, FrameShaped
<1>9. NodesHeld'
  BY <1>1 DEF PInv, NodesHeld
<1>10. TokensApart'
  BY <1>1 DEF PInv, TokensApart, Places, Over, Pending, OpsOf
<1>11. TokensHeld'
  BY <1>1, <1>3, <1>4, <1>5
     DEF PInv, TokensHeld, TokensOf, Places, Identifier, LexerDone, Failed
<1> QED BY <1>6, <1>7, <1>8, <1>9, <1>10, <1>11 DEF PInv

LEMMA FinishKeeps ==
  ASSUME PInv, Finish
  PROVE  PInv'
<1>1. /\ mode = "expect" /\ mode' = "done" /\ at > Len(Outline)
      /\ buffer = <<>> /\ UNCHANGED <<input, buffer, heap, stack, value, at, expression>>
      /\ ~Failed /\ ~Over /\ result = "none" /\ result' = "ok" /\ id' = 0
      /\ stack = <<>> /\ value = {}
  BY OutlineTokens DEF PInv, Located, Finish, Running, Failed, Over, treeVars
<1>2. id # 0 /\ id \in live /\ input[id] = "TT_IDENT"
  BY <1>1, OutlineTokens DEF PInv, TokensApart, Typed
<1>3. live' = live \ {id} /\ stray' = FALSE
  BY <1>2 DEF Finish, Free, PInv, Typed
<1>4. Typed'
  BY <1>1, <1>3 DEF PInv, Typed, Modes, Places
<1>5. Located'
  BY <1>1 DEF PInv, Located, Running, Over, Failed, LexerDone
<1>6. FramesShaped'
  BY <1>1 DEF PInv, FramesShaped, FrameShaped
<1>7. NodesHeld'
  BY <1>1 DEF PInv, NodesHeld
<1>8. TokensApart'
  BY <1>1 DEF PInv, TokensApart, Places, Over, Pending, OpsOf
<1>9. TokensHeld'
  <2>1. Buffered = {} /\ Buffered' = {} /\ Logical' = Logical /\ ~Failed' /\ Identifier' = {}
    BY <1>1 DEF Buffered, Logical, TokensOf, Places, LexerDone, Failed, Identifier
  <2>2. Pending = {} /\ Pending' = {} /\ Identifier = {id} /\ id \notin Logical
    BY <1>1, <1>2 DEF Pending, OpsOf, Identifier, Logical, TokensOf
  <2> QED BY <1>1, <1>3, <2>1, <2>2 DEF PInv, TokensHeld
<1> QED BY <1>4, <1>5, <1>6, <1>7, <1>8, <1>9 DEF PInv

LEMMA ParserFreeKeeps ==
  ASSUME PInv, ParserFree
  PROVE  PInv'
<1>1. /\ mode = "done" /\ mode' = "freed" /\ buffer = <<>> /\ buffer' = <<>>
      /\ UNCHANGED <<input, heap, stack, value, callVars>>
      /\ Over /\ result # "none" /\ stack = <<>> /\ value = {}
  BY DEF PInv, Located, ParserFree, Running, Failed, Over, treeVars
<1>2. {buffer[i] : i \in 1..Len(buffer)} = {}
  BY <1>1
<1>3. live' = live /\ stray' = FALSE
  BY <1>2 DEF ParserFree, Free, PInv, Typed
<1>4. Typed'
  BY <1>1, <1>3 DEF PInv, Typed, Modes, Places, callVars
<1>5. Located'
  BY <1>1 DEF PInv, Located, Running, Over, Failed, LexerDone, callVars
<1>6. FramesShaped'
  BY <1>1 DEF PInv, FramesShaped, FrameShaped
<1>7. NodesHeld'
  BY <1>1 DEF PInv, NodesHeld, callVars
<1>8. TokensApart'
  BY <1>1, <1>3 DEF PInv, TokensApart, Places, Over, Pending, OpsOf, callVars
<1>9. TokensHeld'
  BY <1>1, <1>3 DEF PInv, TokensHeld, TokensOf, Logical, Pending, OpsOf, Buffered, Places,
     Identifier, LexerDone, Failed, callVars
<1> QED BY <1>4, <1>5, <1>6, <1>7, <1>8, <1>9 DEF PInv

LEMMA ProgramFreeKeeps ==
  ASSUME PInv, ProgramFree
  PROVE  PInv'
<1>1. /\ mode = "freed" /\ expression' = {} /\ result = "ok"
      /\ UNCHANGED <<input, buffer, stack, mode, value, at, id, result>>
      /\ Over /\ stack = <<>> /\ value = {}
  BY DEF PInv, Located, ProgramFree, Running, Failed, Over
<1>2. DOMAIN heap = expression
  BY <1>1, WholeHeld DEF PInv, NodesHeld
<1>3. heap' = Pruned(heap, expression) /\ DOMAIN heap' = {} /\ live' = live /\ stray' = FALSE
  BY <1>2 DEF ProgramFree, Without, Pruned, Free, PInv, Typed
<1>4. Typed'
  BY <1>1, <1>3 DEF PInv, Typed, Modes, Places
<1>5. Located'
  BY <1>1 DEF PInv, Located, Running, Over, Failed, LexerDone
<1>6. FramesShaped'
  BY <1>1 DEF PInv, FramesShaped, FrameShaped
<1>7. NodesHeld'
  BY <1>1, <1>3, NothingHeld DEF NodesHeld
<1>8. TokensApart'
  BY <1>1, <1>3 DEF PInv, TokensApart, Places, Over, Pending, OpsOf
<1>9. TokensHeld'
  BY <1>1, <1>3 DEF PInv, TokensHeld, TokensOf, Logical, Pending, OpsOf, Buffered, Places,
     Identifier, LexerDone, Failed
<1> QED BY <1>4, <1>5, <1>6, <1>7, <1>8, <1>9 DEF PInv
----------------------------------------------------------------------------
(* The lexer hands over a token. *)

LEMMA LexKeeps ==
  ASSUME PInv, Lex
  PROVE  PInv'
<1> DEFINE n == Len(input) + 1
<1>1. /\ buffer = <<>> /\ buffer' = <<Len(input')>> /\ ~LexerDone
      /\ UNCHANGED <<heap, stack, value, mode, callVars, stray>>
      /\ ~Failed /\ ~Over /\ result = "none" /\ ~(at > Len(Outline))
  BY OutlineTokens DEF PInv, Typed, Located, Lex, Peeking, Running, Failed, Over, treeVars
<1>2. PICK t \in Tokens :
          /\ input' = Append(input, t)
          /\ live' = IF t = "TT_EOF" THEN live ELSE live \cup {Len(input')}
  BY TokensAssumption DEF Lex
<1>3. /\ input \in Seq(Tokens) /\ Len(input) \in Nat \ {0}
      /\ input' \in Seq(Tokens) /\ input' # <<>> /\ Len(input') = n
      /\ input'[n] = t /\ \A k \in Places : input'[k] = input[k]
  <2>1. input \in Seq(Tokens) /\ Len(input) \in Nat \ {0}
    BY EmptySeq, LenProperties DEF PInv, Typed
  <2> QED BY <1>2, <2>1, AppendProperties DEF Places
<1>4. Places' = Places \cup {n} /\ n \notin Places /\ n # 0
  BY <1>3 DEF Places
<1>5. LexerDone' <=> t = "TT_EOF"
  BY <1>3 DEF LexerDone
<1>6. Pending \subseteq Places /\ Pending' = Pending /\ Identifier' = Identifier
  BY <1>1 DEF PInv, TokensApart, Pending, OpsOf, Identifier, callVars
<1>7. /\ DOMAIN heap \subseteq Places /\ live \subseteq Places
      /\ id \in 0..Len(input) /\ id # n /\ (id # 0 => id \in Places)
  BY <1>3 DEF PInv, Typed, Places
<1>8. Typed'
  <2>1. \A k \in DOMAIN heap : heap[k].left \subseteq Places' /\ heap[k].right \subseteq Places'
    BY <1>4 DEF PInv, Typed
  <2>2. live' \subseteq Places' /\ id \in 0..Len(input')
    BY <1>2, <1>3, <1>4, <1>7
  <2> QED BY <1>1, <1>3, <1>4, <1>7, <2>1, <2>2 DEF PInv, Typed, callVars
<1>9. Located'
  <2>1. buffer' # <<>>
    BY <1>1
  <2>2. ~Over' /\ ~Failed' /\ Top' = Top
    BY <1>1 DEF Over, Failed, Top, callVars
  <2> QED BY <1>1, <2>1, <2>2 DEF PInv, Located, Running, Over, callVars
<1>10. FramesShaped'
  <2>1. ASSUME NEW i \in 1..Len(stack) PROVE FrameShaped(i)'
    <3>1. stack[i].op # 0 => stack[i].op \in Places
      BY <1>6 DEF Pending, OpsOf
    <3>2. stack[i].op # 0 => input'[stack[i].op] = input[stack[i].op]
      BY <1>3, <3>1
    <3> QED BY <1>1, <3>2 DEF PInv, FramesShaped, FrameShaped
  <2> QED BY <1>1, <2>1 DEF FramesShaped
<1>11. NodesHeld'
  BY <1>1 DEF PInv, NodesHeld, callVars
<1>12. TokensApart'
  <2>1. n \notin DOMAIN heap \cup Pending \cup {id}
    BY <1>4, <1>6, <1>7
  <2>2. id # 0 => id \in live' /\ input'[id] = "TT_IDENT"
    BY <1>2, <1>3, <1>7 DEF PInv, TokensApart
  <2> QED BY <1>1, <1>3, <1>4, <1>6, <2>1, <2>2 DEF PInv, TokensApart, Over, callVars
<1>13. TokensHeld'
  <2>1. \A k \in live' : input'[k] # "TT_EOF"
    BY <1>2, <1>3, <1>7 DEF PInv, TokensHeld
  <2>2. Buffered = {} /\ Buffered' = IF t = "TT_EOF" THEN {} ELSE {n}
    BY <1>1, <1>3, <1>5 DEF Buffered
  <2>3. Logical' \ {n} = Logical
    BY <1>3, <1>4 DEF Logical, TokensOf
  <2>4. n \in Logical' => t # "TT_EOF"
    BY <1>3 DEF Logical, TokensOf
  <2>5. ~Failed'
    BY <1>1 DEF Failed, callVars
  <2>6. live = Logical \cup Pending \cup Identifier
    BY <1>1, <2>2 DEF PInv, TokensHeld
  <2>7. live' = Logical' \cup Pending' \cup Identifier' \cup Buffered'
    BY <1>2, <1>3, <1>6, <2>2, <2>3, <2>4, <2>6
  <2> QED BY <2>1, <2>5, <2>7 DEF TokensHeld
<1> QED BY <1>8, <1>9, <1>10, <1>11, <1>12, <1>13 DEF PInv
----------------------------------------------------------------------------
(* The whole parser. *)

LEMMA InitHolds == Init => PInv
<1> SUFFICES ASSUME Init PROVE PInv
  OBVIOUS
<1>1. PICK t \in Tokens : input = <<t>> /\ live = IF t = "TT_EOF" THEN {} ELSE {1}
  BY DEF Init
<1>2. input \in Seq(Tokens) /\ Len(input) = 1 /\ input[1] = t /\ input # <<>>
  BY <1>1
<1>3. /\ buffer = <<1>> /\ DOMAIN heap = {} /\ heap = [n \in {} |-> n]
      /\ stack = <<>> /\ Len(stack) = 0 /\ mode = "expect" /\ value = {}
      /\ at = 1 /\ id = 0 /\ expression = {} /\ result = "none" /\ stray = FALSE
  BY DEF Init
<1>4. Places = {1} /\ Pending = {}
  BY <1>2, <1>3 DEF Places, Pending, OpsOf
<1>5. Typed
  <2>1. stack \in Seq(Calls) /\ heap \in [DOMAIN heap -> Nodes]
    BY <1>3
  <2> QED BY <1>1, <1>2, <1>3, <1>4, <2>1, OutlineTokens DEF Typed, Modes
<1>6. Located
  BY <1>2, <1>3, OutlineTokens DEF Located, Running, Over, Failed
<1>7. FramesShaped
  BY <1>3 DEF FramesShaped
<1>8. NodesHeld
  BY <1>3, NothingHeld DEF NodesHeld
<1>9. TokensApart
  BY <1>2, <1>3, <1>4 DEF TokensApart, Apart, Over
<1>10. TokensHeld
  <2>1. LexerDone <=> t = "TT_EOF"
    BY <1>2 DEF LexerDone
  <2>2. Buffered = live /\ Identifier = {} /\ Logical \subseteq live /\ ~Failed
    BY <1>1, <1>2, <1>3, <1>4, <2>1 DEF Buffered, Identifier, Logical, TokensOf, Failed
  <2> QED BY <1>1, <1>2, <1>4, <2>2 DEF TokensHeld
<1> QED BY <1>5, <1>6, <1>7, <1>8, <1>9, <1>10 DEF PInv

LEMMA StepHolds == PInv /\ [Next]_vars => PInv'
<1> SUFFICES ASSUME PInv, [Next]_vars PROVE PInv'
  OBVIOUS
<1>1. CASE UNCHANGED vars
  BY <1>1 DEF vars, treeVars, callVars, PInv, Typed, Located, FramesShaped, FrameShaped, NodesHeld,
     TokensApart, TokensHeld, Places, Over, Failed, Top, LexerDone, Pending, Buffered, Logical,
     TokensOf, Identifier
<1>2. CASE Lex
  BY <1>2, LexKeeps
<1>3. CASE Function
  BY <1>3, ExpectKeeps, ExpectFailsKeeps, CallExpressionKeeps, ExpressionReturnedKeeps,
     ExpressionFailedKeeps, FinishKeeps DEF Function
<1>4. CASE Primary
  BY <1>4, UnaryOperatorKeeps, OpenParenKeeps, NumberKeeps, UnexpectedKeeps, NegateKeeps,
     CloseParenKeeps, CloseParenFailsKeeps DEF Primary
<1>5. CASE Binary
  BY <1>5, FirstOperandKeeps, MatchOperatorKeeps, RightOperandKeeps, LeaveLevelKeeps, UnwindKeeps
     DEF Binary
<1>6. CASE ParserFree \/ ProgramFree
  BY <1>6, ParserFreeKeeps, ProgramFreeKeeps
<1>7. Terminating => UNCHANGED vars
  BY DEF Terminating
<1> QED BY <1>1, <1>2, <1>3, <1>4, <1>5, <1>6, <1>7 DEF Next

LEMMA ParserInvariant == Spec => []PInv
BY InitHolds, StepHolds, PTL DEF Spec

(* The variables have their types, the nodes and the calls among them.     *)
THEOREM ParserTypeOK == Spec => []TypeOK
<1>1. PInv => TypeOK
  <2> SUFFICES ASSUME PInv PROVE TypeOK
    OBVIOUS
  <2>1. /\ value \subseteq Places /\ expression \subseteq Places
        /\ \A i \in 1..Len(stack) : stack[i].left \subseteq Places
    BY DEF PInv, Typed, NodesHeld, Holding
  <2>2. \A n \in DOMAIN heap : /\ DOMAIN heap[n] = {"left", "right"}
                               /\ heap[n].left \subseteq Places /\ heap[n].right \subseteq Places
    BY DEF PInv, Typed, Nodes
  <2>3. ASSUME NEW i \in 1..Len(stack)
        PROVE  stack[i].op \in 0..Len(input) /\ stack[i].fn \in {"level", "unary", "paren"}
    <3>1. stack[i] \in Calls
      BY ElementOfSeq DEF PInv, Typed
    <3>2. stack[i].op = 0 \/ stack[i].op \in Places
      BY DEF PInv, TokensApart, Pending, OpsOf
    <3>3. Len(input) \in Nat
      BY LenProperties DEF PInv, Typed
    <3> QED BY <3>1, <3>2, <3>3 DEF Calls, Places
  <2> QED BY <2>1, <2>2, <2>3 DEF PInv, Typed, TypeOK, Modes
<1> QED BY <1>1, ParserInvariant, PTL

(* peek never finds nothing: an "Unexpected end of file" cannot happen.    *)
THEOREM ParserIsFed == Spec => []NeverStarved
<1>1. PInv => NeverStarved
  BY OutlineTokens DEF PInv, Typed, Located, NeverStarved, Peeking, Over, Running
<1> QED BY <1>1, ParserInvariant, PTL

(* No expression and no token is lost or freed twice, on any way out; what *)
(* leaks is what TokenLeaks names and nothing else.                        *)
THEOREM ParserMemory == Spec => []MemoryAccounted
<1>1. PInv => HeapAccounted
  <2> SUFFICES ASSUME PInv PROVE HeapAccounted
    OBVIOUS
  <2> DEFINE L == [i \in 1..Len(stack) |-> stack[i].left]
  <2>1. Len(stack) \in Nat /\ L \in Seq(SUBSET Nat) /\ Len(L) = Len(stack)
        /\ \A i \in 1..Len(stack) : L[i] = stack[i].left
    <3>1. Len(stack) \in Nat /\ \A i \in 1..Len(stack) : stack[i] \in Calls
      BY LenProperties, ElementOfSeq DEF PInv, Typed
    <3>2. \A i \in 1..Len(stack) : stack[i].left \in SUBSET Nat
      BY <3>1 DEF Calls
    <3> QED BY <3>1, <3>2
  <2>2. /\ Len(Trees) = Len(stack) + 2 /\ Trees[1] = expression /\ Trees[2] = value
        /\ \A i \in 1..Len(stack) : Trees[i + 2] = stack[i].left
    <3>1. <<expression, value>> \in Seq(SUBSET Nat)
      <4>1. expression \in SUBSET Nat /\ value \in SUBSET Nat
        BY DEF PInv, Typed, NodesHeld, Holding, Places
      <4> QED BY <4>1
    <3>2. Len(<<expression, value>>) = 2 /\ <<expression, value>>[1] = expression
          /\ <<expression, value>>[2] = value
      OBVIOUS
    <3> HIDE DEF L
    <3>3. /\ Len(<<expression, value>> \o L) = 2 + Len(stack)
          /\ \A i \in 1..(2 + Len(stack)) :
                 (<<expression, value>> \o L)[i] = IF i <= 2 THEN <<expression, value>>[i] ELSE L[i - 2]
      BY <2>1, <3>1, <3>2, ConcatProperties
    <3>4. Trees = <<expression, value>> \o L
      BY DEF Trees, L
    <3>5. \A i \in 1..Len(stack) : i + 2 \in 1..(2 + Len(stack)) /\ ~(i + 2 <= 2) /\ i + 2 - 2 = i
      BY <2>1
    <3> QED BY <2>1, <3>2, <3>3, <3>4, <3>5
  <2>3. \A i \in 1..Len(Trees) : i = 1 \/ i = 2 \/ (i - 2 \in 1..Len(stack) /\ Trees[i] = stack[i - 2].left)
    BY <2>1, <2>2
  <2>4. \A i \in 1..Len(stack) : i + 2 \in 1..Len(Trees)
    BY <2>1, <2>2
  <2> DEFINE held == {i \in 1..Len(Trees) : Trees[i] # {}}
  <2>5. DOMAIN heap = UNION {Trees[i] : i \in held}
    <3>1. \A i \in 1..Len(Trees) : Trees[i] \subseteq DOMAIN heap
      BY <2>2, <2>3 DEF PInv, NodesHeld, Holding
    <3>2. ASSUME NEW n \in DOMAIN heap PROVE \E i \in held : n \in Trees[i]
      <4>1. 1 \in 1..Len(Trees) /\ 2 \in 1..Len(Trees)
        BY <2>1, <2>2
      <4>2. n \in value \/ n \in expression \/ \E i \in 1..Len(stack) : n \in stack[i].left
        BY DEF PInv, NodesHeld, Holding
      <4>3. CASE n \in value
        BY <2>2, <4>1, <4>3
      <4>4. CASE n \in expression
        BY <2>2, <4>1, <4>4
      <4>5. CASE \E i \in 1..Len(stack) : n \in stack[i].left
        <5>1. PICK i \in 1..Len(stack) : n \in stack[i].left
          BY <4>5
        <5>2. i + 2 \in 1..Len(Trees) /\ Trees[i + 2] = stack[i].left
          BY <2>2, <2>4
        <5> QED BY <5>1, <5>2
      <4> QED BY <4>2, <4>3, <4>4, <4>5
    <3> QED BY <3>1, <3>2
  <2>6. \A i, j \in held : i # j => Trees[i] \cap Trees[j] = {}
    <3>1. expression # {} => value = {} /\ Len(stack) = 0
      BY DEF PInv, Located
    <3>2. \A i \in 1..Len(stack) : stack[i].left \cap value = {}
      BY DEF PInv, NodesHeld, Holding
    <3>3. \A i, j \in 1..Len(stack) : i # j => stack[i].left \cap stack[j].left = {}
      BY DEF PInv, NodesHeld, Holding
    <3>4. \A i, j \in 1..Len(Trees) : i - 2 \in 1..Len(stack) /\ j - 2 \in 1..Len(stack) /\ i # j
              => i - 2 # j - 2
      OBVIOUS
    <3>5. \A i, j \in 1..Len(Trees) : i # j /\ i - 2 \in 1..Len(stack) /\ j - 2 \in 1..Len(stack)
              => Trees[i] \cap Trees[j] = {}
      <4> SUFFICES ASSUME NEW i \in 1..Len(Trees), NEW j \in 1..Len(Trees), i # j,
                          i - 2 \in 1..Len(stack), j - 2 \in 1..Len(stack)
                   PROVE  Trees[i] \cap Trees[j] = {}
        OBVIOUS
      <4>1. i - 2 # j - 2
        BY <3>4
      <4>2. Trees[i] = stack[i - 2].left /\ Trees[j] = stack[j - 2].left
        BY <2>1, <2>3
      <4> QED BY <3>3, <4>1, <4>2
    <3>6. \A i \in 1..Len(Trees) : i - 2 \in 1..Len(stack) => Trees[i] \cap value = {}
      BY <2>3, <3>2
    <3>7. ASSUME NEW i \in held PROVE Trees[1] # {} => i = 1
      BY <2>1, <2>2, <2>3, <3>1
    <3>8. ASSUME NEW i \in held, NEW j \in held, i # j PROVE Trees[i] \cap Trees[j] = {}
      <4>1. i # 1 /\ j # 1
        BY <3>7, <3>8
      <4>2. CASE i = 2
        BY <2>2, <2>3, <3>6, <3>8, <4>1, <4>2
      <4>3. CASE j = 2
        BY <2>2, <2>3, <3>6, <3>8, <4>1, <4>3
      <4>4. CASE i # 2 /\ j # 2
        BY <2>3, <3>5, <3>8, <4>1, <4>4
      <4> QED BY <4>2, <4>3, <4>4
    <3> QED BY <3>8
  <2>7. \A i \in held : IsTree(Trees[i])
    <3>1. \A i \in 1..Len(Trees) : TreeIn(heap, Trees[i])
      BY <2>2, <2>3 DEF PInv, NodesHeld, Holding
    <3> QED BY <3>1 DEF TreeIn, IsTree
  <2>8. Released \/ result = "err" => held = {}
    <3>1. ASSUME Released \/ result = "err" PROVE expression = {} /\ value = {} /\ Len(stack) = 0
      BY <3>1 DEF PInv, Located, Released, Over, Running
    <3> QED BY <2>1, <2>2, <2>3, <3>1
  <2> QED BY <2>5, <2>6, <2>7, <2>8 DEF HeapAccounted
<1>2. PInv => NoStrayFree
  BY DEF PInv, Typed, NoStrayFree
<1>3. PInv => TokenLeaks
  <2> SUFFICES ASSUME PInv, mode = "freed" PROVE
        IF result = "ok" THEN live = Logical
        ELSE /\ TokensOf(Tokens \ {"TT_EOF"}) \cap {Len(input)} \subseteq live
             /\ live \subseteq TokensOf(Operators) \cup {Len(input)}
    BY DEF TokenLeaks, Logical
  <2>1. /\ result \in {"ok", "err"} /\ stack = <<>> /\ buffer = <<>> /\ id = 0
    BY DEF PInv, Typed, Located, Over, Running, TokensApart
  <2>2. Pending = {} /\ Identifier = {} /\ Buffered = {}
    BY <2>1 DEF Pending, OpsOf, Identifier, Buffered
  <2>3. CASE result = "ok"
    BY <2>2, <2>3 DEF PInv, TokensHeld, Failed
  <2>4. CASE result = "err"
    <3>1. Failed
      BY <2>4 DEF Failed
    <3> QED BY <2>2, <2>4, <3>1 DEF PInv, TokensHeld, TokensOf, LexerDone
  <2> QED BY <2>1, <2>3, <2>4
<1> QED BY <1>1, <1>2, <1>3, ParserInvariant, PTL DEF MemoryAccounted
----------------------------------------------------------------------------
(* The grammar. *)

(* Induction: a set of numbers that is not empty has a least one.          *)
LEMMA LeastNumber ==
  ASSUME NEW T \in SUBSET Nat, T # {}
  PROVE  \E n \in T : \A m \in T : n <= m
<1> DEFINE R == {ss \in Nat \X Nat : ss[1] < ss[2]}
<1>1. IsWellFoundedOn(R, Nat)
  BY NatLessThanWellFounded DEF OpToRel
<1> HIDE DEF R
<1>2. PICK n \in T : \A m \in T : ~(<<m, n>> \in R)
  BY <1>1, WFMin
<1>3. \A m \in T : ~(m < n)
  BY <1>2 DEF R
<1> QED BY <1>3

(* The automaton that reads the grammar, as a function of a text.          *)
IsReading(f, k, tokens) ==
  f = [n \in 0..k |-> IF n = 0 THEN <<1, TRUE, 0>> ELSE Reads(f[n - 1], tokens[n])]

LEMMA ReadingExists ==
  ASSUME NEW k \in Nat, NEW tokens
  PROVE  \E f : IsReading(f, k, tokens)
<1> DEFINE T == {n \in Nat : ~\E f : IsReading(f, n, tokens)}
<1> SUFFICES ASSUME T # {} PROVE FALSE
  OBVIOUS
<1>1. PICK n \in T : \A m \in T : n <= m
  BY LeastNumber
<1>2. n \in Nat
  OBVIOUS
<1>3. CASE n = 0
  <2> DEFINE f == [m \in 0..n |-> <<1, TRUE, 0>>]
  <2>1. \A m \in 0..n : m = 0
    BY <1>3
  <2>2. f = [m \in 0..n |-> IF m = 0 THEN <<1, TRUE, 0>> ELSE Reads(f[m - 1], tokens[m])]
    BY <2>1
  <2> HIDE DEF f
  <2> QED BY <2>2 DEF IsReading
<1>4. CASE n > 0
  <2>1. n - 1 \in Nat /\ n - 1 \notin T
    BY <1>1, <1>2, <1>4
  <2>2. PICK h : IsReading(h, n - 1, tokens)
    BY <2>1
  <2> DEFINE f == [m \in 0..n |-> IF m = n THEN Reads(h[n - 1], tokens[n]) ELSE h[m]]
             g == [m \in 0..n |-> IF m = 0 THEN <<1, TRUE, 0>> ELSE Reads(f[m - 1], tokens[m])]
  <2>3. ASSUME NEW m \in 0..n
        PROVE  f[m] = IF m = 0 THEN <<1, TRUE, 0>> ELSE Reads(f[m - 1], tokens[m])
    <3>1. CASE m = n
      <4>1. m - 1 \in 0..n /\ m - 1 # n /\ m # 0
        BY <1>2, <1>4, <3>1
      <4>2. f[m - 1] = h[n - 1]
        BY <4>1, <3>1
      <4>3. f[m] = Reads(h[n - 1], tokens[n])
        BY <3>1
      <4> HIDE DEF f
      <4> QED BY <4>1, <4>2, <4>3, <3>1, Zenon
    <3>2. CASE m # n
      <4>1. m \in 0..(n - 1) /\ f[m] = h[m]
        BY <1>2, <3>2
      <4>2. h[m] = IF m = 0 THEN <<1, TRUE, 0>> ELSE Reads(h[m - 1], tokens[m])
        BY <2>2, <4>1 DEF IsReading
      <4>3. m # 0 => m - 1 \in 0..n /\ m - 1 # n
        BY <1>2
      <4>4. m # 0 => f[m - 1] = h[m - 1]
        BY <4>3
      <4> HIDE DEF f
      <4> QED BY <4>1, <4>2, <4>4, Zenon
    <3> QED BY <3>1, <3>2
  <2>4. f = g
    <3>1. f = [m \in 0..n |-> f[m]]
      BY Zenon
    <3> HIDE DEF f
    <3> QED BY <2>3, <3>1
  <2> HIDE DEF f
  <2> QED BY <2>4 DEF IsReading
<1> QED BY <1>2, <1>3, <1>4

(* It reads the tokens it is past, whatever the others.                    *)
LEMMA ReadingUnique ==
  ASSUME NEW k \in Nat, NEW f, NEW g, NEW a \in Nat, NEW b \in Nat, NEW s, NEW t,
         IsReading(f, a, s), IsReading(g, b, t), k <= a, k <= b,
         \A i \in 1..k : s[i] = t[i]
  PROVE  f[k] = g[k]
<1> DEFINE T == {n \in Nat : n <= k /\ f[n] # g[n]}
<1> SUFFICES ASSUME T # {} PROVE FALSE
  OBVIOUS
<1>1. PICK n \in T : \A m \in T : n <= m
  BY LeastNumber
<1>2. n \in Nat /\ n <= k /\ f[n] # g[n] /\ n \in 0..a /\ n \in 0..b
  OBVIOUS
<1>3. /\ f[n] = IF n = 0 THEN <<1, TRUE, 0>> ELSE Reads(f[n - 1], s[n])
      /\ g[n] = IF n = 0 THEN <<1, TRUE, 0>> ELSE Reads(g[n - 1], t[n])
  BY <1>2 DEF IsReading
<1>4. n # 0
  BY <1>2, <1>3
<1>5. n - 1 \in Nat /\ n - 1 <= k /\ n - 1 \notin T /\ n \in 1..k
  BY <1>1, <1>2, <1>4
<1>6. f[n - 1] = g[n - 1] /\ s[n] = t[n]
  BY <1>5
<1> QED BY <1>2, <1>3, <1>4, <1>6

LEMMA StateIs ==
  ASSUME NEW k \in Nat
  PROVE  \E f : IsReading(f, k, input) /\ StateAfter(k) = f[k]
<1> DEFINE f == CHOOSE g : IsReading(g, k, input)
<1>1. IsReading(f, k, input)
  BY ReadingExists, Zenon
<1>2. StateAfter(k) = f[k]
  BY Zenon DEF StateAfter, IsReading
<1> QED BY <1>1, <1>2

LEMMA StateSteps ==
  /\ StateAfter(0) = <<1, TRUE, 0>>
  /\ \A k \in Nat : StateAfter(k + 1) = Reads(StateAfter(k), input[k + 1])
<1>1. StateAfter(0) = <<1, TRUE, 0>>
  <2>1. PICK f : IsReading(f, 0, input) /\ StateAfter(0) = f[0]
    BY StateIs
  <2>2. 0 \in 0..0
    OBVIOUS
  <2> QED BY <2>1, <2>2 DEF IsReading
<1>2. ASSUME NEW k \in Nat PROVE StateAfter(k + 1) = Reads(StateAfter(k), input[k + 1])
  <2>1. PICK f : IsReading(f, k, input) /\ StateAfter(k) = f[k]
    BY StateIs
  <2>2. PICK g : IsReading(g, k + 1, input) /\ StateAfter(k + 1) = g[k + 1]
    BY StateIs
  <2>3. f[k] = g[k]
    BY <2>1, <2>2, ReadingUnique
  <2>4. k + 1 \in 0..(k + 1) /\ k + 1 # 0 /\ (k + 1) - 1 = k
    OBVIOUS
  <2>5. g[k + 1] = Reads(g[(k + 1) - 1], input[k + 1])
    BY <2>2, <2>4 DEF IsReading
  <2> QED BY <2>1, <2>2, <2>3, <2>4, <2>5
<1> QED BY <1>1, <1>2

(* Its state is the same when a token is added behind.                     *)
LEMMA StateStays ==
  ASSUME NEW k \in Nat, \A i \in 1..k : input'[i] = input[i]
  PROVE  StateAfter(k)' = StateAfter(k)
<1>1. PICK f : IsReading(f, k, input) /\ StateAfter(k) = f[k]
  BY StateIs
<1> DEFINE g == CHOOSE h : IsReading(h, k, input')
<1>2. IsReading(g, k, input')
  BY ReadingExists, Zenon
<1>3. StateAfter(k)' = g[k]
  BY Zenon DEF StateAfter, IsReading
<1> HIDE DEF g
<1>4. f[k] = g[k]
  BY <1>1, <1>2, ReadingUnique
<1> QED BY <1>1, <1>3, <1>4

(* What it does of the tokens of a program.                                *)
LEMMA OutlineRead ==
  ASSUME NEW place \in 1..9, place # 7, NEW due, NEW depth, NEW t
  PROVE  /\ <<place, due, depth>> # Dead
         /\ t = Outline[place] => Reads(<<place, due, depth>>, t) = <<place + 1, TRUE, 0>>
         /\ t # Outline[place] => Reads(<<place, due, depth>>, t) = Dead
<1>1. <<place, due, depth>> # Dead
  BY DEF Dead
<1> DEFINE state == <<place, due, depth>>
<1>2. state[1] = place /\ state[2] = due /\ state[3] = depth /\ state # Dead
  BY <1>1
<1> HIDE DEF state
<1>3. Reads(state, t) = IF t = Outline[place] THEN <<place + 1, TRUE, 0>> ELSE Dead
  BY <1>2, OutlineTokens DEF Reads
<1> QED BY <1>1, <1>3 DEF state

LEMMA OperandRead ==
  ASSUME NEW depth, NEW t
  PROVE  /\ <<7, TRUE, depth>> # Dead
         /\ t \in UnaryOps => Reads(<<7, TRUE, depth>>, t) = <<7, TRUE, depth>>
         /\ t = "TT_LPAREN" => Reads(<<7, TRUE, depth>>, t) = <<7, TRUE, depth + 1>>
         /\ t = "TT_NUM" => Reads(<<7, TRUE, depth>>, t) = <<7, FALSE, depth>>
         /\ t \notin UnaryOps \cup {"TT_LPAREN", "TT_NUM"} => Reads(<<7, TRUE, depth>>, t) = Dead
<1>1. <<7, TRUE, depth>> # Dead
  BY DEF Dead
<1> QED BY <1>1 DEF Reads, UnaryOps

LEMMA OperatorTokens ==
  /\ Operators \ {"TT_TILDE", "TT_BANG"} = UNION {Levels[k] : k \in 1..Deepest}
  /\ {"TT_RPAREN", "TT_SEMI", "TT_NUM", "TT_LPAREN"} \cap Operators = {}
<1>1. Operators = UnaryOps \cup (UNION {Levels[k] : k \in 1..Deepest})
  BY DEF Operators
<1> DEFINE Binaries == UNION {Levels[k] : k \in 1..Deepest}
           Out == {"TT_RPAREN", "TT_SEMI", "TT_NUM", "TT_LPAREN", "TT_TILDE", "TT_BANG"}
<1>2. \A k \in 1..Deepest : Levels[k] \cap Out = {}
  <2> DEFINE P(n) == Levels[n] \cap Out = {}
  <2>1. P(1) /\ P(2) /\ P(3) /\ P(4) /\ P(5) /\ P(6)
    BY DEF Levels
  <2>2. P(7) /\ P(8) /\ P(9) /\ P(10)
    BY DEF Levels
  <2>3. \A k \in 1..Deepest : k \in {1, 2, 3, 4, 5, 6, 7, 8, 9, 10}
    BY DEF Deepest
  <2> QED BY <2>1, <2>2, <2>3
<1>3. "TT_MINUS" \in Binaries
  <2>1. "TT_MINUS" \in Levels[9] /\ 9 \in 1..Deepest
    BY DEF Levels, Deepest
  <2> QED BY <2>1
<1>4. Binaries \cap Out = {}
  BY <1>2
<1> HIDE DEF Binaries
<1>5. Operators = UnaryOps \cup Binaries
  BY <1>1 DEF Binaries
<1>6. Operators \ {"TT_TILDE", "TT_BANG"} = Binaries
  BY <1>3, <1>4, <1>5 DEF UnaryOps
<1>7. {"TT_RPAREN", "TT_SEMI", "TT_NUM", "TT_LPAREN"} \cap Operators = {}
  BY <1>4, <1>5 DEF UnaryOps
<1> QED BY <1>6, <1>7 DEF Binaries

Infix == UNION {Levels[k] : k \in 1..Deepest}
LEMMA BehindRead ==
  ASSUME NEW depth \in Nat, NEW t
  PROVE  /\ <<7, FALSE, depth>> # Dead
         /\ t \in Infix => Reads(<<7, FALSE, depth>>, t) = <<7, TRUE, depth>>
         /\ t = "TT_RPAREN" /\ depth > 0 => Reads(<<7, FALSE, depth>>, t) = <<7, FALSE, depth - 1>>
         /\ t = "TT_SEMI" /\ depth = 0 => Reads(<<7, FALSE, depth>>, t) = <<9, TRUE, 0>>
         /\ t \notin Infix /\ t # "TT_RPAREN" /\ depth > 0 => Reads(<<7, FALSE, depth>>, t) = Dead
         /\ t \notin Infix /\ t # "TT_SEMI" /\ depth = 0 => Reads(<<7, FALSE, depth>>, t) = Dead
<1>1. <<7, FALSE, depth>> # Dead
  BY DEF Dead
<1>2. Infix = Operators \ {"TT_TILDE", "TT_BANG"} /\ "TT_RPAREN" \notin Infix /\ "TT_SEMI" \notin Infix
  BY OperatorTokens DEF Infix
<1>3. Reads(<<7, FALSE, depth>>, t) =
        CASE t = "TT_RPAREN" /\ depth > 0 -> <<7, FALSE, depth - 1>>
          [] t = "TT_SEMI" /\ depth = 0 -> <<9, TRUE, 0>>
          [] t \in Infix -> <<7, TRUE, depth>>
          [] OTHER -> Dead
  BY <1>1, <1>2 DEF Reads
<1> DEFINE read == Reads(<<7, FALSE, depth>>, t)
<1> HIDE DEF read
<1>4. t \in Infix => read = <<7, TRUE, depth>>
  BY <1>2, <1>3 DEF read
<1>5. t = "TT_RPAREN" /\ depth > 0 => read = <<7, FALSE, depth - 1>>
  BY <1>2, <1>3 DEF read
<1>6. t = "TT_SEMI" /\ depth = 0 => read = <<9, TRUE, 0>>
  BY <1>2, <1>3 DEF read
<1>7. t \notin Infix /\ t # "TT_RPAREN" /\ depth > 0 => read = Dead
  BY <1>2, <1>3 DEF read
<1>8. t \notin Infix /\ t # "TT_SEMI" /\ depth = 0 => read = Dead
  BY <1>2, <1>3 DEF read
<1> QED BY <1>1, <1>4, <1>5, <1>6, <1>7, <1>8 DEF read
----------------------------------------------------------------------------
(* How the functions that run called each other: the ten of the operators  *)
(* in turn, then those of the operands, a parenthesis starting over.       *)
Innermost(call) == call.fn = "unary" \/ (call.fn = "level" /\ call.level = Deepest)
Calling(frames, i) ==
  /\ frames[i].fn = "level" /\ frames[i].level = 1 => i = 1 \/ frames[i - 1].fn = "paren"
  /\ frames[i].fn = "level" /\ frames[i].level # 1 =>
         i > 1 /\ frames[i - 1].fn = "level" /\ frames[i - 1].level = frames[i].level - 1
  /\ frames[i].fn # "level" => i > 1 /\ Innermost(frames[i - 1])
Linked(frames) == \A i \in 1..Len(frames) : Calling(frames, i)

(* The operators below a level have all been looked for when the function  *)
(* of the level goes on: the next token is none of them.                   *)
Deeper(level) == UNION {Levels[k] : k \in (level + 1)..Deepest}
Returned == mode = "expect" /\ ((at = 7 /\ value # {}) \/ at = 8)
LookedAhead ==
  /\ mode = "unary" => stack # <<>> /\ Innermost(Top)
  /\ mode \in {"operand", "loop"} /\ Top.level # Deepest => buffer # <<>> /\ NextType \notin Deeper(Top.level)
  /\ mode = "close" \/ Returned => buffer # <<>> /\ NextType \notin Infix
  /\ mode \in {"negate", "operand", "close"} => value # {}
  /\ mode = "loop" => Top.left # {}

(* The state of the grammar's automaton after the tokens consumed.         *)
Parens(frames) == Cardinality({i \in 1..Len(frames) : frames[i].fn = "paren"})
Eaten == Len(input) - Len(buffer)
Read ==
  /\ mode = "expect" /\ at \notin {7, 8} => StateAfter(Eaten) = <<at, TRUE, 0>>
  /\ mode = "expect" /\ at = 7 /\ value = {} => StateAfter(Eaten) = <<7, TRUE, 0>>
  /\ Returned => StateAfter(Eaten) = <<7, FALSE, 0>>
  /\ mode = "unary" => StateAfter(Eaten) = <<7, TRUE, Parens(stack)>>
  /\ mode \in {"negate", "operand", "loop", "close"} => StateAfter(Eaten) = <<7, FALSE, Parens(stack)>>
  /\ Failed => StateAfter(Len(input)) = Dead /\ StateAfter(Len(input) - 1) # Dead
  /\ result = "ok" => StateAfter(Len(input))[1] = Len(Outline) + 1

GInv == PInv /\ Linked(stack) /\ LookedAhead /\ Read
----------------------------------------------------------------------------
(* The tokens consumed, as they grow. *)

LEMMA Consumed ==
  ASSUME PInv, buffer # <<>>, Pop
  PROVE  /\ Eaten = Len(input) - 1 /\ Eaten \in Nat /\ Eaten' = Len(input) /\ Len(input) \in Nat \ {0}
         /\ buffer' = <<>> /\ input' = input
         /\ StateAfter(Eaten)' = Reads(StateAfter(Eaten), NextType)
         /\ StateAfter(Len(input))' = StateAfter(Eaten)'
         /\ StateAfter(Len(input) - 1)' = StateAfter(Eaten)
<1>1. /\ NextToken = Len(input) /\ Len(input) \in Nat \ {0} /\ Tail(buffer) = <<>>
  BY NextHeld
<1>2. buffer = <<Len(input)>> /\ buffer' = <<>> /\ input' = input
  BY <1>1 DEF PInv, Typed, Pop
<1>3. Len(buffer) = 1 /\ Len(buffer') = 0
  BY <1>2
<1>4. Eaten = Len(input) - 1 /\ Eaten \in Nat /\ Eaten' = Len(input) /\ Eaten + 1 = Len(input)
  BY <1>1, <1>2, <1>3 DEF Eaten
<1>5. \A k \in Nat : StateAfter(k)' = StateAfter(k)
  BY <1>2, StateStays
<1>6. StateAfter(Eaten + 1) = Reads(StateAfter(Eaten), input[Eaten + 1])
  BY <1>4, StateSteps
<1>7. StateAfter(Len(input)) = Reads(StateAfter(Eaten), NextType)
  BY <1>4, <1>6 DEF NextType, NextToken
<1>8. StateAfter(Len(input))' = StateAfter(Len(input)) /\ StateAfter(Eaten)' = StateAfter(Len(input))
  BY <1>2, <1>4, <1>5
<1>9. StateAfter(Len(input) - 1)' = StateAfter(Eaten)
  BY <1>2, <1>4, <1>5
<1> QED BY <1>1, <1>2, <1>4, <1>7, <1>8, <1>9

LEMMA NothingConsumed ==
  ASSUME PInv, UNCHANGED <<input, buffer>>
  PROVE  /\ StateAfter(Eaten)' = StateAfter(Eaten)
         /\ StateAfter(Len(input))' = StateAfter(Len(input))
         /\ StateAfter(Len(input) - 1)' = StateAfter(Len(input) - 1)
  BY DEF StateAfter, Eaten

(* The parentheses that are open.                                          *)
LEMMA ParensCounted ==
  ASSUME NEW S \in Seq(Calls)
  PROVE  /\ IsFiniteSet({i \in 1..Len(S) : S[i].fn = "paren"}) /\ Parens(S) \in Nat
         /\ S = <<>> => Parens(S) = 0
<1>1. Len(S) \in Nat
  BY LenProperties
<1>2. IsFiniteSet(1..Len(S))
  BY <1>1, FS_Interval
<1>3. IsFiniteSet({i \in 1..Len(S) : S[i].fn = "paren"})
  BY <1>2, FS_Subset
<1>4. S = <<>> => {i \in 1..Len(S) : S[i].fn = "paren"} = {}
  OBVIOUS
<1> QED BY <1>3, <1>4, FS_CardinalityType, FS_EmptySet DEF Parens

LEMMA ParensSame ==
  ASSUME NEW S, NEW T, Len(S) \in Nat, Len(T) \in Nat, Len(S) <= Len(T),
         \A i \in 1..Len(S) : T[i].fn = S[i].fn,
         \A i \in 1..Len(T) : i > Len(S) => T[i].fn # "paren"
  PROVE  Parens(T) = Parens(S)
<1>1. \A i \in 1..Len(T) : T[i].fn = "paren" => i \in 1..Len(S) /\ S[i].fn = "paren"
  OBVIOUS
<1>2. \A i \in 1..Len(S) : S[i].fn = "paren" => i \in 1..Len(T) /\ T[i].fn = "paren"
  OBVIOUS
<1>3. {i \in 1..Len(T) : T[i].fn = "paren"} = {i \in 1..Len(S) : S[i].fn = "paren"}
  BY <1>1, <1>2
<1> QED BY <1>3 DEF Parens

LEMMA ParensOpened ==
  ASSUME NEW S \in Seq(Calls), NEW T, Len(T) \in Nat, Len(S) < Len(T),
         \A i \in 1..Len(S) : T[i].fn = S[i].fn,
         T[Len(S) + 1].fn = "paren",
         \A i \in 1..Len(T) : i > Len(S) + 1 => T[i].fn # "paren"
  PROVE  Parens(T) = Parens(S) + 1
<1> DEFINE O(frames) == {i \in 1..Len(frames) : frames[i].fn = "paren"}
<1>0. Len(S) \in Nat
  BY LenProperties
<1>1. \A i \in 1..Len(T) : T[i].fn = "paren" => i = Len(S) + 1 \/ (i \in 1..Len(S) /\ S[i].fn = "paren")
  BY <1>0
<1>2. \A i \in 1..Len(S) : S[i].fn = "paren" => i \in 1..Len(T) /\ T[i].fn = "paren"
  BY <1>0
<1>3. Len(S) + 1 \in 1..Len(T) /\ Len(S) + 1 \notin 1..Len(S)
  BY <1>0
<1>4. O(T) = O(S) \cup {Len(S) + 1} /\ Len(S) + 1 \notin O(S)
  BY <1>1, <1>2, <1>3
<1>5. IsFiniteSet(O(S))
  BY ParensCounted
<1> HIDE DEF O
<1>6. Cardinality(O(S) \cup {Len(S) + 1}) = Cardinality(O(S)) + 1
  BY <1>4, <1>5, FS_AddElement
<1> QED BY <1>4, <1>6 DEF Parens, O

(* A function returns to the one that called it.                           *)
LEMMA ReturnedTo ==
  ASSUME NEW S \in Seq(Calls), S # <<>>, Linked(S), NEW T, T = SubSeq(S, 1, Len(S) - 1)
  PROVE  /\ Linked(T)
         /\ S[Len(S)].fn = "paren" => Parens(S) = Parens(T) + 1
         /\ S[Len(S)].fn # "paren" => Parens(S) = Parens(T)
         /\ S[Len(S)].fn # "level" => T # <<>> /\ Innermost(T[Len(T)])
         /\ S[Len(S)].fn = "level" /\ S[Len(S)].level = 1 => T = <<>> \/ T[Len(T)].fn = "paren"
         /\ S[Len(S)].fn = "level" /\ S[Len(S)].level # 1 =>
                T # <<>> /\ T[Len(T)].fn = "level" /\ T[Len(T)].level = S[Len(S)].level - 1
<1>1. /\ T \in Seq(Calls) /\ Len(T) = Len(S) - 1 /\ Len(S) \in Nat \ {0}
      /\ \A i \in 1..(Len(S) - 1) : T[i] = S[i]
  BY Popped
<1>2. \A i \in 1..Len(T) : i \in 1..Len(S) /\ T[i] = S[i] /\ (i > 1 => i - 1 \in 1..Len(T) /\ T[i - 1] = S[i - 1])
  <2>1. \A i \in 1..Len(T) : i \in 1..Len(S) /\ i \in 1..(Len(S) - 1) /\ (i > 1 => i - 1 \in 1..Len(T) /\ i - 1 \in 1..(Len(S) - 1))
    BY <1>1
  <2> QED BY <1>1, <2>1
<1>3. Linked(T)
  <2>1. ASSUME NEW i \in 1..Len(T) PROVE Calling(T, i)
    <3>1. Calling(S, i) /\ T[i] = S[i] /\ (i > 1 => T[i - 1] = S[i - 1]) /\ i \in Nat /\ i >= 1
      BY <1>1, <1>2 DEF Linked
    <3>2. CASE i = 1
      BY <3>1, <3>2 DEF Calling
    <3>3. CASE i > 1
      BY <3>1, <3>3 DEF Calling
    <3> QED BY <3>1, <3>2, <3>3
  <2> QED BY <2>1 DEF Linked
<1>4. Calling(S, Len(S)) /\ Len(S) \in 1..Len(S)
  BY <1>1 DEF Linked
<1>5. Len(S) > 1 => T # <<>> /\ T[Len(T)] = S[Len(S) - 1]
  <2>1. Len(S) > 1 => Len(T) # 0 /\ Len(S) - 1 \in 1..(Len(S) - 1)
    BY <1>1
  <2> QED BY <1>1, <2>1
<1>6. Len(S) = 1 => T = <<>>
  BY <1>1, EmptySeq
<1>7. Len(S) = 1 \/ Len(S) > 1
  BY <1>1
<1>8. CASE S[Len(S)].fn = "paren"
  <2>1. Parens(S) = Parens(T) + 1
    <3>1. Len(T) + 1 = Len(S) /\ Len(T) < Len(S) /\ Len(S) \in Nat
      BY <1>1
    <3>2. \A i \in 1..Len(T) : S[i].fn = T[i].fn
      BY <1>2
    <3>3. \A i \in 1..Len(S) : i > Len(T) + 1 => S[i].fn # "paren"
      BY <3>1
    <3> QED BY <1>1, <1>8, <3>1, <3>2, <3>3, ParensOpened
  <2> QED BY <1>3, <1>4, <1>5, <1>8, <2>1 DEF Calling
<1>9. CASE S[Len(S)].fn # "paren"
  <2>1. Parens(S) = Parens(T)
    <3>1. Len(T) <= Len(S) /\ Len(T) \in Nat
      BY <1>1
    <3>2. \A i \in 1..Len(S) : i > Len(T) => S[i].fn # "paren"
      <4>1. \A i \in 1..Len(S) : i > Len(T) => i = Len(S)
        BY <1>1
      <4> QED BY <1>9, <4>1
    <3> QED BY <1>1, <1>2, <3>1, <3>2, ParensSame
  <2> QED BY <1>3, <1>4, <1>5, <1>6, <1>7, <1>9, <2>1 DEF Calling
<1> QED BY <1>8, <1>9

(* A function calls those below its level.                                 *)
LEMMA CalledBelow ==
  ASSUME NEW S \in Seq(Calls), S # <<>>, Linked(S),
         NEW level \in 1..(Deepest + 1), NEW T, T = S \o CallFrom(level),
         IF level = 1 THEN S[Len(S)].fn = "paren"
         ELSE S[Len(S)].fn = "level" /\ S[Len(S)].level = level - 1
  PROVE  /\ Linked(T) /\ Parens(T) = Parens(S)
         /\ T # <<>> /\ T[Len(T)].fn = "level" /\ T[Len(T)].level = Deepest
<1> DEFINE C == CallFrom(level)
<1>1. C \in Seq(Calls) /\ Len(C) = Deepest + 1 - level
      /\ \A i \in 1..Len(C) : C[i].fn = "level" /\ C[i].level = level + i - 1
  <2>1. Deepest + 1 - level \in Nat
    BY DEF Deepest
  <2>2. C \in Seq(Calls)
    BY Started
  <2> QED BY <2>1, <2>2 DEF CallFrom, Frame
<1> HIDE DEF C
<1>2. /\ Len(S) \in Nat \ {0} /\ Len(C) \in Nat /\ T \in Seq(Calls) /\ Len(T) = Len(S) + Len(C)
      /\ \A i \in 1..Len(T) : T[i] = IF i <= Len(S) THEN S[i] ELSE C[i - Len(S)]
  <2>1. T = S \o C
    BY DEF C
  <2>2. Len(S) \in Nat \ {0}
    BY Popped
  <2>3. Len(C) \in Nat
    BY <1>1, LenProperties
  <2> QED BY <1>1, <2>1, <2>2, <2>3, ConcatProperties
<1>3. \A i \in 1..Len(S) : i \in 1..Len(T) /\ T[i] = S[i]
  BY <1>2
<1>4. \A i \in 1..Len(T) : i > Len(S) => /\ i - Len(S) \in 1..Len(C)
                                         /\ T[i].fn = "level" /\ T[i].level = level + (i - Len(S)) - 1
  BY <1>1, <1>2
<1>5. ASSUME NEW i \in 1..Len(T) PROVE Calling(T, i)
  <2>1. CASE i \in 1..Len(S)
    <3>1. Calling(S, i) /\ T[i] = S[i]
      BY <1>3, <2>1 DEF Linked
    <3>2. i = 1 \/ (i > 1 /\ i - 1 \in 1..Len(S))
      BY <2>1
    <3>3. i = 1 \/ (i > 1 /\ T[i - 1] = S[i - 1])
      BY <1>3, <3>2
    <3> QED BY <3>1, <3>3 DEF Calling
  <2>2. CASE i = Len(S) + 1
    <3>1. i > Len(S) /\ i - 1 = Len(S) /\ i > 1 /\ Len(S) \in 1..Len(S) /\ i - Len(S) = 1
      BY <1>2, <2>2
    <3>2. T[i].fn = "level" /\ T[i].level = level + 1 - 1 /\ T[i - 1] = S[Len(S)]
      BY <1>3, <1>4, <3>1
    <3>3. T[i].level = level
      BY <3>2
    <3> QED BY <3>1, <3>2, <3>3 DEF Calling
  <2>3. CASE i > Len(S) + 1
    <3>1. i > Len(S) /\ i - 1 \in 1..Len(T) /\ i - 1 > Len(S) /\ i > 1
      BY <1>2, <2>3
    <3>2. T[i].fn = "level" /\ T[i].level = level + (i - Len(S)) - 1
      BY <1>4, <3>1
    <3>3. T[i - 1].fn = "level" /\ T[i - 1].level = level + ((i - 1) - Len(S)) - 1
      BY <1>4, <3>1
    <3>4. T[i].level # 1 /\ T[i - 1].level = T[i].level - 1
      BY <1>2, <2>3, <3>2, <3>3
    <3> QED BY <3>1, <3>2, <3>3, <3>4 DEF Calling
  <2> QED BY <1>2, <2>1, <2>2, <2>3
<1>6. Parens(T) = Parens(S)
  <2>1. Len(S) <= Len(T) /\ Len(T) \in Nat /\ Len(S) \in Nat
    BY <1>2
  <2> QED BY <1>3, <1>4, <2>1, ParensSame
<1>7. T # <<>> /\ T[Len(T)].fn = "level" /\ T[Len(T)].level = Deepest
  <2>1. Len(T) \in 1..Len(T) /\ T # <<>>
    BY <1>2
  <2>2. CASE Len(C) = 0
    <3>1. Len(T) = Len(S) /\ Len(S) \in 1..Len(S) /\ level = Deepest + 1
      BY <1>1, <1>2, <2>2 DEF Deepest
    <3>2. T[Len(T)] = S[Len(S)]
      BY <1>3, <3>1
    <3> QED BY <2>1, <3>1, <3>2 DEF Deepest
  <2>3. CASE Len(C) > 0
    <3>1. Len(T) > Len(S) /\ Len(T) - Len(S) = Deepest + 1 - level
      BY <1>1, <1>2, <2>3
    <3>2. T[Len(T)].fn = "level" /\ T[Len(T)].level = level + (Len(T) - Len(S)) - 1
      BY <1>4, <2>1, <3>1
    <3> QED BY <2>1, <3>1, <3>2 DEF Deepest
  <2> QED BY <1>2, <2>2, <2>3
<1> QED BY <1>5, <1>6, <1>7 DEF Linked
LEMMA CalledFirst ==
  /\ Linked(CallFrom(1)) /\ Parens(CallFrom(1)) = 0 /\ CallFrom(1) # <<>>
  /\ Innermost(CallFrom(1)[Len(CallFrom(1))])
<1> DEFINE C == CallFrom(1)
<1>1. C \in Seq(Calls) /\ Len(C) = Deepest /\ \A i \in 1..Len(C) : C[i].fn = "level" /\ C[i].level = i
  <2>1. Deepest + 1 - 1 \in Nat /\ Deepest + 1 - 1 = Deepest /\ \A i \in 1..Deepest : 1 + i - 1 = i
    BY DEF Deepest
  <2>2. C \in Seq(Calls)
    BY Started DEF Deepest
  <2> QED BY <2>1, <2>2 DEF CallFrom, Frame
<1> HIDE DEF C
<1>2. ASSUME NEW i \in 1..Len(C) PROVE Calling(C, i)
  <2>1. i = 1 \/ (i > 1 /\ i - 1 \in 1..Len(C))
    BY <1>1
  <2> QED BY <1>1, <2>1 DEF Calling
<1>3. {i \in 1..Len(C) : C[i].fn = "paren"} = {}
  BY <1>1
<1>4. Parens(C) = 0
  BY <1>3, FS_EmptySet DEF Parens
<1>5. C # <<>> /\ Innermost(C[Len(C)])
  <2>1. Len(C) = 10 /\ Len(C) \in 1..Len(C)
    BY <1>1 DEF Deepest
  <2>2. C # <<>>
    BY <2>1, EmptySeq
  <2> QED BY <1>1, <2>1, <2>2 DEF Innermost, Deepest
<1> QED BY <1>2, <1>4, <1>5 DEF Linked, C

LEMMA StillLinked ==
  ASSUME NEW S, NEW T, Len(S) \in Nat, Len(T) = Len(S), Linked(S),
         \A i \in 1..Len(S) : T[i].fn = S[i].fn /\ T[i].level = S[i].level
  PROVE  Linked(T) /\ Parens(T) = Parens(S)
<1>1. ASSUME NEW i \in 1..Len(T) PROVE Calling(T, i)
  <2>1. Calling(S, i) /\ T[i].fn = S[i].fn /\ T[i].level = S[i].level
    BY DEF Linked
  <2>2. i = 1 \/ (i > 1 /\ T[i - 1].fn = S[i - 1].fn /\ T[i - 1].level = S[i - 1].level)
    <3>1. i = 1 \/ (i > 1 /\ i - 1 \in 1..Len(S))
      OBVIOUS
    <3> QED BY <3>1
  <2> QED BY <2>1, <2>2 DEF Calling, Innermost
<1>2. Parens(T) = Parens(S)
  BY ParensSame
<1> QED BY <1>1, <1>2 DEF Linked

LEMMA OperandCalled ==
  ASSUME NEW S \in Seq(Calls), S # <<>>, Linked(S), Innermost(S[Len(S)]),
         NEW call \in Calls, call.fn # "level", NEW T, T = Append(S, call)
  PROVE  /\ T \in Seq(Calls) /\ T # <<>> /\ T[Len(T)] = call
         /\ Linked(T)
         /\ Parens(T) = Parens(S) + (IF call.fn = "paren" THEN 1 ELSE 0)
<1>1. /\ T \in Seq(Calls) /\ Len(S) \in Nat \ {0} /\ Len(T) = Len(S) + 1
      /\ \A i \in 1..Len(S) : T[i] = S[i]
      /\ T[Len(S) + 1] = call
  BY AppendProperties, Popped
<1>2. ASSUME NEW i \in 1..Len(T) PROVE Calling(T, i)
  <2>1. CASE i \in 1..Len(S)
    <3>1. Calling(S, i) /\ T[i] = S[i]
      BY <1>1, <2>1 DEF Linked
    <3>2. i = 1 \/ (i > 1 /\ i - 1 \in 1..Len(S))
      BY <2>1
    <3>3. i = 1 \/ (i > 1 /\ T[i - 1] = S[i - 1])
      BY <1>1, <3>2
    <3> QED BY <3>1, <3>3 DEF Calling
  <2>2. CASE i = Len(S) + 1
    <3>1. i > 1 /\ i - 1 = Len(S) /\ Len(S) \in 1..Len(S)
      BY <1>1, <2>2
    <3>2. T[i] = call /\ T[i - 1] = S[Len(S)]
      BY <1>1, <2>2, <3>1
    <3> QED BY <3>1, <3>2 DEF Calling
  <2> QED BY <1>1, <2>1, <2>2
<1>3. Parens(T) = Parens(S) + (IF call.fn = "paren" THEN 1 ELSE 0)
  <2>1. Len(S) < Len(T) /\ Len(T) \in Nat /\ Len(S) \in Nat /\ \A i \in 1..Len(T) : i > Len(S) => i = Len(S) + 1
    BY <1>1
  <2>2. CASE call.fn = "paren"
    <3>1. \A i \in 1..Len(T) : i > Len(S) + 1 => T[i].fn # "paren"
      BY <1>1
    <3>2. Parens(T) = Parens(S) + 1
      BY <1>1, <2>1, <2>2, <3>1, ParensOpened
    <3> QED BY <2>2, <3>2
  <2>3. CASE call.fn # "paren"
    <3>0. \A i \in 1..Len(T) : i > Len(S) => T[i].fn # "paren"
      BY <1>1, <2>1, <2>3
    <3>1. Parens(T) = Parens(S)
      <4>1. \A i \in 1..Len(S) : T[i].fn = S[i].fn
        BY <1>1
      <4>2. Len(S) \in Nat /\ Len(S) <= Len(T)
        BY <2>1
      <4> QED BY <2>1, <3>0, <4>1, <4>2, ParensSame
    <3>2. Parens(S) \in Nat
      BY ParensCounted
    <3> QED BY <2>3, <3>1, <3>2
  <2> QED BY <2>2, <2>3
<1>4. T # <<>> /\ T[Len(T)] = call
  BY <1>1
<1> QED BY <1>1, <1>2, <1>3, <1>4 DEF Linked

LEMMA LevelsBelow ==
  /\ Deeper(0) = Infix /\ Deeper(Deepest) = {}
  /\ \A k \in 1..Deepest : Deeper(k - 1) = Levels[k] \cup Deeper(k)
<1>1. Deeper(0) = Infix
  BY DEF Deeper, Infix
<1>2. Deeper(Deepest) = {}
  <2>1. (Deepest + 1)..Deepest = {}
    BY DEF Deepest
  <2> QED BY <2>1 DEF Deeper
<1>3. ASSUME NEW k \in 1..Deepest PROVE Deeper(k - 1) = Levels[k] \cup Deeper(k)
  <2>1. (k - 1) + 1 = k /\ k..Deepest = {k} \cup ((k + 1)..Deepest)
    BY DEF Deepest
  <2> QED BY <2>1 DEF Deeper
<1> QED BY <1>1, <1>2, <1>3
----------------------------------------------------------------------------
(* What holds of a running function, and what an error leaves.             *)
LEMMA Working ==
  ASSUME GInv, mode \in Running
  PROVE  /\ at = 7 /\ result = "none" /\ expression = {}
         /\ stack \in Seq(Calls) /\ Len(stack) \in Nat /\ Parens(stack) \in Nat
         /\ stack # <<>> => Top \in Calls /\ Len(stack) \in 1..Len(stack)
         /\ mode # "error" => ~Failed
<1>1. at = 7 /\ result = "none" /\ expression = {} /\ stack \in Seq(Calls)
  BY DEF GInv, PInv, Typed, Located, Running, Over
<1>2. Len(stack) \in Nat /\ Parens(stack) \in Nat
  BY <1>1, LenProperties, ParensCounted
<1>3. stack # <<>> => Top \in Calls /\ Len(stack) \in 1..Len(stack)
  BY <1>1, Popped DEF Top
<1> QED BY <1>1, <1>2, <1>3 DEF Failed

LEMMA ErrorFound ==
  ASSUME GInv, PInv', buffer # <<>>, Pop, Linked(stack'),
         StateAfter(Eaten) # Dead, Reads(StateAfter(Eaten), NextType) = Dead,
         (mode' = "error" /\ result' # "ok") \/ (mode' = "done" /\ result' = "err")
  PROVE  GInv'
<1>1. /\ StateAfter(Len(input))' = Dead /\ StateAfter(Len(input) - 1)' # Dead
  BY Consumed DEF GInv
<1> QED BY <1>1 DEF GInv, Read, LookedAhead, Returned

(* A function returns an operand to one that takes it.                     *)
LEMMA Resuming ==
  ASSUME NEW S \in Seq(Calls), S # <<>>, Innermost(S[Len(S)])
  PROVE  /\ Resume(S) = "operand" \/ Resume(S) = "negate"
         /\ Resume(S) = "operand" => S[Len(S)].level = Deepest
<1>1. S[Len(S)] \in Calls
  BY Popped
<1> QED BY <1>1 DEF Innermost, Resume

LEMMA OperandHandedOn ==
  ASSUME GInv, PInv', Linked(stack'), stack' # <<>>, Innermost(Top'), mode' = Resume(stack'),
         value' # {}, StateAfter(Eaten)' = <<7, FALSE, Parens(stack')>>, result' = "none"
  PROVE  GInv'
<1>1. stack' \in Seq(Calls)
  BY DEF PInv, Typed
<1>2. /\ mode' = "operand" \/ mode' = "negate"
      /\ mode' = "operand" => Top'.level = Deepest
  BY <1>1, Resuming DEF Top
<1>3. ~Failed'
  BY <1>2 DEF Failed
<1>4. Parens(stack)' = Parens(stack')
  BY DEF Parens
<1> QED BY <1>2, <1>3, <1>4 DEF GInv, LookedAhead, Read, Returned
----------------------------------------------------------------------------
LEMMA LexReads ==
  ASSUME GInv, PInv', Lex
  PROVE  GInv'
<1>1. /\ buffer = <<>> /\ buffer' = <<Len(input')>> /\ Peeking
      /\ UNCHANGED <<treeVars, mode, callVars, stray>>
      /\ \E t : input' = Append(input, t) /\ t \in Tokens
  <2>1. "TT_EOF" \in Tokens
    BY TokensAssumption
  <2> QED BY <2>1 DEF Lex
<1>2. Len(input) \in Nat \ {0} /\ Len(input') = Len(input) + 1 /\ \A i \in 1..Len(input) : input'[i] = input[i]
  <2>1. PICK t \in Tokens : input' = Append(input, t)
    BY <1>1
  <2>2. input \in Seq(Tokens) /\ input # <<>>
    BY DEF GInv, PInv, Typed
  <2> QED BY <2>1, <2>2, AppendProperties, LenProperties, EmptySeq
<1>3. Eaten = Len(input) /\ Eaten' = Len(input)
  <2>1. Len(buffer) = 0 /\ Len(buffer') = 1
    BY <1>1
  <2> QED BY <1>2, <2>1 DEF Eaten
<1>4. StateAfter(Eaten)' = StateAfter(Eaten)
  <2>1. PICK k \in Nat : k = Len(input)
    BY <1>2
  <2>2. StateAfter(k)' = StateAfter(k)
    BY <1>2, <2>1, StateStays
  <2> QED BY <1>3, <2>1, <2>2
<1>5. mode \notin {"error", "done", "freed", "close"} /\ result = "none" /\ ~Failed /\ ~Failed' /\ ~Returned
  <2>1. mode \notin {"error", "done", "freed"}
    BY <1>1 DEF Peeking
  <2>2. result = "none"
    BY <2>1 DEF GInv, PInv, Typed, Located, Over
  <2>3. mode # "close" /\ ~Returned
    BY <1>1 DEF GInv, LookedAhead
  <2> QED BY <1>1, <2>1, <2>2, <2>3 DEF Failed, callVars
<1>6. LookedAhead'
  BY <1>1, <1>5 DEF GInv, LookedAhead, treeVars, callVars, Returned, Top
<1>7. Read'
  BY <1>1, <1>4, <1>5 DEF GInv, Read, treeVars, callVars, Returned
<1> QED BY <1>1, <1>6, <1>7 DEF GInv, treeVars
----------------------------------------------------------------------------
LEMMA ExpectReads ==
  ASSUME GInv, PInv', Expect
  PROVE  GInv'
<1>1. /\ mode = "expect" /\ at \in 1..9 /\ at # 7 /\ buffer # <<>> /\ Pop /\ at' = at + 1
      /\ NextType = Outline[at] /\ UNCHANGED <<treeVars, mode, expression, result>>
      /\ result = "none"
  BY OutlineTokens DEF GInv, PInv, Typed, Located, Over, Expect, Look, Peeking
<1>2. value = {} /\ stack = <<>>
  BY <1>1 DEF GInv, PInv, Located, Running
<1>3. ~Failed /\ ~Failed' /\ ~Returned'
  <2>1. ~Failed /\ ~Failed'
    BY <1>1 DEF Failed
  <2>2. CASE at = 8
    BY <1>1, <2>2, <2>1 DEF Returned
  <2>3. CASE at # 8
    BY <1>1, <1>2, <2>1, <2>3 DEF Returned, treeVars
  <2> QED BY <2>1, <2>2, <2>3
<1>4. StateAfter(Eaten)' = <<at + 1, TRUE, 0>>
  <2>1. StateAfter(Eaten)' = Reads(StateAfter(Eaten), NextType)
    BY <1>1, Consumed DEF GInv
  <2>2. CASE at = 8
    <3>1. StateAfter(Eaten) = <<7, FALSE, 0>> /\ NextType = "TT_SEMI"
      BY <1>1, <2>2 DEF GInv, Read, Returned, Outline
    <3>2. Reads(<<7, FALSE, 0>>, NextType) = <<9, TRUE, 0>>
      BY <3>1, BehindRead
    <3>3. at + 1 = 9
      BY <2>2
    <3> QED BY <2>1, <3>1, <3>2, <3>3, Zenon
  <2>3. CASE at # 8
    <3>1. StateAfter(Eaten) = <<at, TRUE, 0>>
      BY <1>1, <2>3 DEF GInv, Read
    <3>2. Reads(<<at, TRUE, 0>>, NextType) = <<at + 1, TRUE, 0>>
      <4>1. at \in 1..9 /\ at # 7 /\ NextType = Outline[at]
        BY <1>1
      <4> QED BY <4>1, OutlineRead
    <3> QED BY <2>1, <3>1, <3>2
  <2> QED BY <2>2, <2>3
<1>5. LookedAhead'
  BY <1>1, <1>3 DEF LookedAhead
<1>6. Read'
  BY <1>1, <1>3, <1>4 DEF Read
<1> QED BY <1>1, <1>5, <1>6 DEF GInv, treeVars

LEMMA ExpectFailsReads ==
  ASSUME GInv, PInv', ExpectFails
  PROVE  GInv'
<1>1. /\ mode = "expect" /\ at \in 1..9 /\ at # 7 /\ buffer # <<>> /\ Pop
      /\ NextType # Outline[at] /\ stack' = stack /\ mode' = "done" /\ result' = "err"
  BY OutlineTokens DEF GInv, PInv, Typed, ExpectFails, LookNot, Peeking
<1>2. StateAfter(Eaten) # Dead /\ Reads(StateAfter(Eaten), NextType) = Dead
  <2>1. CASE at = 8
    <3>1. StateAfter(Eaten) = <<7, FALSE, 0>> /\ NextType # "TT_SEMI" /\ NextType \notin Infix
      BY <1>1, <2>1 DEF GInv, Read, Returned, Outline, LookedAhead
    <3> QED BY <3>1, BehindRead
  <2>2. CASE at # 8
    <3>1. StateAfter(Eaten) = <<at, TRUE, 0>>
      BY <1>1, <2>2 DEF GInv, Read
    <3>2. <<at, TRUE, 0>> # Dead /\ Reads(<<at, TRUE, 0>>, NextType) = Dead
      <4>1. at \in 1..9 /\ at # 7 /\ NextType # Outline[at]
        BY <1>1
      <4> QED BY <4>1, OutlineRead
    <3> QED BY <3>1, <3>2
  <2> QED BY <2>1, <2>2
<1>3. Linked(stack')
  BY <1>1 DEF GInv
<1> QED BY <1>1, <1>2, <1>3, ErrorFound

LEMMA CallExpressionReads ==
  ASSUME GInv, PInv', CallExpression
  PROVE  GInv'
<1>1. /\ mode = "expect" /\ at = 7 /\ value = {} /\ stack' = CallFrom(1) /\ mode' = "unary"
      /\ UNCHANGED <<input, buffer, live, heap, value, callVars, stray>> /\ result = "none"
  BY DEF CallExpression, ParseExpression, GInv, PInv, Typed, Located, Over
<1>2. StateAfter(Eaten)' = <<7, TRUE, 0>>
  BY <1>1, NothingConsumed DEF GInv, Read
<1>3. /\ Linked(stack') /\ Parens(stack') = 0 /\ stack' # <<>> /\ Innermost(Top')
  BY <1>1, CalledFirst DEF Top
<1>4. LookedAhead'
  BY <1>1, <1>3 DEF LookedAhead, Returned
<1>5. Parens(stack)' = 0
  BY <1>3
<1>6. Read'
  BY <1>1, <1>2, <1>5 DEF Read, Returned, Failed, callVars
<1> QED BY <1>3, <1>4, <1>6 DEF GInv

LEMMA ExpressionReturnedReads ==
  ASSUME GInv, PInv', ExpressionReturned
  PROVE  GInv'
<1>1. /\ mode = "expect" /\ at = 7 /\ value # {} /\ at' = 8
      /\ UNCHANGED <<input, buffer, live, heap, stack, mode, id, result, stray>> /\ result = "none"
  BY DEF ExpressionReturned, GInv, PInv, Typed, Located, Over
<1>2. Returned /\ Returned'
  BY <1>1 DEF Returned
<1>3. StateAfter(Eaten)' = <<7, FALSE, 0>>
  BY <1>1, <1>2, NothingConsumed DEF GInv, Read
<1>4. LookedAhead'
  BY <1>1, <1>2 DEF GInv, LookedAhead, NextType, NextToken
<1>5. Read'
  BY <1>1, <1>3 DEF Read, Failed
<1> QED BY <1>1, <1>4, <1>5 DEF GInv

LEMMA ExpressionFailedReads ==
  ASSUME GInv, PInv', ExpressionFailed
  PROVE  GInv'
<1>1. /\ mode = "error" /\ mode' = "done" /\ result' = "err"
      /\ UNCHANGED <<input, buffer, treeVars, at, expression>>
  BY DEF ExpressionFailed
<1>2. /\ StateAfter(Len(input))' = Dead /\ StateAfter(Len(input) - 1)' # Dead
  BY <1>1, NothingConsumed DEF GInv, Read, Failed
<1> QED BY <1>1, <1>2 DEF GInv, Read, LookedAhead, Returned, treeVars

LEMMA FinishReads ==
  ASSUME GInv, PInv', Finish
  PROVE  GInv'
<1>1. /\ mode = "expect" /\ at = 10 /\ mode' = "done" /\ result' = "ok" /\ buffer = <<>>
      /\ UNCHANGED <<input, buffer, treeVars, at, expression>>
  BY OutlineTokens DEF Finish, GInv, PInv, Typed, Located
<1>2. Eaten = Len(input)
  <2>1. Len(buffer) = 0 /\ Len(input) \in Nat
    BY <1>1, LenProperties DEF GInv, PInv, Typed
  <2> QED BY <2>1 DEF Eaten
<1>3. StateAfter(Len(input))' = <<10, TRUE, 0>>
  <2>1. StateAfter(Eaten) = <<10, TRUE, 0>>
    <3>1. StateAfter(Eaten) = <<at, TRUE, 0>>
      <4>1. mode = "expect" /\ at \notin {7, 8}
        BY <1>1
      <4> QED BY <4>1, Zenon DEF GInv, Read
    <3>2. at = 10
      BY <1>1
    <3> QED BY <3>1, <3>2, Zenon
  <2>2. StateAfter(Len(input))' = StateAfter(Len(input))
    BY <1>1, NothingConsumed DEF GInv
  <2> QED BY <1>2, <2>1, <2>2
<1>4. (StateAfter(Len(input))[1])' = Len(Outline) + 1
  BY <1>3, OutlineTokens
<1> QED BY <1>1, <1>4 DEF GInv, Read, LookedAhead, Returned, Failed, treeVars

LEMMA ReleaseReads ==
  ASSUME GInv, PInv', ParserFree \/ ProgramFree
  PROVE  GInv'
<1>1. /\ mode \in {"done", "freed"} /\ mode' = "freed" /\ UNCHANGED <<input, stack, value, result>>
  BY DEF ParserFree, ProgramFree, treeVars, callVars
<1>2. /\ StateAfter(Len(input))' = StateAfter(Len(input))
      /\ StateAfter(Len(input) - 1)' = StateAfter(Len(input) - 1)
  BY <1>1 DEF StateAfter
<1>3. Failed' <=> Failed
  BY <1>1 DEF Failed
<1> QED BY <1>1, <1>2, <1>3 DEF GInv, Read, LookedAhead, Returned
----------------------------------------------------------------------------
(* The functions of the primary and the unary expressions. *)

LEMMA UnaryOperatorReads ==
  ASSUME GInv, PInv', UnaryOperator
  PROVE  GInv'
<1> DEFINE call == Frame("unary", 0, {}, NextToken)
<1>1. /\ mode = "unary" /\ mode' = "unary" /\ NextType \in UnaryOps /\ buffer # <<>> /\ Pop
      /\ stack' = Append(stack, call) /\ UNCHANGED <<value, result>>
  BY DEF UnaryOperator, Look, callVars
<1>2. stack \in Seq(Calls) /\ stack # <<>> /\ Linked(stack) /\ Innermost(Top) /\ Parens(stack) \in Nat
  BY <1>1, Working DEF GInv, LookedAhead, Running
<1>3. call \in Calls /\ call.fn = "unary"
  <2>1. NextToken \in Nat
    BY <1>1, NextHeld DEF GInv
  <2> QED BY <2>1 DEF Frame, Calls, Deepest
<1> HIDE DEF call
<1>4. /\ stack' # <<>> /\ Top' = call /\ Linked(stack') /\ Parens(stack') = Parens(stack)
  <2>1. Innermost(stack[Len(stack)]) /\ call.fn # "level"
    BY <1>2, <1>3 DEF Top
  <2>2. /\ stack' # <<>> /\ Top' = call /\ Linked(stack') /\ Parens(stack') = Parens(stack) + 0
    BY <1>1, <1>2, <1>3, <2>1, OperandCalled DEF Top
  <2> QED BY <1>2, <2>2
<1>5. StateAfter(Eaten)' = <<7, TRUE, Parens(stack)>>
  <2>1. StateAfter(Eaten)' = Reads(StateAfter(Eaten), NextType)
    BY <1>1, Consumed DEF GInv
  <2>2. StateAfter(Eaten) = <<7, TRUE, Parens(stack)>>
    BY <1>1 DEF GInv, Read
  <2>3. Reads(<<7, TRUE, Parens(stack)>>, NextType) = <<7, TRUE, Parens(stack)>>
    BY <1>1, OperandRead
  <2> QED BY <2>1, <2>2, <2>3
<1>6. Parens(stack)' = Parens(stack)
  BY <1>4
<1>7. ~Failed'
  BY <1>1, Working DEF Failed, Running
<1>8. LookedAhead'
  BY <1>1, <1>3, <1>4 DEF LookedAhead, Returned, Innermost
<1>9. Read'
  BY <1>1, <1>5, <1>6, <1>7, Working DEF Read, Returned, Running
<1> QED BY <1>4, <1>8, <1>9 DEF GInv

LEMMA OpenParenReads ==
  ASSUME GInv, PInv', OpenParen
  PROVE  GInv'
<1> DEFINE call == Frame("paren", 0, {}, 0)
           U == Append(stack, call)
<1>1. /\ mode = "unary" /\ mode' = "unary" /\ NextType = "TT_LPAREN" /\ buffer # <<>> /\ Pop
      /\ stack' = U \o CallFrom(1) /\ UNCHANGED <<value, result>>
  BY DEF OpenParen, Look, callVars, ParseExpression
<1>2. stack \in Seq(Calls) /\ stack # <<>> /\ Linked(stack) /\ Innermost(Top) /\ Parens(stack) \in Nat
  BY <1>1, Working DEF GInv, LookedAhead, Running
<1>3. call \in Calls /\ call.fn = "paren"
  BY DEF Frame, Calls, Deepest
<1> HIDE DEF call
<1>4. /\ U \in Seq(Calls) /\ U # <<>> /\ U[Len(U)] = call /\ Linked(U) /\ Parens(U) = Parens(stack) + 1
  <2>1. Innermost(stack[Len(stack)]) /\ call.fn # "level"
    BY <1>2, <1>3 DEF Top
  <2> QED BY <1>2, <1>3, <2>1, OperandCalled
<1> HIDE DEF U
<1>5. /\ stack' # <<>> /\ Innermost(Top') /\ Linked(stack') /\ Parens(stack') = Parens(stack) + 1
  <2>1. 1 \in 1..(Deepest + 1)
    BY DEF Deepest
  <2>2. /\ Linked(stack') /\ Parens(stack') = Parens(U) /\ stack' # <<>>
        /\ Top'.fn = "level" /\ Top'.level = Deepest
    BY <1>1, <1>3, <1>4, <2>1, CalledBelow DEF Top
  <2> QED BY <1>4, <2>2 DEF Innermost
<1>6. StateAfter(Eaten)' = <<7, TRUE, Parens(stack) + 1>>
  <2>1. StateAfter(Eaten)' = Reads(StateAfter(Eaten), NextType)
    BY <1>1, Consumed DEF GInv
  <2>2. StateAfter(Eaten) = <<7, TRUE, Parens(stack)>>
    BY <1>1 DEF GInv, Read
  <2>3. Reads(<<7, TRUE, Parens(stack)>>, NextType) = <<7, TRUE, Parens(stack) + 1>>
    BY <1>1, OperandRead
  <2> QED BY <2>1, <2>2, <2>3
<1>7. Parens(stack)' = Parens(stack) + 1
  BY <1>5
<1>8. ~Failed'
  BY <1>1, Working DEF Failed, Running
<1>9. LookedAhead'
  BY <1>1, <1>5 DEF LookedAhead, Returned
<1>10. Read'
  <2>1. StateAfter(Eaten)' = <<7, TRUE, Parens(stack)'>>
    BY <1>6, <1>7, Zenon
  <2> QED BY <1>1, <1>8, <2>1, Working DEF Read, Returned, Running
<1> QED BY <1>5, <1>9, <1>10 DEF GInv

LEMMA NumberReads ==
  ASSUME GInv, PInv', Number
  PROVE  GInv'
<1>1. /\ mode = "unary" /\ mode' = Resume(stack') /\ NextType = "TT_NUM" /\ buffer # <<>> /\ Pop
      /\ stack' = stack /\ value' = {NextToken} /\ UNCHANGED result
  BY DEF Number, Look, callVars
<1>2. stack # <<>> /\ Linked(stack) /\ Innermost(Top) /\ result = "none"
  BY <1>1, Working DEF GInv, LookedAhead, Running
<1>3. StateAfter(Eaten)' = <<7, FALSE, Parens(stack)>>
  <2>1. StateAfter(Eaten)' = Reads(StateAfter(Eaten), NextType)
    BY <1>1, Consumed DEF GInv
  <2>2. StateAfter(Eaten) = <<7, TRUE, Parens(stack)>>
    BY <1>1 DEF GInv, Read
  <2>3. Reads(<<7, TRUE, Parens(stack)>>, NextType) = <<7, FALSE, Parens(stack)>>
    BY <1>1, OperandRead
  <2> QED BY <2>1, <2>2, <2>3
<1>4. Linked(stack') /\ stack' # <<>> /\ Innermost(Top') /\ Parens(stack') = Parens(stack)
  BY <1>1, <1>2 DEF Top
<1>5. StateAfter(Eaten)' = <<7, FALSE, Parens(stack')>>
  BY <1>3, <1>4
<1> QED BY <1>1, <1>2, <1>4, <1>5, OperandHandedOn

LEMMA UnexpectedReads ==
  ASSUME GInv, PInv', Unexpected
  PROVE  GInv'
<1>1. /\ mode = "unary" /\ mode' = "error" /\ buffer # <<>> /\ Pop /\ stack' = stack /\ result' = result
      /\ NextType \notin UnaryOps \cup {"TT_LPAREN", "TT_NUM"}
  BY DEF Unexpected, LookNot, treeVars, callVars
<1>2. result' # "ok" /\ Linked(stack')
  BY <1>1, Working DEF GInv, Running
<1>3. StateAfter(Eaten) # Dead /\ Reads(StateAfter(Eaten), NextType) = Dead
  <2>1. StateAfter(Eaten) = <<7, TRUE, Parens(stack)>>
    BY <1>1 DEF GInv, Read
  <2>2. /\ <<7, TRUE, Parens(stack)>> # Dead
        /\ Reads(<<7, TRUE, Parens(stack)>>, NextType) = Dead
    BY <1>1, OperandRead
  <2> QED BY <2>1, <2>2
<1> QED BY <1>1, <1>2, <1>3, ErrorFound

LEMMA NegateReads ==
  ASSUME GInv, PInv', Negate
  PROVE  GInv'
<1>1. /\ mode = "negate" /\ mode' = Resume(stack') /\ UNCHANGED <<input, buffer, result>>
      /\ stack' = SubSeq(stack, 1, Len(stack) - 1) /\ value' = {Top.op} \cup value
  BY DEF Negate, Under, callVars
<1>2. stack \in Seq(Calls) /\ stack # <<>> /\ Linked(stack) /\ Top.fn = "unary" /\ result = "none"
  BY <1>1, Working DEF GInv, PInv, Located, Running
<1>3. Linked(stack') /\ stack' # <<>> /\ Innermost(Top') /\ Parens(stack) = Parens(stack')
  BY <1>1, <1>2, ReturnedTo DEF Top
<1>4. StateAfter(Eaten)' = <<7, FALSE, Parens(stack')>>
  <2>1. StateAfter(Eaten) = <<7, FALSE, Parens(stack)>>
    BY <1>1 DEF GInv, Read
  <2> QED BY <1>1, <1>3, <2>1, NothingConsumed DEF GInv
<1> QED BY <1>1, <1>2, <1>3, <1>4, OperandHandedOn

LEMMA CloseParenReads ==
  ASSUME GInv, PInv', CloseParen
  PROVE  GInv'
<1>1. /\ mode = "close" /\ mode' = Resume(stack') /\ NextType = "TT_RPAREN" /\ buffer # <<>> /\ Pop
      /\ stack' = SubSeq(stack, 1, Len(stack) - 1) /\ UNCHANGED <<value, result>>
  BY DEF CloseParen, Look, Under, callVars
<1>2. stack \in Seq(Calls) /\ stack # <<>> /\ Linked(stack) /\ Top.fn = "paren" /\ result = "none" /\ value # {}
  BY <1>1, Working DEF GInv, PInv, Located, Running, LookedAhead
<1>3. Linked(stack') /\ stack' # <<>> /\ Innermost(Top') /\ Parens(stack) = Parens(stack') + 1
  BY <1>1, <1>2, ReturnedTo DEF Top
<1>4. StateAfter(Eaten)' = <<7, FALSE, Parens(stack')>>
  <2>1. StateAfter(Eaten)' = Reads(StateAfter(Eaten), NextType)
    BY <1>1, Consumed DEF GInv
  <2>2. StateAfter(Eaten) = <<7, FALSE, Parens(stack)>>
    BY <1>1 DEF GInv, Read
  <2>3. Parens(stack') \in Nat
    BY ParensCounted DEF PInv, Typed
  <2>4. Parens(stack) \in Nat /\ Parens(stack) > 0 /\ Parens(stack) - 1 = Parens(stack')
    BY <1>3, <2>3
  <2>5. Reads(<<7, FALSE, Parens(stack)>>, NextType) = <<7, FALSE, Parens(stack) - 1>>
    BY <1>1, <2>4, BehindRead
  <2> QED BY <2>1, <2>2, <2>4, <2>5, Zenon
<1>5. value' # {} /\ result' = "none"
  BY <1>1, <1>2
<1> QED BY <1>1, <1>3, <1>4, <1>5, OperandHandedOn

LEMMA CloseParenFailsReads ==
  ASSUME GInv, PInv', CloseParenFails
  PROVE  GInv'
<1>1. /\ mode = "close" /\ mode' = "error" /\ NextType # "TT_RPAREN" /\ buffer # <<>> /\ Pop
      /\ stack' = SubSeq(stack, 1, Len(stack) - 1) /\ UNCHANGED result
  BY DEF CloseParenFails, LookNot, Under, callVars
<1>2. stack \in Seq(Calls) /\ stack # <<>> /\ Linked(stack) /\ Top.fn = "paren" /\ result = "none"
  BY <1>1, Working DEF GInv, PInv, Located, Running
<1>3. Linked(stack') /\ Parens(stack) = Parens(stack') + 1
  BY <1>1, <1>2, ReturnedTo DEF Top
<1>4. StateAfter(Eaten) # Dead /\ Reads(StateAfter(Eaten), NextType) = Dead
  <2>1. StateAfter(Eaten) = <<7, FALSE, Parens(stack)>> /\ NextType \notin Infix
    BY <1>1 DEF GInv, Read, LookedAhead
  <2>2. Parens(stack') \in Nat
    BY ParensCounted DEF PInv, Typed
  <2>3. Parens(stack) \in Nat /\ Parens(stack) > 0
    BY <1>3, <2>2
  <2>4. /\ <<7, FALSE, Parens(stack)>> # Dead
        /\ Reads(<<7, FALSE, Parens(stack)>>, NextType) = Dead
    BY <1>1, <2>1, <2>3, BehindRead
  <2> QED BY <2>1, <2>4
<1>5. result' # "ok"
  BY <1>1, <1>2
<1> QED BY <1>1, <1>3, <1>4, <1>5, ErrorFound
----------------------------------------------------------------------------
(* The functions of the binary operators. *)

(* A function that takes an operand goes round its loop.                   *)
LEMMA OperandTakenReads ==
  ASSUME GInv, PInv', mode = "operand", mode' = "loop", NEW left \in SUBSET Nat, left # {},
         stack' = Update(left, 0), UNCHANGED <<input, buffer, result>>
  PROVE  GInv'
<1>1. stack \in Seq(Calls) /\ stack # <<>> /\ Linked(stack) /\ Len(stack) \in Nat /\ result = "none"
  BY Working DEF GInv, PInv, Located, Running
<1>2. /\ stack' \in Seq(Calls) /\ Len(stack') = Len(stack) /\ Len(stack) \in Nat \ {0}
      /\ \A i \in 1..(Len(stack) - 1) : stack'[i] = stack[i]
      /\ stack'[Len(stack)].fn = Top.fn /\ stack'[Len(stack)].level = Top.level
      /\ stack'[Len(stack)].left = left
  BY <1>1, Updated
<1>3. \A i \in 1..Len(stack) : stack'[i].fn = stack[i].fn /\ stack'[i].level = stack[i].level
  <2>1. \A i \in 1..Len(stack) : i = Len(stack) \/ i \in 1..(Len(stack) - 1)
    BY <1>2
  <2> QED BY <1>2, <2>1 DEF Top
<1>4. Linked(stack') /\ Parens(stack') = Parens(stack)
  BY <1>1, <1>2, <1>3, StillLinked
<1>5. Top'.level = Top.level /\ Top'.left = left
  BY <1>2 DEF Top
<1>6. StateAfter(Eaten)' = <<7, FALSE, Parens(stack)>>
  BY NothingConsumed DEF GInv, Read
<1>7. LookedAhead'
  BY <1>5 DEF GInv, LookedAhead, Returned, NextType, NextToken
<1>8. Read'
  <2>1. Parens(stack)' = Parens(stack)
    BY <1>4
  <2> QED BY <1>1, <1>6, <2>1 DEF Read, Returned, Failed
<1> QED BY <1>4, <1>7, <1>8 DEF GInv

LEMMA FirstOperandReads ==
  ASSUME GInv, PInv', FirstOperand
  PROVE  GInv'
<1>1. /\ mode = "operand" /\ mode' = "loop" /\ stack' = Update(value, 0)
      /\ UNCHANGED <<input, buffer, result>>
  BY DEF FirstOperand, callVars
<1>2. value # {}
  BY <1>1 DEF GInv, LookedAhead
<1>3. value \in SUBSET Nat
  BY DEF GInv, PInv, Typed, NodesHeld, Holding, Places
<1> QED BY <1>1, <1>2, <1>3, OperandTakenReads

LEMMA RightOperandReads ==
  ASSUME GInv, PInv', RightOperand
  PROVE  GInv'
<1> DEFINE left == {Top.op} \cup Top.left \cup value
<1>1. /\ mode = "operand" /\ mode' = "loop" /\ stack' = Update(left, 0)
      /\ UNCHANGED <<input, buffer, result>>
  BY DEF RightOperand, callVars
<1>2. left \in SUBSET Nat /\ left # {}
  <2>1. Top \in Calls
    BY <1>1, Working DEF GInv, PInv, Located, Running
  <2>2. value \subseteq Nat
    BY DEF GInv, PInv, Typed, NodesHeld, Holding, Places
  <2> QED BY <2>1, <2>2 DEF Calls
<1> HIDE DEF left
<1> QED BY <1>1, <1>2, OperandTakenReads

LEMMA MatchOperatorReads ==
  ASSUME GInv, PInv', MatchOperator
  PROVE  GInv'
<1> DEFINE U == Update(Top.left, NextToken)
<1>1. /\ mode = "loop" /\ mode' = "unary" /\ NextType \in Levels[Top.level] /\ buffer # <<>> /\ Pop
      /\ stack' = U \o CallFrom(Top.level + 1) /\ UNCHANGED <<value, result>>
  BY DEF MatchOperator, Look, callVars
<1>2. /\ stack \in Seq(Calls) /\ stack # <<>> /\ Linked(stack) /\ Len(stack) \in Nat /\ result = "none"
      /\ Top \in Calls /\ Top.fn = "level" /\ Len(stack) \in 1..Len(stack) /\ Parens(stack) \in Nat
  BY <1>1, Working DEF GInv, PInv, Located, Running
<1>3. Top.level \in 1..Deepest
  BY <1>2 DEF GInv, PInv, FramesShaped, FrameShaped, Top
<1>4. /\ U \in Seq(Calls) /\ Len(U) = Len(stack) /\ Len(stack) \in Nat \ {0}
      /\ \A i \in 1..(Len(stack) - 1) : U[i] = stack[i]
      /\ U[Len(stack)].fn = Top.fn /\ U[Len(stack)].level = Top.level
  <2>1. Top.left \in SUBSET Nat
    BY <1>2 DEF Calls
  <2>2. NextToken \in Nat
    BY <1>1, NextHeld DEF GInv
  <2> QED BY <1>2, <2>1, <2>2, Updated
<1> HIDE DEF U
<1>5. \A i \in 1..Len(stack) : U[i].fn = stack[i].fn /\ U[i].level = stack[i].level
  <2>1. \A i \in 1..Len(stack) : i = Len(stack) \/ i \in 1..(Len(stack) - 1)
    BY <1>4
  <2> QED BY <1>4, <2>1 DEF Top
<1>6. Linked(U) /\ Parens(U) = Parens(stack)
  BY <1>2, <1>4, <1>5, StillLinked
<1>7. /\ Linked(stack') /\ Parens(stack') = Parens(stack) /\ stack' # <<>> /\ Innermost(Top')
  <2>1. Top.level + 1 \in 1..(Deepest + 1) /\ Top.level + 1 # 1 /\ (Top.level + 1) - 1 = Top.level
    BY <1>3 DEF Deepest
  <2>2. U # <<>> /\ U[Len(U)].fn = "level" /\ U[Len(U)].level = (Top.level + 1) - 1
    <3>1. Len(U) # 0
      BY <1>4
    <3>2. U # <<>>
      BY <3>1
    <3> QED BY <1>2, <1>4, <2>1, <3>2
  <2>3. /\ Linked(stack') /\ Parens(stack') = Parens(U) /\ stack' # <<>>
        /\ Top'.fn = "level" /\ Top'.level = Deepest
    BY <1>1, <1>4, <1>6, <2>1, <2>2, CalledBelow DEF Top
  <2> QED BY <1>6, <2>3 DEF Innermost
<1>8. StateAfter(Eaten)' = <<7, TRUE, Parens(stack)>>
  <2>1. StateAfter(Eaten)' = Reads(StateAfter(Eaten), NextType)
    BY <1>1, Consumed DEF GInv
  <2>2. StateAfter(Eaten) = <<7, FALSE, Parens(stack)>>
    BY <1>1 DEF GInv, Read
  <2>3. NextType \in Infix
    BY <1>1, <1>3 DEF Infix
  <2>4. Reads(<<7, FALSE, Parens(stack)>>, NextType) = <<7, TRUE, Parens(stack)>>
    BY <1>2, <2>3, BehindRead
  <2> QED BY <2>1, <2>2, <2>4
<1>9. LookedAhead'
  BY <1>1, <1>7 DEF LookedAhead, Returned
<1>10. Read'
  <2>1. Parens(stack)' = Parens(stack)
    BY <1>7
  <2> QED BY <1>1, <1>2, <1>8, <2>1 DEF Read, Returned, Failed
<1> QED BY <1>7, <1>9, <1>10 DEF GInv

LEMMA LeaveLevelReads ==
  ASSUME GInv, PInv', LeaveLevel
  PROVE  GInv'
<1>1. /\ mode = "loop" /\ mode' = Resume(stack') /\ NextType \notin Levels[Top.level] /\ buffer # <<>>
      /\ stack' = SubSeq(stack, 1, Len(stack) - 1) /\ value' = Top.left
      /\ UNCHANGED <<input, buffer, result, at>>
  BY DEF LeaveLevel, LookNot, Under, callVars
<1>2. /\ stack \in Seq(Calls) /\ stack # <<>> /\ Linked(stack) /\ result = "none" /\ at = 7
      /\ Top \in Calls /\ Top.fn = "level" /\ Len(stack) \in 1..Len(stack)
  BY <1>1, Working DEF GInv, PInv, Located, Running
<1>3. Top.level \in 1..Deepest
  BY <1>2 DEF GInv, PInv, FramesShaped, FrameShaped, Top
<1>4. /\ Linked(stack') /\ Parens(stack) = Parens(stack')
      /\ Top.level = 1 => stack' = <<>> \/ Top'.fn = "paren"
      /\ Top.level # 1 => stack' # <<>> /\ Top'.fn = "level" /\ Top'.level = Top.level - 1
  <2>1. Top = stack[Len(stack)] /\ Top' = stack'[Len(stack')]
    BY DEF Top
  <2>2. Linked(stack')
    BY <1>1, <1>2, <2>1, ReturnedTo
  <2>3. Parens(stack) = Parens(stack')
    BY <1>1, <1>2, <2>1, ReturnedTo
  <2>4. Top.level = 1 => stack' = <<>> \/ Top'.fn = "paren"
    BY <1>1, <1>2, <2>1, ReturnedTo
  <2>5. Top.level # 1 => stack' # <<>> /\ Top'.fn = "level"
    BY <1>1, <1>2, <2>1, ReturnedTo
  <2>6. Top.level # 1 => Top'.level = Top.level - 1
    BY <1>1, <1>2, <2>1, ReturnedTo
  <2> QED BY <2>2, <2>3, <2>4, <2>5, <2>6
<1>5. NextType \notin Deeper(Top.level - 1)
  <2>1. NextType \notin Deeper(Top.level)
    BY <1>1, LevelsBelow DEF GInv, LookedAhead
  <2> QED BY <1>1, <1>3, <2>1, LevelsBelow
<1>6. value' # {}
  BY <1>1 DEF GInv, LookedAhead
<1>7. stack' = <<>> => mode' = "expect" /\ Parens(stack') = 0
  BY <1>1, ParensCounted DEF Resume, PInv, Typed
<1>8. CASE Top.level = 1
  <2>1. NextType \notin Infix
    <3>1. Top.level - 1 = 0
      BY <1>8
    <3> QED BY <1>5, <3>1, LevelsBelow
  <2>2. mode' = "expect" \/ mode' = "close"
    BY <1>1, <1>4, <1>8 DEF Resume, Top
  <2>3. mode' = "expect" => stack' = <<>>
    BY <1>1, <1>4, <1>8 DEF Resume, Top
  <2>4. LookedAhead'
    BY <1>1, <1>6, <2>1, <2>2 DEF LookedAhead, NextType, NextToken
  <2>5. StateAfter(Eaten)' = <<7, FALSE, Parens(stack')>>
    <3>1. StateAfter(Eaten) = <<7, FALSE, Parens(stack)>>
      BY <1>1 DEF GInv, Read
    <3> QED BY <1>1, <1>4, <3>1, NothingConsumed DEF GInv
  <2>6. Read'
    <3>1. mode' = "expect" => StateAfter(Eaten)' = <<7, FALSE, 0>>
      BY <1>7, <2>3, <2>5
    <3>2. ~Failed' /\ (mode' = "expect" => Returned') /\ at' = 7
      BY <1>1, <1>2, <1>6, <2>2 DEF Failed, Returned
    <3>3. StateAfter(Eaten)' = <<7, FALSE, Parens(stack)'>>
      BY <2>5 DEF Parens
    <3>4. mode' \in {"expect", "close"} /\ result' = "none" /\ value' # {}
      BY <1>1, <1>2, <1>6, <2>2
    <3>5. CASE mode' = "expect"
      BY <3>1, <3>2, <3>4, <3>5 DEF Read
    <3>6. CASE mode' = "close"
      BY <3>2, <3>3, <3>4, <3>6 DEF Read, Returned
    <3> QED BY <3>4, <3>5, <3>6
  <2> QED BY <1>4, <2>4, <2>6 DEF GInv
<1>9. CASE Top.level # 1
  <2>1. mode' = "operand"
    BY <1>1, <1>4, <1>9 DEF Resume, Top
  <2>2. LookedAhead'
    BY <1>1, <1>4, <1>5, <1>6, <1>9, <2>1 DEF LookedAhead, Returned, NextType, NextToken
  <2>3. StateAfter(Eaten)' = <<7, FALSE, Parens(stack')>>
    <3>1. StateAfter(Eaten) = <<7, FALSE, Parens(stack)>>
      BY <1>1 DEF GInv, Read
    <3> QED BY <1>1, <1>4, <3>1, NothingConsumed DEF GInv
  <2>4. Read'
    <3>1. StateAfter(Eaten)' = <<7, FALSE, Parens(stack)'>>
      BY <2>3 DEF Parens
    <3> QED BY <1>1, <1>2, <2>1, <3>1 DEF Read, Returned, Failed
  <2> QED BY <1>4, <2>2, <2>4 DEF GInv
<1> QED BY <1>8, <1>9

LEMMA UnwindReads ==
  ASSUME GInv, PInv', Unwind
  PROVE  GInv'
<1>1. /\ mode = "error" /\ mode' = "error" /\ UNCHANGED <<input, buffer, result>> /\ stack # <<>>
      /\ stack' = SubSeq(stack, 1, Len(stack) - 1)
  BY DEF Unwind, Under, callVars
<1>2. Linked(stack') /\ result = "none"
  <2>1. stack \in Seq(Calls) /\ Linked(stack) /\ result = "none"
    BY <1>1, Working DEF GInv, Running
  <2> QED BY <1>1, <2>1, ReturnedTo
<1>3. /\ StateAfter(Len(input))' = Dead /\ StateAfter(Len(input) - 1)' # Dead
  BY <1>1, NothingConsumed DEF GInv, Read, Failed
<1> QED BY <1>1, <1>2, <1>3 DEF GInv, Read, LookedAhead, Returned
----------------------------------------------------------------------------
LEMMA GrammarInit == Init => GInv
<1> SUFFICES ASSUME Init PROVE GInv
  OBVIOUS
<1>1. PInv
  BY InitHolds
<1>2. Linked(stack)
  <2>1. 1..Len(stack) = {}
    BY DEF Init
  <2> QED BY <2>1 DEF Linked
<1>3. LookedAhead
  BY DEF Init, LookedAhead, Returned
<1>4. Eaten = 0
  <2>1. Len(input) = 1 /\ Len(buffer) = 1
    BY DEF Init
  <2> QED BY <2>1 DEF Eaten
<1>5. Read
  <2>1. StateAfter(Eaten) = <<1, TRUE, 0>>
    BY <1>4, StateSteps
  <2>2. at = 1 /\ mode = "expect" /\ result = "none"
    BY DEF Init
  <2> QED BY <2>1, <2>2 DEF Read, Returned, Failed
<1> QED BY <1>1, <1>2, <1>3, <1>5 DEF GInv

LEMMA GrammarNext == GInv /\ [Next]_vars => GInv'
<1> SUFFICES ASSUME GInv, [Next]_vars PROVE GInv'
  OBVIOUS
<1>0. PInv'
  BY StepHolds DEF GInv
<1>1. CASE UNCHANGED vars
  <2>1. Linked(stack') /\ LookedAhead'
    BY <1>1 DEF vars, treeVars, callVars, GInv, LookedAhead, Returned, Top, NextType, NextToken
  <2>2. /\ UNCHANGED <<input, buffer, mode, at, value, stack, result>>
        /\ Failed' = Failed /\ Returned' = Returned /\ Parens(stack)' = Parens(stack)
    BY <1>1 DEF vars, treeVars, callVars, Failed, Returned, Parens
  <2>3. /\ StateAfter(Eaten)' = StateAfter(Eaten)
        /\ StateAfter(Len(input))' = StateAfter(Len(input))
        /\ StateAfter(Len(input) - 1)' = StateAfter(Len(input) - 1)
    BY <2>2, NothingConsumed DEF GInv
  <2>4. Read'
    BY <2>2, <2>3 DEF GInv, Read
  <2> QED BY <1>0, <2>1, <2>4 DEF GInv
<1>2. CASE Lex
  BY <1>0, <1>2, LexReads
<1>3. CASE Function
  BY <1>0, <1>3, ExpectReads, ExpectFailsReads, CallExpressionReads, ExpressionReturnedReads,
     ExpressionFailedReads, FinishReads DEF Function
<1>4. CASE Primary
  BY <1>0, <1>4, UnaryOperatorReads, OpenParenReads, NumberReads, UnexpectedReads, NegateReads,
     CloseParenReads, CloseParenFailsReads DEF Primary
<1>5. CASE Binary
  BY <1>0, <1>5, FirstOperandReads, MatchOperatorReads, RightOperandReads, LeaveLevelReads, UnwindReads
     DEF Binary
<1>6. CASE ParserFree \/ ProgramFree
  BY <1>0, <1>6, ReleaseReads
<1>7. Terminating => UNCHANGED vars
  BY DEF Terminating
<1> QED BY <1>1, <1>2, <1>3, <1>4, <1>5, <1>6, <1>7 DEF Next

LEMMA GrammarInvariant == Spec => []GInv
BY GrammarInit, GrammarNext, PTL DEF Spec

(* A source is accepted exactly when its tokens, up to the one where the   *)
(* parser stops, are a program of the grammar; an error is reported at the *)
(* first token with which no program goes on.                              *)
THEOREM ParserGrammar == Spec => []GrammarExact
<1>1. GInv => GrammarExact
  BY DEF GInv, Read, Failed, GrammarExact
<1> QED BY <1>1, GrammarInvariant, PTL
----------------------------------------------------------------------------
(* What the parser's trees are. *)

(* The tokens up to a place, as the properties see them: the depth behind  *)
(* each token, the nodes, the numbers, the binary operators and how they   *)
(* bind.                                                                   *)
Tables ==
    [depth   |-> [i \in 0..Len(input) |-> Depth(i)],
     marks   |-> {i \in Places : IsNode(i)},
     numbers |-> {i \in Places : input[i] = "TT_NUM"},
     infix   |-> {i \in Places : IsBinary(i)},
     binding |-> [i \in Places |-> Binding(input[i])]]
Sound(T, e) ==
    /\ e \in Nat /\ \A j \in 0..e : T.depth[j] \in Int
    /\ T.infix \subseteq T.marks /\ T.marks \subseteq Nat /\ T.numbers \cap T.infix = {}
    /\ \A j \in T.infix : j <= e => T.binding[j] \in 1..Deepest

(* Does j end an operand at depth d, for operators of this binding?        *)
Stops(T, j, d, bound) ==
    T.depth[j] < d \/ (T.depth[j] = d /\ j \in T.infix /\ T.binding[j] >= bound)
Span(T, a, e) == {i \in a..e : i \in T.marks}
Reach(T, x) == IF x \in T.infix THEN T.binding[x] ELSE 1
LeftOf(T, x) ==
    {i \in T.marks : i < x /\ \A j \in i..(x - 1) : ~Stops(T, j, T.depth[x], T.binding[x] + 1)}
RightOf(T, x, e) ==
    {i \in (x + 1)..e : i \in T.marks
                        /\ \A j \in (x + 1)..i : ~Stops(T, j, T.depth[x], Reach(T, x))}

(* Each expression is right for the tokens consumed so far.                *)
Right(T, e, nodes) ==
    \A x \in DOMAIN nodes :
        /\ x \in T.marks /\ x <= e
        /\ x \in T.numbers => nodes[x] = [left |-> {}, right |-> {}]
        /\ x \notin T.numbers =>
               nodes[x] = [left |-> IF x \in T.infix THEN LeftOf(T, x) ELSE {},
                           right |-> RightOf(T, x, e)]

(* The right operand of x has ended; or x is where the parser is now, and  *)
(* binds no looser than the limit.                                         *)
Ended(T, e, x) == \E j \in (x + 1)..e : Stops(T, j, T.depth[x], Reach(T, x))
Settled(T, e, nodes, limit) ==
    \A x \in DOMAIN nodes :
        \/ x \in T.numbers
        \/ Ended(T, e, x)
        \/ Reach(T, x) <= limit /\ T.depth[x] >= T.depth[e]

(* A function f that was called at the place b, d parentheses deep.  Its   *)
(* weight is the binding of its operators.                                 *)
Weight(f) == IF f.fn = "level" THEN Deepest + 1 - f.level ELSE 0
Fits(T, e, f, b, d) ==
    /\ b \in 7..(e + 1) /\ d \in Nat
    /\ \A j \in b..e : /\ T.depth[j] >= d
                       /\ T.depth[j] = d /\ j \in T.infix => T.binding[j] <= Weight(f)
    /\ f.fn = "level" =>
           \A i \in T.marks : i < b => \E m \in i..(b - 1) : Stops(T, m, d, Weight(f) + 1)
    /\ f.fn = "paren" => b <= e /\ b \notin T.marks
    /\ f.op # 0 =>
           /\ f.op \in b..e /\ f.op \in T.marks /\ f.op \notin T.numbers /\ T.depth[f.op] = d
           /\ f.fn = "level" => /\ f.op \in T.infix /\ T.binding[f.op] = Weight(f)
                                /\ f.left = Span(T, b, f.op - 1) /\ f.left = LeftOf(T, f.op)
           /\ f.fn # "level" => f.op = b /\ f.op \notin T.infix
           /\ \A j \in (f.op + 1)..e : ~Stops(T, j, d, Reach(T, f.op))

(* Where the next operand of f begins, and how deep.                       *)
From(f, b)  == IF f.op # 0 THEN f.op + 1 ELSE IF f.fn = "paren" THEN b + 1 ELSE b
Inner(f, d) == IF f.fn = "paren" THEN d + 1 ELSE d

(* f, at depth d, runs below g, at depth c.                                *)
Below(f, d, g, c) ==
    d <= c /\ (d = c => Weight(f) >= Weight(g) /\ (Weight(g) > 0 => Weight(f) > Weight(g)))

AllFit(T, e, frames, B, D) ==
    /\ frames # <<>> => B[1] = 7 /\ D[1] = 0
    /\ \A i \in 1..Len(frames) : Fits(T, e, frames[i], B[i], D[i])
    /\ \A i, j \in 1..Len(frames) :
           j = i + 1 => B[j] = From(frames[i], B[i]) /\ D[j] = Inner(frames[i], D[i])
    /\ \A i, j \in 1..Len(frames) : i < j => Below(frames[i], D[i], frames[j], D[j])
Begins(frames, B) == IF frames = <<>> THEN 7 ELSE From(frames[Len(frames)], B[Len(frames)])
Deep(frames, D)   == IF frames = <<>> THEN 0 ELSE Inner(frames[Len(frames)], D[Len(frames)])
Limit(frames) ==
    IF frames = <<>> THEN Deepest
    ELSE CASE frames[Len(frames)].fn = "level" -> Weight(frames[Len(frames)])
           [] frames[Len(frames)].fn = "unary" -> 1
           [] frames[Len(frames)].fn = "paren" -> Deepest

Operand == mode \in {"negate", "operand", "close"} \/ (mode = "expect" /\ at = 7 /\ value # {})
InHand(T, e, B, D) ==
    /\ mode = "unary" \/ mode = "loop" \/ Operand => T.depth[e] = Deep(stack, D)
    /\ mode = "unary" => /\ e + 1 = Begins(stack, B) /\ input[e] \notin {"TT_NUM", "TT_RPAREN"}
                         /\ Settled(T, e, heap, 0)
    /\ mode = "loop" \/ Operand => /\ input[e] \in {"TT_NUM", "TT_RPAREN"}
                                   /\ Settled(T, e, heap, Limit(stack))
    /\ Operand => value = Span(T, Begins(stack, B), e)
    /\ mode = "loop" => Top.left = Span(T, B[Len(stack)], e)

(* Before the expression, and behind it.                                   *)
Ahead  == mode = "expect" /\ at <= 7 /\ value = {}
Behind == (mode = "expect" /\ at > 7) \/ (mode = "done" /\ result = "ok")
Outside(T, e) ==
    /\ Ahead => /\ DOMAIN heap = {} /\ e = at - 1 /\ T.depth[e] = IF at = 4 THEN 1 ELSE 0
                /\ at > 1 => input[e] = Outline[e]
    /\ Behind => expression = Span(T, 7, e)

SpanInv ==
    ~Failed /\ mode # "freed" =>
        /\ Sound(Tables, Eaten) /\ Right(Tables, Eaten, heap)
        /\ Outside(Tables, Eaten)
        /\ \E B, D : AllFit(Tables, Eaten, stack, B, D) /\ InHand(Tables, Eaten, B, D)
----------------------------------------------------------------------------
(* One more token. *)

LEMMA WeightIn ==
  ASSUME NEW f \in Calls
  PROVE  /\ Weight(f) \in Nat /\ f.op \in Nat /\ f.fn \in {"level", "unary", "paren"}
         /\ f.fn = "level" => f.level \in Nat /\ Weight(f) = 11 - f.level
         /\ f.fn # "level" => Weight(f) = 0
BY DEF Weight, Calls, Deepest

LEMMA ReachIn ==
  ASSUME NEW T, NEW e, Sound(T, e), NEW x \in Nat, x <= e
  PROVE  Reach(T, x) \in 1..Deepest
BY DEF Reach, Sound, Deepest

(* The functions that keep running see a token they do not end at.         *)
LEMMA FitsOn ==
  ASSUME NEW T, NEW e, NEW k, k = e + 1, Sound(T, e), NEW f \in Calls, NEW b, NEW d,
         Fits(T, e, f, b, d), T.depth[k] \in Int, T.depth[k] >= d,
         T.depth[k] = d /\ k \in T.infix =>
             /\ T.binding[k] \in Int /\ T.binding[k] <= Weight(f)
             /\ f.op # 0 => T.binding[k] < Reach(T, f.op)
  PROVE  Fits(T, k, f, b, d)
<1>1. /\ e \in Nat /\ k \in Nat /\ b \in Nat /\ b \in 7..(k + 1) /\ d \in Nat /\ f.op \in Nat
  BY WeightIn DEF Sound, Fits
<1>2. \A j \in b..k : j \in b..e \/ j = k
  BY <1>1
<1>3. \A j \in b..k : /\ T.depth[j] >= d
                      /\ T.depth[j] = d /\ j \in T.infix => T.binding[j] <= Weight(f)
  BY <1>2 DEF Fits
<1>4. ASSUME f.op # 0
      PROVE  /\ f.op \in b..k
             /\ \A j \in (f.op + 1)..k : ~Stops(T, j, d, Reach(T, f.op))
  <2>1. f.op \in b..e /\ \A j \in (f.op + 1)..e : ~Stops(T, j, d, Reach(T, f.op))
    BY <1>4 DEF Fits
  <2>2. \A j \in (f.op + 1)..k : j \in (f.op + 1)..e \/ j = k
    BY <1>1, <2>1
  <2>3. Reach(T, f.op) \in Int
    BY <1>1, <2>1, ReachIn DEF Deepest
  <2>4. ~Stops(T, k, d, Reach(T, f.op))
    BY <1>1, <1>4, <2>3 DEF Stops
  <2> QED BY <1>1, <2>1, <2>2, <2>4
<1> QED BY <1>1, <1>3, <1>4 DEF Fits

LEMMA EndedOn ==
  ASSUME NEW T, NEW e \in Nat, NEW k, k = e + 1, NEW x \in Nat, Ended(T, e, x)
  PROVE  Ended(T, k, x)
BY DEF Ended

(* The trees stay right when the token is no node, or after all of them.   *)
LEMMA RightOn ==
  ASSUME NEW T, NEW e, NEW k, k = e + 1, Sound(T, e), NEW nodes, Right(T, e, nodes),
         k \notin T.marks \/ Settled(T, k, nodes, 0),
         T.depth[k] \in Int, k \in T.infix => T.binding[k] \in 1..Deepest
  PROVE  Right(T, k, nodes)
<1> SUFFICES ASSUME NEW x \in DOMAIN nodes
             PROVE  x <= k /\ (x \notin T.numbers => RightOf(T, x, k) = RightOf(T, x, e))
  BY DEF Right
<1>1. e \in Nat /\ k \in Nat /\ x \in Nat /\ x <= e
  BY DEF Sound, Right
<1>2. \A i \in (x + 1)..k : i \in (x + 1)..e \/ i = k
  BY <1>1
<1>3. \A i \in (x + 1)..e : i \in (x + 1)..k
  BY <1>1
<1>4. ASSUME x \notin T.numbers, k \in T.marks PROVE Ended(T, k, x)
  <2>1. Reach(T, x) \in 1..Deepest
    BY <1>1, ReachIn
  <2>2. ~(Reach(T, x) <= 0)
    BY <2>1 DEF Deepest
  <2> QED BY <1>4, <2>2 DEF Settled
<1>5. ASSUME x \notin T.numbers, k \in T.marks PROVE k \notin RightOf(T, x, k)
  BY <1>4, <1>5 DEF Ended, RightOf
<1> QED BY <1>1, <1>2, <1>3, <1>5 DEF RightOf

LEMMA SettledOn ==
  ASSUME NEW T, NEW e, NEW k, k = e + 1, Sound(T, e), NEW nodes, Right(T, e, nodes),
         NEW limit \in Int, Settled(T, e, nodes, limit),
         \/ limit = 0
         \/ T.depth[k] < T.depth[e]
         \/ T.depth[k] = T.depth[e] /\ k \in T.infix /\ limit <= T.binding[k] /\ T.binding[k] \in Int,
         T.depth[k] \in Int
  PROVE  Settled(T, k, nodes, 0)
<1> SUFFICES ASSUME NEW x \in DOMAIN nodes, x \notin T.numbers PROVE Ended(T, k, x)
  BY DEF Settled
<1>1. e \in Nat /\ k \in Nat /\ x \in Nat /\ x <= e
  BY DEF Sound, Right
<1>2. Reach(T, x) \in 1..Deepest
  BY <1>1, ReachIn
<1>3. CASE Ended(T, e, x)
  BY <1>1, <1>3, EndedOn
<1>4. CASE ~Ended(T, e, x)
  <2>1. Reach(T, x) <= limit /\ T.depth[x] >= T.depth[e] /\ Reach(T, x) \in Int /\ Reach(T, x) > 0
    BY <1>2, <1>4 DEF Settled, Deepest
  <2>2. k \in (x + 1)..k
    BY <1>1
  <2>3. T.depth[x] \in Int /\ T.depth[e] \in Int
    BY <1>1 DEF Sound
  <2>4. Stops(T, k, T.depth[x], Reach(T, x))
    BY <2>1, <2>3 DEF Stops
  <2> QED BY <2>2, <2>4 DEF Ended
<1> QED BY <1>3, <1>4

(* Any limit will do when every operand has ended.                         *)
LEMMA SettledWithin ==
  ASSUME NEW T, NEW e, Sound(T, e), NEW nodes, Right(T, e, nodes),
         NEW a \in Int, NEW c \in Int, Settled(T, e, nodes, a), a <= c
  PROVE  Settled(T, e, nodes, c)
<1> SUFFICES ASSUME NEW x \in DOMAIN nodes, Reach(T, x) <= a PROVE Reach(T, x) <= c
  BY DEF Settled
<1>1. e \in Nat /\ x \in Nat /\ x <= e
  BY DEF Sound, Right
<1>2. Reach(T, x) \in Int
  BY <1>1, ReachIn DEF Deepest
<1> QED BY <1>2
----------------------------------------------------------------------------
(* Trees joined. *)

LEMMA NumberRight ==
  ASSUME NEW T, NEW e, Sound(T, e), NEW nodes, Right(T, e, nodes), NEW x \in Nat, x <= e,
         x \in T.marks, x \in T.numbers
  PROVE  /\ Right(T, e, Grown(nodes, x, {}, {}))
         /\ \A c \in Int : Settled(T, e, nodes, c) => Settled(T, e, Grown(nodes, x, {}, {}), c)
<1> DEFINE N == Grown(nodes, x, {}, {})
<1>1. DOMAIN N = DOMAIN nodes \cup {x} /\ N[x] = [left |-> {}, right |-> {}]
      /\ \A k \in DOMAIN nodes : k # x => N[k] = nodes[k]
  BY DEF Grown
<1> HIDE DEF N
<1>2. Right(T, e, N)
  <2> SUFFICES ASSUME NEW k \in DOMAIN N
               PROVE  /\ k \in T.marks /\ k <= e
                      /\ k \in T.numbers => N[k] = [left |-> {}, right |-> {}]
                      /\ k \notin T.numbers =>
                            N[k] = [left |-> IF k \in T.infix THEN LeftOf(T, k) ELSE {},
                                    right |-> RightOf(T, k, e)]
    BY DEF Right
  <2>1. CASE k = x
    BY <1>1, <2>1
  <2>2. CASE k # x
    <3>1. k \in DOMAIN nodes /\ N[k] = nodes[k]
      BY <1>1, <2>2
    <3> QED BY <3>1 DEF Right
  <2> QED BY <2>1, <2>2
<1>3. ASSUME NEW c \in Int, Settled(T, e, nodes, c) PROVE Settled(T, e, N, c)
  BY <1>1, <1>3 DEF Settled
<1> QED BY <1>2, <1>3 DEF N

(* A function f that has its operator and its right operand makes an       *)
(* expression of them.                                                     *)
LEMMA OperatorRight ==
  ASSUME NEW T, NEW e, Sound(T, e), NEW nodes, Right(T, e, nodes), NEW f \in Calls, f.op # 0,
         NEW b, NEW d, Fits(T, e, f, b, d), f.fn # "level" => f.left = {},
         NEW limit \in Int, Settled(T, e, nodes, limit), Reach(T, f.op) <= limit,
         T.depth[e] = d,
         NEW right, right = Span(T, f.op + 1, e),
         NEW N, N = Grown(nodes, f.op, f.left, right)
  PROVE  /\ Right(T, e, N) /\ Settled(T, e, N, limit)
         /\ {f.op} \cup f.left \cup right = Span(T, b, e)
<1> DEFINE x == f.op
<1>0. /\ x \in Nat /\ x \in b..e /\ x \in T.marks /\ x \notin T.numbers /\ T.depth[x] = d
      /\ f.fn = "level" => /\ x \in T.infix /\ f.left = Span(T, b, x - 1) /\ f.left = LeftOf(T, x)
      /\ f.fn # "level" => x = b /\ x \notin T.infix /\ f.left = {}
      /\ \A j \in (x + 1)..e : ~Stops(T, j, d, Reach(T, x))
      /\ b \in Nat /\ e \in Nat
  <2>1. b \in 7..(e + 1) /\ e \in Nat
    BY DEF Fits, Sound
  <2> QED BY <2>1, WeightIn DEF Fits
<1>1. DOMAIN N = DOMAIN nodes \cup {x} /\ N[x] = [left |-> f.left, right |-> right]
      /\ \A k \in DOMAIN nodes : k # x => N[k] = nodes[k]
  BY DEF Grown
<1>2. right = RightOf(T, x, e)
  <2>1. \A i \in (x + 1)..e : \A j \in (x + 1)..i : j \in (x + 1)..e
    BY <1>0
  <2>2. \A i \in (x + 1)..e : \A j \in (x + 1)..i : ~Stops(T, j, T.depth[x], Reach(T, x))
    BY <1>0, <2>1
  <2>3. \A i \in (x + 1)..e : i \in T.marks <=> i \in T.marks /\ \A j \in (x + 1)..i : ~Stops(T, j, T.depth[x], Reach(T, x))
    BY <2>2
  <2>4. Span(T, x + 1, e) = {i \in (x + 1)..e : i \in T.marks}
    BY DEF Span
  <2>5. RightOf(T, x, e) = {i \in (x + 1)..e : i \in T.marks
                        /\ \A j \in (x + 1)..i : ~Stops(T, j, T.depth[x], Reach(T, x))}
    BY DEF RightOf
  <2> QED BY <2>3, <2>4, <2>5
<1>3. f.left = IF x \in T.infix THEN LeftOf(T, x) ELSE {}
  BY <1>0, WeightIn
<1> HIDE DEF x
<1>4. Right(T, e, N)
  <2> SUFFICES ASSUME NEW k \in DOMAIN N
               PROVE  /\ k \in T.marks /\ k <= e
                      /\ k \in T.numbers => N[k] = [left |-> {}, right |-> {}]
                      /\ k \notin T.numbers =>
                            N[k] = [left |-> IF k \in T.infix THEN LeftOf(T, k) ELSE {},
                                    right |-> RightOf(T, k, e)]
    BY DEF Right
  <2>1. CASE k = x
    BY <1>0, <1>1, <1>2, <1>3, <2>1
  <2>2. CASE k # x
    <3>1. k \in DOMAIN nodes /\ N[k] = nodes[k]
      BY <1>1, <2>2
    <3> QED BY <3>1 DEF Right
  <2> QED BY <2>1, <2>2
<1>5. Settled(T, e, N, limit)
  <2>1. T.depth[x] >= T.depth[e]
    <3>1. T.depth[e] \in Int
      BY <1>0 DEF Sound
    <3> QED BY <1>0, <3>1
  <2>2. Reach(T, x) <= limit
    BY DEF x
  <2> QED BY <1>1, <2>1, <2>2 DEF Settled
<1>6. {x} \cup f.left \cup right = Span(T, b, e)
  <2>1. right = Span(T, x + 1, e)
    BY DEF x
  <2>2. CASE f.fn = "level"
    <3>1. f.left = Span(T, b, x - 1)
      BY <1>0, <2>2
    <3> QED BY <1>0, <2>1, <3>1 DEF Span
  <2>3. CASE f.fn # "level"
    BY <1>0, <2>1, <2>3 DEF Span
  <2> QED BY <2>2, <2>3
<1> QED BY <1>4, <1>5, <1>6 DEF x

(* An operator met behind a left operand.                                  *)
LEMMA OperatorFits ==
  ASSUME NEW T, NEW e, NEW k, k = e + 1, Sound(T, e), NEW f \in Calls, f.fn = "level", f.op = 0,
         NEW b, NEW d, Fits(T, e, f, b, d), f.left = Span(T, b, e),
         T.depth[k] = d, k \in T.infix, k \in T.marks, k \notin T.numbers,
         T.binding[k] = Weight(f),
         NEW g \in Calls, g.fn = "level", g.level = f.level, g.left = f.left, g.op = k
  PROVE  Fits(T, k, g, b, d)
<1>1. /\ e \in Nat /\ k \in Nat /\ b \in 7..k /\ d \in Nat /\ k - 1 = e /\ k # 0
      /\ Weight(f) \in Nat /\ Weight(g) = Weight(f)
  BY WeightIn DEF Sound, Fits, Weight
<1>2. \A j \in b..k : j \in b..e \/ j = k
  BY <1>1
<1>3. \A j \in b..k : /\ T.depth[j] >= d
                      /\ T.depth[j] = d /\ j \in T.infix => T.binding[j] <= Weight(f)
  <2>1. T.depth[k] >= d
    BY <1>1
  <2> QED BY <1>1, <1>2, <2>1 DEF Fits
<1>4. LeftOf(T, k) = Span(T, b, e)
  <2>1. ASSUME NEW i \in T.marks, i < k, \A j \in i..(k - 1) : ~Stops(T, j, T.depth[k], T.binding[k] + 1)
        PROVE  i \in b..e
    <3>1. i \in Nat
      BY DEF Sound
    <3>2. CASE i < b
      <4>1. PICK m \in i..(b - 1) : Stops(T, m, d, Weight(f) + 1)
        BY <3>2 DEF Fits
      <4>2. m \in i..(k - 1)
        BY <1>1, <3>1
      <4> QED BY <2>1, <4>1, <4>2
    <3> QED BY <1>1, <2>1, <3>1, <3>2
  <2>2. ASSUME NEW i \in b..e, NEW j \in i..(k - 1)
        PROVE  ~Stops(T, j, T.depth[k], T.binding[k] + 1)
    <3>1. j \in b..e /\ j \in Nat
      BY <1>1
    <3>2. T.depth[j] >= d /\ (T.depth[j] = d /\ j \in T.infix => T.binding[j] <= Weight(f))
      BY <3>1 DEF Fits
    <3>3. T.depth[j] \in Int
      BY <1>1, <3>1 DEF Sound
    <3>4. j \in T.infix => T.binding[j] \in Int
      BY <1>1, <3>1 DEF Sound, Deepest
    <3> QED BY <1>1, <3>2, <3>3, <3>4 DEF Stops
  <2>3. \A i \in b..e : i < k
    BY <1>1
  <2> QED BY <2>1, <2>2, <2>3 DEF LeftOf, Span
<1>5. g.op \in b..k /\ (\A j \in (g.op + 1)..k : FALSE) /\ g.op # 0 /\ g.op - 1 = e
  BY <1>1
<1>6. \A i \in T.marks : i < b => \E m \in i..(b - 1) : Stops(T, m, d, Weight(g) + 1)
  BY <1>1 DEF Fits
<1>7. g.left = Span(T, b, g.op - 1) /\ g.left = LeftOf(T, g.op)
  BY <1>4, <1>5
<1> QED BY <1>1, <1>3, <1>5, <1>6, <1>7 DEF Fits
----------------------------------------------------------------------------
(* The functions that run, as they come and go. *)

LEMMA AllSeen ==
  ASSUME NEW T, NEW e, Sound(T, e), NEW S \in Seq(Calls), NEW B, NEW D, AllFit(T, e, S, B, D)
  PROVE  /\ Begins(S, B) \in Nat /\ Begins(S, B) >= 7 /\ Deep(S, D) \in Nat
         /\ S # <<>> => /\ Begins(S, B) <= e + 1 /\ Len(S) \in 1..Len(S) /\ S[Len(S)] \in Calls
                        /\ Fits(T, e, S[Len(S)], B[Len(S)], D[Len(S)])
         /\ \A i \in 1..Len(S) : D[i] \in Nat /\ D[i] <= Deep(S, D) /\ B[i] \in Nat
<1>1. e \in Nat /\ Len(S) \in Nat
  BY LenProperties DEF Sound
<1>2. \A i \in 1..Len(S) : D[i] \in Nat /\ B[i] \in 7..(e + 1)
  BY DEF AllFit, Fits
<1>3. CASE S = <<>>
  BY <1>1, <1>3 DEF Begins, Deep, AllFit
<1>4. CASE S # <<>>
  <2>1. /\ S[Len(S)] \in Calls /\ Len(S) \in 1..Len(S) /\ Len(S) \in Nat \ {0}
    BY <1>4, Popped
  <2>2. Fits(T, e, S[Len(S)], B[Len(S)], D[Len(S)])
    BY <2>1 DEF AllFit
  <2> DEFINE f == S[Len(S)]
             b == B[Len(S)]
             d == D[Len(S)]
  <2> HIDE DEF f, b, d
  <2>3. f \in Calls /\ Fits(T, e, f, b, d) /\ f.op \in Nat
    BY <2>1, <2>2, WeightIn DEF f, b, d
  <2>4. b \in 7..(e + 1) /\ d \in Nat /\ (f.fn = "paren" => b <= e) /\ (f.op # 0 => f.op \in b..e)
    BY <2>3 DEF Fits
  <2>5. From(f, b) \in Nat /\ From(f, b) >= 7 /\ From(f, b) <= e + 1
    BY <1>1, <2>3, <2>4 DEF From
  <2>6. Inner(f, d) \in Nat /\ d <= Inner(f, d)
    BY <2>4 DEF Inner
  <2>7. Begins(S, B) = From(f, b) /\ Deep(S, D) = Inner(f, d)
    BY <1>4 DEF Begins, Deep, f, b, d
  <2>8. \A i \in 1..Len(S) : D[i] <= d
    <3> SUFFICES ASSUME NEW i \in 1..Len(S) PROVE D[i] <= D[Len(S)]
      BY DEF d
    <3>1. i = Len(S) \/ i < Len(S)
      BY <2>1
    <3>2. i < Len(S) => D[i] <= D[Len(S)]
      BY <2>1 DEF AllFit, Below
    <3> QED BY <1>2, <3>1, <3>2
  <2> QED BY <1>2, <2>1, <2>2, <2>4, <2>5, <2>6, <2>7, <2>8
<1> QED BY <1>3, <1>4

(* A token that is no operator and closes no parenthesis of theirs.        *)
LEMMA AllFitOn ==
  ASSUME NEW T, NEW e, NEW k, k = e + 1, Sound(T, e), NEW S \in Seq(Calls), NEW B, NEW D,
         AllFit(T, e, S, B, D), T.depth[k] \in Int, k \notin T.infix,
         \A i \in 1..Len(S) : T.depth[k] >= D[i]
  PROVE  AllFit(T, k, S, B, D)
<1>1. ASSUME NEW i \in 1..Len(S) PROVE Fits(T, k, S[i], B[i], D[i])
  <2>1. S[i] \in Calls /\ Fits(T, e, S[i], B[i], D[i])
    BY ElementOfSeq DEF AllFit
  <2> QED BY <2>1, FitsOn
<1> QED BY <1>1 DEF AllFit

(* The innermost one goes on; it returns; others are called.               *)
LEMMA AllFitTop ==
  ASSUME NEW T, NEW e, NEW k, NEW S \in Seq(Calls), S # <<>>, NEW B, NEW D, AllFit(T, e, S, B, D),
         NEW V \in Seq(Calls), Len(V) = Len(S), \A i \in 1..(Len(S) - 1) : V[i] = S[i],
         V[Len(S)].fn = S[Len(S)].fn, V[Len(S)].level = S[Len(S)].level,
         \A i \in 1..(Len(S) - 1) : Fits(T, k, S[i], B[i], D[i]),
         Fits(T, k, V[Len(S)], B[Len(S)], D[Len(S)])
  PROVE  AllFit(T, k, V, B, D)
<1>1. Len(S) \in Nat \ {0} /\ V # <<>>
  BY Popped
<1>2. \A i \in 1..Len(V) : i = Len(S) \/ i \in 1..(Len(S) - 1)
  BY <1>1
<1>3. \A i \in 1..Len(V) : Fits(T, k, V[i], B[i], D[i])
  <2> SUFFICES ASSUME NEW i \in 1..Len(V) PROVE Fits(T, k, V[i], B[i], D[i])
    OBVIOUS
  <2>1. CASE i = Len(S)
    BY <2>1, Zenon
  <2>2. CASE i \in 1..(Len(S) - 1)
    BY <2>2, Zenon
  <2> QED BY <1>2, <2>1, <2>2
<1>4. \A i, j \in 1..Len(V) : j = i + 1 => B[j] = From(V[i], B[i]) /\ D[j] = Inner(V[i], D[i])
  <2> SUFFICES ASSUME NEW i \in 1..Len(V), NEW j \in 1..Len(V), j = i + 1
               PROVE  B[j] = From(V[i], B[i]) /\ D[j] = Inner(V[i], D[i])
    OBVIOUS
  <2>1. i \in 1..(Len(S) - 1) /\ i \in 1..Len(S) /\ j \in 1..Len(S)
    BY <1>1
  <2>2. V[i] = S[i]
    BY <2>1
  <2>3. B[j] = From(S[i], B[i]) /\ D[j] = Inner(S[i], D[i])
    BY <2>1 DEF AllFit
  <2> QED BY <2>2, <2>3, Zenon
<1>5. \A i \in 1..Len(V) : V[i].fn = S[i].fn /\ V[i].level = S[i].level
  BY <1>2
<1>6. \A i, j \in 1..Len(V) : i < j => Below(V[i], D[i], V[j], D[j])
  BY <1>5 DEF AllFit, Below, Weight
<1>7. B[1] = 7 /\ D[1] = 0
  BY DEF AllFit
<1> QED BY <1>3, <1>4, <1>6, <1>7 DEF AllFit

LEMMA AllFitUnder ==
  ASSUME NEW T, NEW e, NEW S \in Seq(Calls), S # <<>>, NEW B, NEW D, AllFit(T, e, S, B, D),
         NEW V, V = SubSeq(S, 1, Len(S) - 1)
  PROVE  AllFit(T, e, V, B, D)
<1>1. /\ V \in Seq(Calls) /\ Len(V) = Len(S) - 1 /\ Len(S) \in Nat \ {0}
      /\ \A i \in 1..(Len(S) - 1) : V[i] = S[i]
  BY Popped
<1>2. \A i \in 1..Len(V) : i \in 1..Len(S) /\ V[i] = S[i]
  <2>1. \A i \in 1..Len(V) : i \in 1..Len(S) /\ i \in 1..(Len(S) - 1)
    BY <1>1
  <2> QED BY <1>1, <2>1
<1>3. B[1] = 7 /\ D[1] = 0
  BY DEF AllFit
<1>4. \A i \in 1..Len(V) : Fits(T, e, V[i], B[i], D[i])
  BY <1>2, Zenon DEF AllFit
<1>5. \A i, j \in 1..Len(V) : j = i + 1 => B[j] = From(V[i], B[i]) /\ D[j] = Inner(V[i], D[i])
  <2> SUFFICES ASSUME NEW i \in 1..Len(V), NEW j \in 1..Len(V), j = i + 1
               PROVE  B[j] = From(V[i], B[i]) /\ D[j] = Inner(V[i], D[i])
    OBVIOUS
  <2>1. i \in 1..Len(S) /\ j \in 1..Len(S) /\ V[i] = S[i]
    BY <1>2
  <2>2. B[j] = From(S[i], B[i]) /\ D[j] = Inner(S[i], D[i])
    BY <2>1 DEF AllFit
  <2> QED BY <2>1, <2>2, Zenon
<1>6. \A i, j \in 1..Len(V) : i < j => Below(V[i], D[i], V[j], D[j])
  BY <1>2, Zenon DEF AllFit
<1> QED BY <1>3, <1>4, <1>5, <1>6 DEF AllFit

(* It was called where the one below it has its operand.                   *)
LEMMA CalledWithin ==
  ASSUME NEW S \in Seq(Calls), S # <<>>, NEW B, NEW T, NEW D, NEW e, AllFit(T, e, S, B, D),
         NEW V, V = SubSeq(S, 1, Len(S) - 1)
  PROVE  Begins(V, B) = B[Len(S)] /\ Deep(V, D) = D[Len(S)]
<1>1. /\ V \in Seq(Calls) /\ Len(V) = Len(S) - 1 /\ Len(S) \in Nat \ {0}
      /\ \A i \in 1..(Len(S) - 1) : V[i] = S[i]
  BY Popped
<1>2. CASE V = <<>>
  <2>1. Len(V) = 0
    BY <1>1, <1>2, EmptySeq
  <2>2. Len(S) = 1
    BY <1>1, <2>1
  <2> QED BY <1>2, <2>2 DEF AllFit, Begins, Deep
<1>3. CASE V # <<>>
  <2>1. Len(V) # 0
    BY <1>1, <1>3, EmptySeq
  <2>2. Len(V) \in 1..Len(S) /\ Len(S) \in 1..Len(S) /\ Len(S) = Len(V) + 1 /\ Len(V) \in 1..(Len(S) - 1)
    BY <1>1, <2>1
  <2>3. B[Len(S)] = From(S[Len(V)], B[Len(V)]) /\ D[Len(S)] = Inner(S[Len(V)], D[Len(V)])
    BY <2>2 DEF AllFit
  <2>4. V[Len(V)] = S[Len(V)]
    BY <1>1, <2>2
  <2> QED BY <1>3, <2>3, <2>4 DEF Begins, Deep
<1> QED BY <1>2, <1>3

LEMMA TopReturns ==
  ASSUME NEW T, NEW e, NEW B, NEW D, AllFit(T, e, stack, B, D), stack \in Seq(Calls), stack # <<>>,
         stack' = SubSeq(stack, 1, Len(stack) - 1)
  PROVE  /\ AllFit(T, e, stack', B, D)
         /\ Begins(stack', B) = B[Len(stack)] /\ Deep(stack', D) = D[Len(stack)]
<1>1. AllFit(T, e, stack', B, D)
  BY AllFitUnder
<1>2. Begins(stack', B) = B[Len(stack)] /\ Deep(stack', D) = D[Len(stack)]
  BY CalledWithin
<1> QED BY <1>1, <1>2

LEMMA AllFitCalled ==
  ASSUME NEW T, NEW e, NEW S \in Seq(Calls), NEW B, NEW D, AllFit(T, e, S, B, D),
         NEW V \in Seq(Calls), Len(V) >= Len(S), \A i \in 1..Len(S) : V[i] = S[i],
         NEW b, b = Begins(S, B), NEW d, d = Deep(S, D),
         \A i \in 1..Len(V) : i > Len(S) => Fits(T, e, V[i], b, d),
         \A i \in 1..Len(V) : i > Len(S) /\ i < Len(V) => From(V[i], b) = b /\ Inner(V[i], d) = d,
         \A i \in 1..Len(S), j \in 1..Len(V) : j > Len(S) => Below(S[i], D[i], V[j], d),
         \A i, j \in 1..Len(V) : i > Len(S) /\ i < j => Below(V[i], d, V[j], d)
  PROVE  \E P, Q : /\ AllFit(T, e, V, P, Q)
                   /\ Len(V) > Len(S) => P[Len(V)] = b /\ Q[Len(V)] = d
                   /\ Len(V) = Len(S) => Begins(V, P) = b /\ Deep(V, Q) = d
<1> DEFINE P == [i \in 1..Len(V) |-> IF i <= Len(S) THEN B[i] ELSE b]
           Q == [i \in 1..Len(V) |-> IF i <= Len(S) THEN D[i] ELSE d]
<1>1. Len(S) \in Nat /\ Len(V) \in Nat
  BY LenProperties
<1>2. \A i \in 1..Len(V) : /\ i <= Len(S) => i \in 1..Len(S) /\ P[i] = B[i] /\ Q[i] = D[i]
                           /\ i > Len(S) => P[i] = b /\ Q[i] = d
  BY <1>1
<1> HIDE DEF P, Q
<1>3. \A i \in 1..Len(V) : i <= Len(S) \/ i > Len(S)
  BY <1>1
<1>4. ASSUME NEW i \in 1..Len(V) PROVE Fits(T, e, V[i], P[i], Q[i])
  <2>1. CASE i <= Len(S)
    <3>1. Fits(T, e, S[i], B[i], D[i]) /\ V[i] = S[i] /\ P[i] = B[i] /\ Q[i] = D[i]
      BY <1>2, <2>1 DEF AllFit
    <3> QED BY <3>1, Zenon
  <2>2. CASE i > Len(S)
    <3>1. Fits(T, e, V[i], b, d) /\ P[i] = b /\ Q[i] = d
      BY <1>2, <2>2
    <3> QED BY <3>1, Zenon
  <2> QED BY <1>3, <2>1, <2>2
<1>5. ASSUME NEW i \in 1..Len(V), NEW j \in 1..Len(V), j = i + 1
      PROVE  P[j] = From(V[i], P[i]) /\ Q[j] = Inner(V[i], Q[i])
  <2>1. CASE j <= Len(S)
    <3>1. i \in 1..Len(S) /\ j \in 1..Len(S) /\ i <= Len(S)
      BY <1>1, <1>5, <2>1
    <3>2. B[j] = From(S[i], B[i]) /\ D[j] = Inner(S[i], D[i])
      BY <1>5, <3>1 DEF AllFit
    <3>3. V[i] = S[i] /\ P[i] = B[i] /\ Q[i] = D[i] /\ P[j] = B[j] /\ Q[j] = D[j]
      BY <1>2, <2>1, <3>1
    <3> QED BY <3>2, <3>3, Zenon
  <2>2. CASE i = Len(S)
    <3>1. i <= Len(S) /\ i \in 1..Len(S) /\ j > Len(S) /\ S # <<>>
      BY <1>1, <1>5, <2>2
    <3>2. b = From(S[i], B[i]) /\ d = Inner(S[i], D[i])
      BY <2>2, <3>1 DEF Begins, Deep
    <3>3. V[i] = S[i] /\ P[i] = B[i] /\ Q[i] = D[i] /\ P[j] = b /\ Q[j] = d
      BY <1>2, <3>1
    <3> QED BY <3>2, <3>3, Zenon
  <2>3. CASE i > Len(S)
    <3>1. i < Len(V) /\ j > Len(S)
      BY <1>1, <1>5, <2>3
    <3>2. From(V[i], b) = b /\ Inner(V[i], d) = d
      BY <2>3, <3>1
    <3>3. P[i] = b /\ Q[i] = d /\ P[j] = b /\ Q[j] = d
      BY <1>2, <2>3, <3>1
    <3> QED BY <3>2, <3>3, Zenon
  <2> QED BY <1>1, <1>5, <2>1, <2>2, <2>3
<1>6. ASSUME NEW i \in 1..Len(V), NEW j \in 1..Len(V), i < j PROVE Below(V[i], Q[i], V[j], Q[j])
  <2>1. CASE j <= Len(S)
    <3>1. i \in 1..Len(S) /\ j \in 1..Len(S) /\ i <= Len(S)
      BY <1>1, <1>6, <2>1
    <3>2. Below(S[i], D[i], S[j], D[j])
      BY <1>6, <3>1 DEF AllFit
    <3>3. V[i] = S[i] /\ Q[i] = D[i] /\ V[j] = S[j] /\ Q[j] = D[j]
      BY <1>2, <2>1, <3>1
    <3> QED BY <3>2, <3>3, Zenon
  <2>2. CASE i <= Len(S) /\ j > Len(S)
    <3>1. i \in 1..Len(S)
      BY <1>1, <2>2
    <3>2. Below(S[i], D[i], V[j], d) /\ V[i] = S[i] /\ Q[i] = D[i] /\ Q[j] = d
      BY <1>2, <2>2, <3>1
    <3> QED BY <3>2, Zenon
  <2>3. CASE i > Len(S)
    <3>1. j > Len(S)
      BY <1>1, <1>6, <2>3
    <3>2. Below(V[i], d, V[j], d) /\ Q[i] = d /\ Q[j] = d
      BY <1>2, <1>6, <2>3, <3>1
    <3> QED BY <3>2, Zenon
  <2> QED BY <1>3, <2>1, <2>2, <2>3
<1>7. V # <<>> => P[1] = 7 /\ Q[1] = 0
  <2> SUFFICES ASSUME V # <<>> PROVE P[1] = 7 /\ Q[1] = 0
    OBVIOUS
  <2>1. 1 \in 1..Len(V)
    BY <1>1, EmptySeq
  <2>2. CASE S = <<>>
    BY <1>1, <1>2, <2>1, <2>2 DEF Begins, Deep
  <2>3. CASE S # <<>>
    <3>1. 1 <= Len(S)
      BY <1>1, <2>3, EmptySeq
    <3> QED BY <1>2, <2>1, <2>3, <3>1 DEF AllFit
  <2> QED BY <2>2, <2>3
<1>8. AllFit(T, e, V, P, Q)
  BY <1>4, <1>5, <1>6, <1>7 DEF AllFit
<1>9. Len(V) > Len(S) => P[Len(V)] = b /\ Q[Len(V)] = d
  BY <1>1, <1>2
<1>10. ASSUME Len(V) = Len(S) PROVE Begins(V, P) = b /\ Deep(V, Q) = d
  <2>1. CASE Len(S) = 0
    <3>1. S = <<>> /\ V = <<>>
      BY <1>10, <2>1, EmptySeq
    <3> QED BY <3>1 DEF Begins, Deep
  <2>2. CASE Len(S) # 0
    <3>1. Len(S) \in 1..Len(V) /\ Len(S) \in 1..Len(S) /\ S # <<>> /\ V # <<>>
      BY <1>1, <1>10, <2>2
    <3>2. V[Len(V)] = S[Len(S)] /\ P[Len(V)] = B[Len(S)] /\ Q[Len(V)] = D[Len(S)]
      BY <1>1, <1>2, <1>10, <3>1
    <3> QED BY <3>1, <3>2 DEF Begins, Deep
  <2> QED BY <2>1, <2>2
<1> QED BY <1>8, <1>9, <1>10
----------------------------------------------------------------------------
(* The tables. *)

LEMMA BindingIs ==
  ASSUME NEW level \in 1..Deepest, NEW t \in Levels[level]
  PROVE  Binding(t) = Deepest + 1 - level
<1> DEFINE P(n) == \A s \in Levels[n] : Binding(s) = 11 - n
<1>1. P(1) /\ P(2) /\ P(3)
  BY DEF Levels, Binding
<1>2. P(4) /\ P(5) /\ P(6)
  BY DEF Levels, Binding
<1>3. P(7)
  BY DEF Levels, Binding
<1>4. P(8) /\ P(9) /\ P(10)
  BY DEF Levels, Binding
<1>5. level \in {1, 2, 3, 4, 5, 6, 7, 8, 9, 10} /\ Deepest = 10
  BY DEF Deepest
<1> HIDE DEF P
<1>6. P(level)
  BY <1>1, <1>2, <1>3, <1>4, <1>5
<1> QED BY <1>5, <1>6 DEF P

Count(tokens, t, n) == Cardinality({j \in 1..n : tokens[j] = t})

LEMMA OneMoreCounted ==
  ASSUME NEW s, NEW t, NEW e \in Nat, NEW k, k = e + 1
  PROVE  /\ Count(s, t, e) \in Nat
         /\ Count(s, t, k) = Count(s, t, e) + (IF s[k] = t THEN 1 ELSE 0)
<1> DEFINE C(n) == {j \in 1..n : s[j] = t}
<1>1. IsFiniteSet(C(e))
  <2>1. IsFiniteSet(1..e)
    BY FS_Interval
  <2> QED BY <2>1, FS_Subset
<1>2. C(k) = IF s[k] = t THEN C(e) \cup {k} ELSE C(e)
  <2>1. \A j \in 1..k : j \in 1..e \/ j = k
    OBVIOUS
  <2>2. \A j \in 1..e : j \in 1..k
    OBVIOUS
  <2>3. k \in 1..k
    OBVIOUS
  <2> QED BY <2>1, <2>2, <2>3
<1>3. k \notin C(e)
  OBVIOUS
<1> HIDE DEF C
<1>4. Cardinality(C(e)) \in Nat
  BY <1>1, FS_CardinalityType
<1>5. Cardinality(C(e) \cup {k}) = Cardinality(C(e)) + 1
  BY <1>1, <1>3, FS_AddElement
<1>6. Cardinality(C(k)) = Cardinality(C(e)) + (IF s[k] = t THEN 1 ELSE 0)
  BY <1>2, <1>4, <1>5
<1> QED BY <1>4, <1>6 DEF C, Count

LEMMA DepthSteps ==
  /\ Depth(0) = 0
  /\ \A e \in Nat : Depth(e) \in Int
  /\ \A e \in Nat : Depth(e + 1) = CASE input[e + 1] = "TT_LPAREN" -> Depth(e) + 1
                                     [] input[e + 1] = "TT_RPAREN" -> Depth(e) - 1
                                     [] OTHER -> Depth(e)
<1>1. Depth(0) = 0
  <2>1. \A t : {j \in 1..0 : input[j] = t} = {}
    OBVIOUS
  <2>2. Cardinality({j \in 1..0 : input[j] = "TT_LPAREN"}) = 0
        /\ Cardinality({j \in 1..0 : input[j] = "TT_RPAREN"}) = 0
    BY <2>1, FS_EmptySet
  <2> QED BY <2>2 DEF Depth
<1>2. ASSUME NEW e \in Nat
      PROVE  /\ Depth(e) \in Int
             /\ Depth(e + 1) = CASE input[e + 1] = "TT_LPAREN" -> Depth(e) + 1
                                 [] input[e + 1] = "TT_RPAREN" -> Depth(e) - 1
                                 [] OTHER -> Depth(e)
  <2> DEFINE left(n) == Count(input, "TT_LPAREN", n)
             right(n) == Count(input, "TT_RPAREN", n)
  <2>1. PICK k : k = e + 1
    OBVIOUS
  <2>2. /\ left(e) \in Nat
        /\ left(k) = left(e) + (IF input[k] = "TT_LPAREN" THEN 1 ELSE 0)
    BY <2>1, OneMoreCounted
  <2>3. /\ right(e) \in Nat
        /\ right(k) = right(e) + (IF input[k] = "TT_RPAREN" THEN 1 ELSE 0)
    BY <2>1, OneMoreCounted
  <2>4. Depth(e) = left(e) - right(e) /\ Depth(k) = left(k) - right(k)
    BY DEF Depth, Count
  <2> HIDE DEF left, right
  <2>5. Depth(e) \in Int
    BY <2>2, <2>3, <2>4
  <2>6. Depth(k) = CASE input[k] = "TT_LPAREN" -> Depth(e) + 1
                     [] input[k] = "TT_RPAREN" -> Depth(e) - 1
                     [] OTHER -> Depth(e)
    BY <2>2, <2>3, <2>4
  <2> QED BY <2>1, <2>5, <2>6
<1> QED BY <1>1, <1>2

(* What the tables say of a token.                                         *)
LEMMA TokenRead ==
  ASSUME Len(input) \in Nat, NEW T, T = Tables, NEW e \in Nat, NEW k, k = e + 1, k <= Len(input)
  PROVE  /\ T.depth[e] \in Int /\ T.depth[k] \in Int
         /\ T.depth[k] = CASE input[k] = "TT_LPAREN" -> T.depth[e] + 1
                           [] input[k] = "TT_RPAREN" -> T.depth[e] - 1
                           [] OTHER -> T.depth[e]
         /\ T.marks \subseteq Nat /\ T.infix \subseteq T.marks /\ \A i \in T.marks : i > 6
         /\ k \in T.marks <=> k > 6 /\ input[k] \in Operators \cup {"TT_NUM"}
         /\ k \in T.numbers <=> input[k] = "TT_NUM"
         /\ k \in T.infix <=> k > 6 /\ input[k] \in Operators /\ input[e] \in {"TT_NUM", "TT_RPAREN"}
         /\ \A level \in 1..Deepest : input[k] \in Levels[level] => T.binding[k] = Deepest + 1 - level
<1>1. k \in Places /\ e \in 0..Len(input) /\ k \in 0..Len(input) /\ k - 1 = e
  BY DEF Places
<1>2. /\ T.depth[e] = Depth(e) /\ T.depth[k] = Depth(e + 1)
      /\ T.binding[k] = Binding(input[k])
  BY <1>1 DEF Tables
<1>3. /\ T.depth[e] \in Int /\ T.depth[k] \in Int
      /\ T.depth[k] = CASE input[k] = "TT_LPAREN" -> T.depth[e] + 1
                        [] input[k] = "TT_RPAREN" -> T.depth[e] - 1
                        [] OTHER -> T.depth[e]
  BY <1>2, DepthSteps
<1>4. T.marks \subseteq Nat /\ T.infix \subseteq T.marks /\ \A i \in T.marks : i > 6
  BY DEF Tables, Places, IsBinary, IsNode
<1>5. /\ k \in T.marks <=> k > 6 /\ input[k] \in Operators \cup {"TT_NUM"}
      /\ k \in T.numbers <=> input[k] = "TT_NUM"
  BY <1>1 DEF Tables, IsNode
<1>6. k \in T.infix <=> k > 6 /\ input[k] \in Operators /\ input[e] \in {"TT_NUM", "TT_RPAREN"}
  BY <1>1, OperatorTokens DEF Tables, IsNode, IsBinary
<1>7. \A level \in 1..Deepest : input[k] \in Levels[level] => T.binding[k] = Deepest + 1 - level
  BY <1>2, BindingIs
<1> QED BY <1>3, <1>4, <1>5, <1>6, <1>7
----------------------------------------------------------------------------
(* What a step has to leave. *)

LEMMA TablesSame ==
  ASSUME UNCHANGED input
  PROVE  Tables' = Tables
BY DEF Tables, Places, Depth, IsNode, IsBinary

LEMMA TokenEaten ==
  ASSUME GInv, buffer # <<>>, Pop, NEW e, e = Eaten, NEW k, k = NextToken
  PROVE  /\ k = e + 1 /\ e \in Nat /\ Len(input) \in Nat /\ k <= Len(input) /\ Eaten' = k
         /\ input' = input /\ Tables' = Tables /\ NextType = input[k]
<1>1. PInv
  BY DEF GInv
<1>2. /\ Eaten = Len(input) - 1 /\ Eaten \in Nat /\ Eaten' = Len(input) /\ Len(input) \in Nat \ {0}
      /\ input' = input
  BY <1>1, Consumed
<1>3. k = Len(input) /\ NextType = input[k]
  BY DEF NextToken, NextType
<1> QED BY <1>2, <1>3, TablesSame

LEMMA NoneEaten ==
  ASSUME UNCHANGED <<input, buffer>>
  PROVE  Eaten' = Eaten /\ Tables' = Tables /\ input' = input
BY TablesSame DEF Eaten

LEMMA SpanHeld ==
  ASSUME SpanInv, ~Failed, mode # "freed", NEW T, T = Tables, NEW e, e = Eaten
  PROVE  /\ Sound(T, e) /\ Right(T, e, heap) /\ Outside(T, e)
         /\ \E B, D : AllFit(T, e, stack, B, D) /\ InHand(T, e, B, D)
BY DEF SpanInv

LEMMA OperandDue ==
  ASSUME NEW T, Tables' = T, NEW e, Eaten' = e, Sound(T, e), Right(T, e, heap'),
         NEW B, NEW D, AllFit(T, e, stack', B, D), mode' = "unary",
         T.depth[e] = Deep(stack', D), e + 1 = Begins(stack', B),
         input'[e] \notin {"TT_NUM", "TT_RPAREN"}, Settled(T, e, heap', 0)
  PROVE  SpanInv'
<1>1. InHand(T, e, B, D)'
  BY DEF InHand, Operand
<1>2. Outside(T, e)'
  BY DEF Outside, Ahead, Behind
<1>3. /\ Sound(Tables, Eaten)' /\ Right(Tables, Eaten, heap)' /\ Outside(Tables, Eaten)'
      /\ AllFit(Tables, Eaten, stack, B, D)' /\ InHand(Tables, Eaten, B, D)'
  BY <1>1, <1>2
<1> QED BY <1>3, Zenon DEF SpanInv

LEMMA OperandGiven ==
  ASSUME NEW T, Tables' = T, NEW e, Eaten' = e, Sound(T, e), Right(T, e, heap'),
         NEW B, NEW D, AllFit(T, e, stack', B, D), Operand',
         T.depth[e] = Deep(stack', D), input'[e] \in {"TT_NUM", "TT_RPAREN"},
         Settled(T, e, heap', Limit(stack')), value' = Span(T, Begins(stack', B), e)
  PROVE  SpanInv'
<1>1. InHand(T, e, B, D)'
  BY DEF InHand, Operand
<1>2. Outside(T, e)'
  BY DEF Outside, Ahead, Behind, Operand
<1>3. /\ Sound(Tables, Eaten)' /\ Right(Tables, Eaten, heap)' /\ Outside(Tables, Eaten)'
      /\ AllFit(Tables, Eaten, stack, B, D)' /\ InHand(Tables, Eaten, B, D)'
  BY <1>1, <1>2
<1> QED BY <1>3, Zenon DEF SpanInv

LEMMA OperandHeld ==
  ASSUME NEW T, Tables' = T, NEW e, Eaten' = e, Sound(T, e), Right(T, e, heap'),
         NEW B, NEW D, AllFit(T, e, stack', B, D), mode' = "loop",
         T.depth[e] = Deep(stack', D), input'[e] \in {"TT_NUM", "TT_RPAREN"},
         Settled(T, e, heap', Limit(stack')), Top'.left = Span(T, B[Len(stack')], e)
  PROVE  SpanInv'
<1>1. InHand(T, e, B, D)'
  BY DEF InHand, Operand
<1>2. Outside(T, e)'
  BY DEF Outside, Ahead, Behind
<1>3. /\ Sound(Tables, Eaten)' /\ Right(Tables, Eaten, heap)' /\ Outside(Tables, Eaten)'
      /\ AllFit(Tables, Eaten, stack, B, D)' /\ InHand(Tables, Eaten, B, D)'
  BY <1>1, <1>2
<1> QED BY <1>3, Zenon DEF SpanInv

LEMMA SoundOn ==
  ASSUME NEW T, NEW e, NEW k, k = e + 1, Sound(T, e), T.depth[k] \in Int,
         k \in T.infix => T.binding[k] \in 1..Deepest
  PROVE  Sound(T, k)
<1>1. e \in Nat /\ k \in Nat
  BY DEF Sound
<1>2. \A j \in 0..k : j \in 0..e \/ j = k
  BY <1>1
<1>3. \A j \in T.infix : j <= k => j <= e \/ j = k
  <2>1. T.infix \subseteq Nat
    BY DEF Sound
  <2> QED BY <1>1, <2>1
<1> QED BY <1>1, <1>2, <1>3 DEF Sound

(* The limit of an operand.                                                *)
LEMMA LimitIn ==
  ASSUME NEW S \in Seq(Calls)
  PROVE  /\ Limit(S) \in Int /\ 0 <= Limit(S)
         /\ S # <<>> /\ Innermost(S[Len(S)]) => Limit(S) = 1
<1>1. CASE S = <<>>
  BY <1>1 DEF Limit, Deepest
<1>2. CASE S # <<>>
  <2>1. S[Len(S)] \in Calls
    BY <1>2, Popped
  <2> DEFINE f == S[Len(S)]
  <2>2. Weight(f) \in Nat /\ f.fn \in {"level", "unary", "paren"} /\ (f.fn = "level" => Weight(f) = 11 - f.level)
    BY <2>1, WeightIn
  <2>3. Limit(S) = CASE f.fn = "level" -> Weight(f)
                     [] f.fn = "unary" -> 1
                     [] f.fn = "paren" -> Deepest
    BY <1>2 DEF Limit
  <2> HIDE DEF f
  <2>4. Limit(S) \in Int /\ 0 <= Limit(S)
    BY <2>2, <2>3 DEF Deepest
  <2>5. Innermost(f) => Limit(S) = 1
    BY <2>2, <2>3 DEF Innermost, Deepest
  <2> QED BY <2>4, <2>5 DEF f
<1> QED BY <1>1, <1>2
----------------------------------------------------------------------------
(* The functions of the primary and the unary expressions. *)

LEMMA NumberSpans ==
  ASSUME GInv, GInv', SpanInv, Number
  PROVE  SpanInv'
<1> DEFINE k == NextToken
<1>1. /\ mode = "unary" /\ mode' = Resume(stack') /\ NextType = "TT_NUM" /\ buffer # <<>> /\ Pop
      /\ stack' = stack /\ value' = {k} /\ heap' = Grown(heap, k, {}, {})
  BY DEF Number, Look, Alloc, Grown
<1>2. ~Failed /\ stack \in Seq(Calls) /\ stack # <<>> /\ Innermost(Top)
  BY <1>1, Working DEF GInv, LookedAhead, Running
<1> HIDE DEF k
<1>3. PICK T : T = Tables
  OBVIOUS
<1>4. PICK e : e = Eaten
  OBVIOUS
<1>5. /\ k = e + 1 /\ e \in Nat /\ Len(input) \in Nat /\ k <= Len(input) /\ Eaten' = k
      /\ input' = input /\ Tables' = T /\ NextType = input[k]
  BY <1>1, <1>3, <1>4, TokenEaten DEF k
<1>6. /\ Sound(T, e) /\ Right(T, e, heap)
      /\ \E B, D : AllFit(T, e, stack, B, D) /\ InHand(T, e, B, D)
  BY <1>1, <1>2, <1>3, <1>4, SpanHeld
<1>7. PICK B, D : AllFit(T, e, stack, B, D) /\ InHand(T, e, B, D)
  BY <1>6
<1>8. /\ T.depth[e] = Deep(stack, D) /\ e + 1 = Begins(stack, B)
      /\ input[e] \notin {"TT_NUM", "TT_RPAREN"} /\ Settled(T, e, heap, 0)
  BY <1>1, <1>7 DEF InHand
<1>9. /\ Begins(stack, B) \in Nat /\ Begins(stack, B) >= 7 /\ Deep(stack, D) \in Nat
      /\ \A i \in 1..Len(stack) : D[i] \in Nat /\ D[i] <= Deep(stack, D)
  BY <1>2, <1>6, <1>7, AllSeen
<1>10. /\ T.depth[k] \in Int /\ T.depth[k] = T.depth[e]
       /\ k \in T.marks /\ k \in T.numbers /\ k \notin T.infix /\ k \in Nat
  BY <1>1, <1>3, <1>5, <1>8, <1>9, TokenRead
<1>11. Sound(T, k)
  BY <1>5, <1>6, <1>10, SoundOn
<1>12. AllFit(T, k, stack', B, D)
  <2>1. AllFit(T, k, stack, B, D)
    BY <1>2, <1>5, <1>6, <1>7, <1>8, <1>9, <1>10, AllFitOn
  <2> QED BY <1>1, <2>1
<1>13. Settled(T, k, heap, 0) /\ Right(T, k, heap)
  <2>1. Settled(T, k, heap, 0)
    BY <1>5, <1>6, <1>8, <1>10, SettledOn
  <2> QED BY <1>5, <1>6, <1>10, <2>1, RightOn
<1>14. Right(T, k, heap') /\ Settled(T, k, heap', 0)
  BY <1>1, <1>10, <1>11, <1>13, NumberRight
<1>15. Settled(T, k, heap', Limit(stack'))
  <2>1. Limit(stack) \in Int /\ 0 <= Limit(stack)
    BY <1>2, LimitIn
  <2> QED BY <1>1, <1>11, <1>14, <2>1, SettledWithin
<1>16. value' = Span(T, Begins(stack', B), k)
  <2>1. Begins(stack', B) = k
    BY <1>1, <1>5, <1>8
  <2> QED BY <1>1, <1>10, <2>1 DEF Span
<1>17. Operand'
  <2>1. mode' = "operand" \/ mode' = "negate"
    BY <1>1, <1>2, Resuming DEF Top
  <2> QED BY <2>1 DEF Operand
<1>18. T.depth[k] = Deep(stack', D) /\ input'[k] \in {"TT_NUM", "TT_RPAREN"}
  BY <1>1, <1>5, <1>8, <1>10
<1> QED BY <1>5, <1>11, <1>12, <1>14, <1>15, <1>16, <1>17, <1>18, OperandGiven

LEMMA UnaryOperatorSpans ==
  ASSUME GInv, GInv', SpanInv, UnaryOperator
  PROVE  SpanInv'
<1> DEFINE k == NextToken
           call == Frame("unary", 0, {}, k)
<1>1. /\ mode = "unary" /\ mode' = "unary" /\ NextType \in UnaryOps /\ buffer # <<>> /\ Pop
      /\ stack' = Append(stack, call) /\ heap' = heap
  BY DEF UnaryOperator, Look
<1>2. ~Failed /\ stack \in Seq(Calls) /\ stack # <<>> /\ Innermost(Top)
  BY <1>1, Working DEF GInv, LookedAhead, Running
<1> HIDE DEF k
<1>3. PICK T : T = Tables
  OBVIOUS
<1>4. PICK e : e = Eaten
  OBVIOUS
<1>5. /\ k = e + 1 /\ e \in Nat /\ Len(input) \in Nat /\ k <= Len(input) /\ Eaten' = k
      /\ input' = input /\ Tables' = T /\ NextType = input[k]
  BY <1>1, <1>3, <1>4, TokenEaten DEF k
<1>6. /\ Sound(T, e) /\ Right(T, e, heap)
      /\ \E B, D : AllFit(T, e, stack, B, D) /\ InHand(T, e, B, D)
  BY <1>1, <1>2, <1>3, <1>4, SpanHeld
<1>7. PICK B, D : AllFit(T, e, stack, B, D) /\ InHand(T, e, B, D)
  BY <1>6
<1>8. /\ T.depth[e] = Deep(stack, D) /\ e + 1 = Begins(stack, B)
      /\ input[e] \notin {"TT_NUM", "TT_RPAREN"} /\ Settled(T, e, heap, 0)
  BY <1>1, <1>7 DEF InHand
<1>9. /\ Begins(stack, B) \in Nat /\ Begins(stack, B) >= 7 /\ Deep(stack, D) \in Nat
      /\ \A i \in 1..Len(stack) : D[i] \in Nat /\ D[i] <= Deep(stack, D) /\ B[i] \in Nat
  BY <1>2, <1>6, <1>7, AllSeen
<1>10. /\ T.depth[k] \in Int /\ T.depth[k] = T.depth[e]
       /\ k \in T.marks /\ k \notin T.numbers /\ k \notin T.infix /\ k \in Nat
       /\ input[k] \notin {"TT_NUM", "TT_RPAREN"}
  <2>1. input[k] \notin {"TT_NUM", "TT_RPAREN", "TT_LPAREN"} /\ input[k] \in Operators
    BY <1>1, <1>5, OperatorTokens, UnaryTokens
  <2> QED BY <1>3, <1>5, <1>8, <1>9, <2>1, TokenRead
<1>11. Sound(T, k)
  BY <1>5, <1>6, <1>10, SoundOn
<1>12. AllFit(T, k, stack, B, D)
  BY <1>2, <1>5, <1>6, <1>7, <1>8, <1>9, <1>10, AllFitOn
<1>13. Settled(T, k, heap, 0) /\ Right(T, k, heap)
  <2>1. Settled(T, k, heap, 0)
    BY <1>5, <1>6, <1>8, <1>10, SettledOn
  <2> QED BY <1>5, <1>6, <1>10, <2>1, RightOn
<1>14. PICK d : d = Deep(stack, D)
  OBVIOUS
<1>15. /\ call \in Calls /\ call.fn = "unary" /\ call.op = k /\ Weight(call) = 0
       /\ k # 0 /\ From(call, k) = k + 1 /\ Inner(call, d) = d
  BY <1>5 DEF Frame, Calls, Deepest, Weight, From, Inner
<1> HIDE DEF call
<1>16. Fits(T, k, call, k, d)
  <2>1. k \in 7..(k + 1) /\ d \in Nat /\ k \in k..k /\ (\A j \in k..k : j = k) /\ T.depth[k] = d
        /\ (\A j \in (k + 1)..k : FALSE)
    BY <1>5, <1>8, <1>9, <1>10, <1>14
  <2> QED BY <1>10, <1>15, <2>1 DEF Fits
<1>17. \E P, Q : AllFit(T, k, stack', P, Q) /\ Begins(stack', P) = k + 1 /\ Deep(stack', Q) = d
  <2> DEFINE V == stack'
  <2>1. /\ V \in Seq(Calls) /\ Len(V) = Len(stack) + 1 /\ Len(stack) \in Nat
        /\ \A i \in 1..Len(stack) : V[i] = stack[i]
        /\ V[Len(V)] = call
    BY <1>1, <1>2, <1>15, AppendProperties, LenProperties
  <2> HIDE DEF V
  <2>2. \A i \in 1..Len(V) : i > Len(stack) => i = Len(V)
    BY <2>1
  <2>3. \A i \in 1..Len(V) : i > Len(stack) => Fits(T, k, V[i], k, d)
    BY <1>16, <2>1, <2>2
  <2>4. ASSUME NEW i \in 1..Len(stack), NEW j \in 1..Len(V), j > Len(stack)
        PROVE  Below(stack[i], D[i], V[j], d)
    <3>1. V[j] = call
      BY <2>1, <2>2, <2>4
    <3>2. stack[i] \in Calls
      BY <1>2, ElementOfSeq
    <3>3. Weight(stack[i]) \in Nat /\ D[i] <= d /\ Weight(call) = 0
      BY <1>9, <1>14, <1>15, <3>2, WeightIn
    <3> QED BY <3>1, <3>3 DEF Below
  <2>5. \A i, j \in 1..Len(V) : ~(i > Len(stack) /\ i < j)
    BY <2>1
  <2>6. \A i \in 1..Len(V) : ~(i > Len(stack) /\ i < Len(V))
    BY <2>1
  <2>7. k = Begins(stack, B) /\ Len(V) >= Len(stack) /\ Len(V) > Len(stack)
    BY <1>5, <1>8, <2>1
  <2>8. PICK P, Q : AllFit(T, k, V, P, Q) /\ P[Len(V)] = k /\ Q[Len(V)] = d
    BY <1>2, <1>12, <1>14, <2>1, <2>3, <2>4, <2>5, <2>6, <2>7, AllFitCalled
  <2>9. V # <<>>
    BY <2>1
  <2>10. Begins(V, P) = k + 1 /\ Deep(V, Q) = d
    BY <1>15, <2>1, <2>8, <2>9 DEF Begins, Deep
  <2> QED BY <2>8, <2>10 DEF V
<1>18. PICK P, Q : AllFit(T, k, stack', P, Q) /\ Begins(stack', P) = k + 1 /\ Deep(stack', Q) = d
  BY <1>17
<1>19. T.depth[k] = Deep(stack', Q) /\ k + 1 = Begins(stack', P) /\ input'[k] \notin {"TT_NUM", "TT_RPAREN"}
  BY <1>5, <1>8, <1>10, <1>14, <1>18
<1>20. Right(T, k, heap') /\ Settled(T, k, heap', 0)
  BY <1>1, <1>13
<1> QED BY <1>1, <1>5, <1>11, <1>18, <1>19, <1>20, OperandDue

(* The functions of the operators, each calling the next one.              *)
Chain(V, S, level) ==
    /\ V \in Seq(Calls) /\ Len(V) >= Len(S) /\ Len(V) - Len(S) = Deepest + 1 - level
    /\ \A i \in 1..Len(S) : V[i] = S[i]
    /\ \A i \in 1..Len(V) : i > Len(S) =>
           V[i].fn = "level" /\ V[i].op = 0 /\ V[i].level = level + (i - Len(S)) - 1

LEMMA Chained ==
  ASSUME NEW S \in Seq(Calls), NEW level \in 1..(Deepest + 1)
  PROVE  Chain(S \o CallFrom(level), S, level)
<1> DEFINE V == S \o CallFrom(level)
<1> DEFINE C == CallFrom(level)
<1>1. /\ C \in Seq(Calls) /\ Len(C) = Deepest + 1 - level
      /\ \A i \in 1..Len(C) : C[i].fn = "level" /\ C[i].level = level + i - 1 /\ C[i].op = 0
  <2>1. Deepest + 1 - level \in Nat
    BY DEF Deepest
  <2>2. C \in Seq(Calls)
    BY Started
  <2> QED BY <2>1, <2>2 DEF CallFrom, Frame
<1> HIDE DEF C
<1>2. /\ Len(S) \in Nat /\ Len(C) \in Nat /\ V \in Seq(Calls) /\ Len(V) = Len(S) + Len(C)
      /\ \A i \in 1..Len(V) : V[i] = IF i <= Len(S) THEN S[i] ELSE C[i - Len(S)]
  <2>1. V = S \o C
    BY DEF C
  <2>2. Len(S) \in Nat
    BY LenProperties
  <2>3. Len(C) \in Nat
    BY <1>1, LenProperties
  <2>4. /\ S \o C \in Seq(Calls) /\ Len(S \o C) = Len(S) + Len(C)
        /\ \A i \in 1..(Len(S) + Len(C)) : (S \o C)[i] = IF i <= Len(S) THEN S[i] ELSE C[i - Len(S)]
    BY <1>1, ConcatProperties
  <2> QED BY <2>1, <2>2, <2>3, <2>4
<1> HIDE DEF V
<1>3. ASSUME NEW i \in 1..Len(V), i > Len(S)
      PROVE  V[i].fn = "level" /\ V[i].op = 0 /\ V[i].level = level + (i - Len(S)) - 1
  <2>1. i - Len(S) \in 1..Len(C) /\ V[i] = C[i - Len(S)]
    BY <1>2, <1>3
  <2> QED BY <1>1, <2>1
<1>4. \A i \in 1..Len(S) : V[i] = S[i]
  BY <1>2
<1>5. Len(V) >= Len(S) /\ Len(V) - Len(S) = Deepest + 1 - level /\ V \in Seq(Calls)
  BY <1>1, <1>2 DEF Deepest
<1>6. Chain(V, S, level)
  BY <1>3, <1>4, <1>5 DEF Chain
<1> QED BY <1>6 DEF V

LEMMA LevelsCalled ==
  ASSUME NEW T, NEW e, Sound(T, e), NEW S \in Seq(Calls), NEW B, NEW D, AllFit(T, e, S, B, D),
         NEW level \in 1..(Deepest + 1), NEW V, Chain(V, S, level),
         NEW b, b = Begins(S, B), b > e, b <= e + 1, NEW d, d = Deep(S, D),
         \A i \in T.marks : i < b => \E m \in i..e : Stops(T, m, d, Deepest + 2 - level),
         \A i \in 1..Len(S) : D[i] = d => Weight(S[i]) > Deepest + 1 - level
  PROVE  \E P, Q : AllFit(T, e, V, P, Q) /\ Begins(V, P) = b /\ Deep(V, Q) = d
<1>1. Len(S) \in Nat /\ Len(V) \in Nat /\ V \in Seq(Calls) /\ Len(V) >= Len(S)
      /\ Len(V) - Len(S) = 11 - level
  <2>1. V \in Seq(Calls) /\ Len(V) >= Len(S) /\ Len(V) - Len(S) = 11 - level
    BY DEF Chain, Deepest
  <2> QED BY <2>1, LenProperties
<1>2. ASSUME NEW i \in 1..Len(V), i > Len(S)
      PROVE  /\ V[i] \in Calls /\ V[i].fn = "level" /\ V[i].op = 0
             /\ V[i].level = level + (i - Len(S)) - 1 /\ Weight(V[i]) = 11 - (level + (i - Len(S)) - 1)
             /\ Weight(V[i]) \in Nat
             /\ Weight(V[i]) <= 11 - level /\ Weight(V[i]) > 0
  <2>2. /\ V[i] \in Calls /\ V[i].fn = "level" /\ V[i].op = 0
        /\ V[i].level = level + (i - Len(S)) - 1
    <3>1. V[i] \in Calls
      BY <1>1, ElementOfSeq
    <3> QED BY <1>2, <3>1 DEF Chain
  <2>3. Weight(V[i]) = 11 - V[i].level /\ Weight(V[i]) \in Nat
    BY <2>2, WeightIn
  <2>4. i - Len(S) <= 11 - level /\ i - Len(S) >= 1
    BY <1>1, <1>2
  <2> QED BY <1>1, <2>2, <2>3, <2>4
<1>3. e \in Nat /\ d \in Nat /\ b \in 7..(e + 1) /\ b - 1 = e /\ (\A i \in b..e : FALSE)
      /\ \A i \in 1..Len(S) : D[i] \in Nat /\ D[i] <= d
  <2>1. /\ Begins(S, B) \in Nat /\ Begins(S, B) >= 7 /\ Deep(S, D) \in Nat
        /\ \A i \in 1..Len(S) : D[i] \in Nat /\ D[i] <= Deep(S, D)
    BY AllSeen
  <2>2. e \in Nat
    BY DEF Sound
  <2>3. b - 1 = e
    BY <2>1, <2>2
  <2> QED BY <2>1, <2>2, <2>3
<1>4. ASSUME NEW i \in 1..Len(V), i > Len(S) PROVE Fits(T, e, V[i], b, d)
  <2> DEFINE f == V[i]
             w == Weight(f)
  <2>1. f.fn = "level" /\ f.op = 0 /\ w \in Nat /\ w <= 11 - level
    BY <1>2, <1>4
  <2>2. ASSUME NEW j \in T.marks, j < b PROVE \E m \in j..(b - 1) : Stops(T, m, d, w + 1)
    <3>1. PICK m \in j..e : Stops(T, m, d, Deepest + 2 - level)
      BY <2>2
    <3>2. j \in Nat /\ m \in Nat /\ m <= e
      BY <1>3 DEF Sound
    <3>3. m \in T.infix => T.binding[m] \in Int
      <4>1. \A x \in T.infix : x <= e => T.binding[x] \in 1..Deepest
        BY DEF Sound
      <4> QED BY <3>2, <4>1
    <3> HIDE DEF w
    <3>4. Stops(T, m, d, w + 1)
      BY <2>1, <3>1, <3>3 DEF Stops, Deepest
    <3> QED BY <1>3, <3>4
  <2> QED BY <1>3, <2>1, <2>2 DEF Fits
<1>5. \A i \in 1..Len(V) : i > Len(S) /\ i < Len(V) => From(V[i], b) = b /\ Inner(V[i], d) = d
  BY <1>2 DEF From, Inner
<1>6. ASSUME NEW i \in 1..Len(S), NEW j \in 1..Len(V), j > Len(S)
      PROVE  Below(S[i], D[i], V[j], d)
  <2>1. S[i] \in Calls
    BY ElementOfSeq
  <2>2. Weight(S[i]) \in Nat
    BY <2>1, WeightIn
  <2>3. D[i] = d => Weight(S[i]) > Weight(V[j])
    BY <1>2, <1>6, <2>2 DEF Deepest
  <2>4. Weight(V[j]) \in Nat
    BY <1>2, <1>6
  <2> QED BY <1>3, <2>2, <2>3, <2>4 DEF Below
<1>7. ASSUME NEW i \in 1..Len(V), NEW j \in 1..Len(V), i > Len(S), i < j
      PROVE  Below(V[i], d, V[j], d)
  <2>1. j > Len(S)
    BY <1>1, <1>7
  <2>2. Weight(V[i]) > Weight(V[j]) /\ Weight(V[i]) \in Nat /\ Weight(V[j]) \in Nat
    BY <1>1, <1>2, <1>7, <2>1
  <2> QED BY <1>3, <2>2 DEF Below
<1>8. PICK P, Q : /\ AllFit(T, e, V, P, Q)
                  /\ Len(V) > Len(S) => P[Len(V)] = b /\ Q[Len(V)] = d
                  /\ Len(V) = Len(S) => Begins(V, P) = b /\ Deep(V, Q) = d
  <2>1. Len(V) >= Len(S) /\ V \in Seq(Calls)
    BY <1>1
  <2>2. \A i \in 1..Len(S) : V[i] = S[i]
    BY DEF Chain
  <2>3. \A i \in 1..Len(V) : i > Len(S) => Fits(T, e, V[i], b, d)
    BY <1>4
  <2>4. \A i \in 1..Len(S), j \in 1..Len(V) : j > Len(S) => Below(S[i], D[i], V[j], d)
    BY <1>6
  <2>5. \A i, j \in 1..Len(V) : i > Len(S) /\ i < j => Below(V[i], d, V[j], d)
    BY <1>7
  <2> QED BY <1>5, <2>1, <2>2, <2>3, <2>4, <2>5, AllFitCalled
<1>9. ASSUME Len(V) > Len(S) PROVE Begins(V, P) = b /\ Deep(V, Q) = d
  <2>1. Len(V) \in 1..Len(V) /\ V # <<>>
    BY <1>1, <1>9
  <2>2. V[Len(V)].fn = "level" /\ V[Len(V)].op = 0
    BY <1>2, <1>9, <2>1
  <2> QED BY <1>8, <1>9, <2>1, <2>2 DEF Begins, Deep, From, Inner
<1>10. Len(V) > Len(S) \/ Len(V) = Len(S)
  BY <1>1
<1> QED BY <1>8, <1>9, <1>10

LEMMA OpenParenSpans ==
  ASSUME GInv, GInv', SpanInv, OpenParen
  PROVE  SpanInv'
<1> DEFINE k == NextToken
           call == Frame("paren", 0, {}, 0)
           U == Append(stack, call)
<1>1. /\ mode = "unary" /\ mode' = "unary" /\ NextType = "TT_LPAREN" /\ buffer # <<>> /\ Pop
      /\ stack' = U \o CallFrom(1) /\ heap' = heap
  BY DEF OpenParen, Look, ParseExpression
<1>2. ~Failed /\ stack \in Seq(Calls) /\ stack # <<>> /\ Innermost(Top)
  BY <1>1, Working DEF GInv, LookedAhead, Running
<1> HIDE DEF k
<1>3. PICK T : T = Tables
  OBVIOUS
<1>4. PICK e : e = Eaten
  OBVIOUS
<1>5. /\ k = e + 1 /\ e \in Nat /\ Len(input) \in Nat /\ k <= Len(input) /\ Eaten' = k
      /\ input' = input /\ Tables' = T /\ NextType = input[k]
  BY <1>1, <1>3, <1>4, TokenEaten DEF k
<1>6. /\ Sound(T, e) /\ Right(T, e, heap)
      /\ \E B, D : AllFit(T, e, stack, B, D) /\ InHand(T, e, B, D)
  BY <1>1, <1>2, <1>3, <1>4, SpanHeld
<1>7. PICK B, D : AllFit(T, e, stack, B, D) /\ InHand(T, e, B, D)
  BY <1>6
<1>8. /\ T.depth[e] = Deep(stack, D) /\ e + 1 = Begins(stack, B)
      /\ input[e] \notin {"TT_NUM", "TT_RPAREN"} /\ Settled(T, e, heap, 0)
  BY <1>1, <1>7 DEF InHand
<1>9. /\ Begins(stack, B) \in Nat /\ Begins(stack, B) >= 7 /\ Deep(stack, D) \in Nat
      /\ \A i \in 1..Len(stack) : D[i] \in Nat /\ D[i] <= Deep(stack, D) /\ B[i] \in Nat
  BY <1>2, <1>6, <1>7, AllSeen
<1>10. /\ T.depth[k] \in Int /\ T.depth[k] = T.depth[e] + 1
       /\ k \notin T.marks /\ k \notin T.infix /\ k \in Nat /\ k >= 7
       /\ input[k] \notin {"TT_NUM", "TT_RPAREN"}
  <2>1. input[k] = "TT_LPAREN" /\ input[k] \notin Operators
    BY <1>1, <1>5, OperatorTokens
  <2> QED BY <1>3, <1>5, <1>8, <1>9, <2>1, TokenRead
<1>11. Sound(T, k)
  BY <1>5, <1>6, <1>10, SoundOn
<1>12. AllFit(T, k, stack, B, D)
  <2>1. \A i \in 1..Len(stack) : T.depth[k] >= D[i]
    BY <1>8, <1>9, <1>10
  <2> QED BY <1>2, <1>5, <1>6, <1>7, <1>10, <2>1, AllFitOn
<1>13. Settled(T, k, heap, 0) /\ Right(T, k, heap)
  <2>1. Settled(T, k, heap, 0)
    BY <1>5, <1>6, <1>8, <1>10, SettledOn
  <2> QED BY <1>5, <1>6, <1>10, <2>1, RightOn
<1>14. PICK d : d = Deep(stack, D)
  OBVIOUS
<1>15. /\ call \in Calls /\ call.fn = "paren" /\ call.op = 0 /\ Weight(call) = 0
       /\ From(call, k) = k + 1 /\ Inner(call, d) = d + 1
  BY <1>5 DEF Frame, Calls, Deepest, Weight, From, Inner
<1> HIDE DEF call
<1>16. Fits(T, k, call, k, d)
  <2>1. k \in 7..(k + 1) /\ d \in Nat /\ (\A j \in k..k : j = k) /\ T.depth[k] = d + 1 /\ k <= k
    BY <1>5, <1>8, <1>9, <1>10, <1>14
  <2> QED BY <1>10, <1>15, <2>1 DEF Fits
<1>17. /\ U \in Seq(Calls) /\ Len(U) = Len(stack) + 1 /\ Len(stack) \in Nat
       /\ \A i \in 1..Len(stack) : U[i] = stack[i]
       /\ U[Len(U)] = call
  BY <1>2, <1>15, AppendProperties, LenProperties
<1> HIDE DEF U
<1>18. \E P, Q : AllFit(T, k, U, P, Q) /\ Begins(U, P) = k + 1 /\ Deep(U, Q) = d + 1 /\ Q[Len(U)] = d
                 /\ \A i \in 1..Len(U) : Q[i] <= d /\ Q[i] \in Nat
  <2>2. \A i \in 1..Len(U) : i > Len(stack) => i = Len(U)
    BY <1>17
  <2>3. \A i \in 1..Len(U) : i > Len(stack) => Fits(T, k, U[i], k, d)
    BY <1>16, <1>17, <2>2
  <2>4. ASSUME NEW i \in 1..Len(stack), NEW j \in 1..Len(U), j > Len(stack)
        PROVE  Below(stack[i], D[i], U[j], d)
    <3>1. U[j] = call
      BY <1>17, <2>2, <2>4
    <3>2. stack[i] \in Calls
      BY <1>2, ElementOfSeq
    <3>3. Weight(stack[i]) \in Nat /\ D[i] <= d /\ Weight(call) = 0
      BY <1>9, <1>14, <1>15, <3>2, WeightIn
    <3> QED BY <3>1, <3>3 DEF Below
  <2>5. \A i, j \in 1..Len(U) : ~(i > Len(stack) /\ i < j)
    BY <1>17
  <2>6. \A i \in 1..Len(U) : ~(i > Len(stack) /\ i < Len(U))
    BY <1>17
  <2>7. k = Begins(stack, B) /\ Len(U) >= Len(stack) /\ Len(U) > Len(stack)
    BY <1>5, <1>8, <1>17
  <2>8. PICK P, Q : AllFit(T, k, U, P, Q) /\ P[Len(U)] = k /\ Q[Len(U)] = d
    BY <1>2, <1>12, <1>14, <1>17, <2>3, <2>4, <2>5, <2>6, <2>7, AllFitCalled
  <2>9. U # <<>> /\ Len(U) \in 1..Len(U) /\ \A i \in 1..Len(U) : i = Len(U) \/ i < Len(U)
    BY <1>17
  <2>10. Begins(U, P) = k + 1 /\ Deep(U, Q) = d + 1
    BY <1>15, <1>17, <2>8, <2>9 DEF Begins, Deep
  <2>11. \A i \in 1..Len(U) : Q[i] \in Nat
    BY <2>8 DEF AllFit, Fits
  <2>12. \A i \in 1..Len(U) : i < Len(U) => Q[i] <= Q[Len(U)]
    BY <2>8, <2>9 DEF AllFit, Below
  <2>13. \A i \in 1..Len(U) : Q[i] <= d
    BY <2>8, <2>9, <2>11, <2>12
  <2> QED BY <2>8, <2>10, <2>11, <2>13
<1>19. PICK P, Q : AllFit(T, k, U, P, Q) /\ Begins(U, P) = k + 1 /\ Deep(U, Q) = d + 1 /\ Q[Len(U)] = d
                 /\ \A i \in 1..Len(U) : Q[i] <= d /\ Q[i] \in Nat
  BY <1>18
<1>20. \E M, N : AllFit(T, k, stack', M, N) /\ Begins(stack', M) = k + 1 /\ Deep(stack', N) = d + 1
  <2> DEFINE b == Begins(U, P)
             c == Deep(U, Q)
  <2>1. 1 \in 1..(Deepest + 1) /\ b > k /\ b <= k + 1 /\ d \in Nat
    BY <1>9, <1>10, <1>14, <1>19 DEF Deepest
  <2>2. Chain(stack', U, 1)
    <3>1. Chain(U \o CallFrom(1), U, 1)
      BY <1>17, <2>1, Chained
    <3> QED BY <1>1, <3>1
  <2>3. ASSUME NEW i \in T.marks, i < b PROVE \E m \in i..k : Stops(T, m, c, Deepest + 2 - 1)
    <3>1. i \in Nat /\ i # k
      BY <1>6, <1>10 DEF Sound
    <3>2. e \in i..k
      BY <1>5, <1>19, <2>3, <3>1
    <3>3. Stops(T, e, c, Deepest + 2 - 1)
      BY <1>8, <1>14, <1>19, <2>1 DEF Stops
    <3> QED BY <3>2, <3>3
  <2>4. \A i \in 1..Len(U) : Q[i] # c
    BY <1>19, <2>1
  <2>5. \A i \in 1..Len(U) : Q[i] = c => Weight(U[i]) > Deepest + 1 - 1
    BY <2>4
  <2>6. b = k + 1 /\ c = d + 1
    BY <1>19
  <2> HIDE DEF b, c
  <2>7. b = Begins(U, P) /\ c = Deep(U, Q)
    BY DEF b, c
  <2>8. \E M, N : AllFit(T, k, stack', M, N) /\ Begins(stack', M) = b /\ Deep(stack', N) = c
    BY <1>11, <1>17, <1>19, <2>1, <2>2, <2>3, <2>5, <2>7, LevelsCalled
  <2> QED BY <2>6, <2>8
<1>21. PICK M, N : AllFit(T, k, stack', M, N) /\ Begins(stack', M) = k + 1 /\ Deep(stack', N) = d + 1
  BY <1>20
<1>22. T.depth[k] = Deep(stack', N) /\ k + 1 = Begins(stack', M) /\ input'[k] \notin {"TT_NUM", "TT_RPAREN"}
  BY <1>5, <1>8, <1>10, <1>14, <1>21
<1>23. Right(T, k, heap') /\ Settled(T, k, heap', 0)
  BY <1>1, <1>13
<1> QED BY <1>1, <1>5, <1>11, <1>21, <1>22, <1>23, OperandDue

(* A function makes an expression of its operands.                         *)
LEMMA NegateSpans ==
  ASSUME GInv, GInv', SpanInv, Negate
  PROVE  SpanInv'
<1> DEFINE f == Top
           n == Len(stack)
<1>1. /\ mode = "negate" /\ mode' = Resume(stack') /\ UNCHANGED <<input, buffer>>
      /\ stack' = SubSeq(stack, 1, n - 1) /\ value' = {f.op} \cup value
      /\ heap' = Grown(heap, f.op, {}, value)
  BY DEF Negate, Under, Alloc, Grown
<1>2. /\ ~Failed /\ stack \in Seq(Calls) /\ stack # <<>> /\ Linked(stack)
      /\ f \in Calls /\ f.fn = "unary" /\ n \in 1..n
  BY <1>1, Working DEF GInv, PInv, Located, Running
<1>3. f.op # 0 /\ f.left = {}
  BY <1>2 DEF GInv, PInv, FramesShaped, FrameShaped, Top
<1>4. stack' # <<>> /\ Innermost(Top') /\ stack' \in Seq(Calls)
  <2>1. stack' # <<>> /\ Innermost(Top')
    BY <1>1, <1>2, ReturnedTo DEF Top
  <2> QED BY <2>1 DEF GInv, PInv, Typed
<1>5. PICK T : T = Tables
  OBVIOUS
<1>6. PICK e : e = Eaten
  OBVIOUS
<1>7. Eaten' = e /\ Tables' = T /\ input' = input
  BY <1>1, <1>5, <1>6, NoneEaten
<1>8. /\ Sound(T, e) /\ Right(T, e, heap)
      /\ \E B, D : AllFit(T, e, stack, B, D) /\ InHand(T, e, B, D)
  BY <1>1, <1>2, <1>5, <1>6, SpanHeld
<1>9. PICK B, D : AllFit(T, e, stack, B, D) /\ InHand(T, e, B, D)
  BY <1>8
<1>10. /\ T.depth[e] = Deep(stack, D) /\ value = Span(T, Begins(stack, B), e)
       /\ input[e] \in {"TT_NUM", "TT_RPAREN"} /\ Settled(T, e, heap, Limit(stack))
  BY <1>1, <1>9 DEF InHand, Operand
<1>11. /\ Begins(stack, B) = f.op + 1 /\ Deep(stack, D) = D[n] /\ Limit(stack) = 1
       /\ Fits(T, e, f, B[n], D[n])
  <2>1. Fits(T, e, stack[n], B[n], D[n])
    BY <1>2, <1>8, <1>9, AllSeen
  <2> QED BY <1>2, <1>3, <2>1 DEF Begins, From, Deep, Inner, Limit, Top
<1>12. Reach(T, f.op) = 1
  BY <1>2, <1>3, <1>11 DEF Fits, Reach
<1> HIDE DEF f, n
<1>13. /\ Right(T, e, heap') /\ Settled(T, e, heap', 1)
       /\ {f.op} \cup f.left \cup value = Span(T, B[n], e)
  <2>1. f.fn # "level" /\ T.depth[e] = D[n] /\ value = Span(T, f.op + 1, e)
        /\ heap' = Grown(heap, f.op, f.left, value) /\ Reach(T, f.op) <= 1 /\ Settled(T, e, heap, 1)
    BY <1>1, <1>2, <1>3, <1>10, <1>11, <1>12
  <2>2. f.fn # "level" => f.left = {}
    BY <1>3
  <2> DEFINE b == B[n]
             d == D[n]
             v == value
             N == heap'
  <2>3. Fits(T, e, f, b, d) /\ T.depth[e] = d
    BY <1>11, <2>1
  <2> HIDE DEF b, d, v, N
  <2>4. /\ Right(T, e, N) /\ Settled(T, e, N, 1)
        /\ {f.op} \cup f.left \cup v = Span(T, b, e)
    <3>1. v = Span(T, f.op + 1, e) /\ N = Grown(heap, f.op, f.left, v)
      BY <2>1 DEF v, N
    <3>2. f \in Calls /\ f.op # 0 /\ Sound(T, e) /\ Right(T, e, heap) /\ 1 \in Int
          /\ Settled(T, e, heap, 1) /\ Reach(T, f.op) <= 1
      BY <1>2, <1>3, <1>8, <2>1
    <3> QED BY <2>2, <2>3, <3>1, <3>2, OperatorRight
  <2> QED BY <2>4 DEF b, d, v, N
<1>14. AllFit(T, e, stack', B, D) /\ Begins(stack', B) = B[n] /\ Deep(stack', D) = D[n]
  <2>1. /\ AllFit(T, e, stack, B, D) /\ stack \in Seq(Calls) /\ stack # <<>>
        /\ stack' = SubSeq(stack, 1, Len(stack) - 1)
    BY <1>1, <1>2, <1>9 DEF n
  <2>2. /\ AllFit(T, e, stack', B, D)
        /\ Begins(stack', B) = B[Len(stack)] /\ Deep(stack', D) = D[Len(stack)]
    BY <2>1, TopReturns
  <2> QED BY <2>2 DEF n
<1>15. Limit(stack') = 1
  BY <1>4, LimitIn DEF Top
<1>16. Operand'
  <2>1. mode' = "operand" \/ mode' = "negate"
    BY <1>1, <1>4, Resuming DEF Top
  <2> QED BY <2>1 DEF Operand
<1>17. value' = Span(T, Begins(stack', B), e)
  BY <1>1, <1>3, <1>13, <1>14
<1>18. T.depth[e] = Deep(stack', D) /\ input'[e] \in {"TT_NUM", "TT_RPAREN"} /\ Settled(T, e, heap', Limit(stack'))
  BY <1>7, <1>10, <1>11, <1>13, <1>14, <1>15
<1> QED BY <1>7, <1>8, <1>13, <1>14, <1>16, <1>17, <1>18, OperandGiven

LEMMA CloseParenSpans ==
  ASSUME GInv, GInv', SpanInv, CloseParen
  PROVE  SpanInv'
<1> DEFINE k == NextToken
           f == Top
           n == Len(stack)
<1>1. /\ mode = "close" /\ mode' = Resume(stack') /\ NextType = "TT_RPAREN" /\ buffer # <<>> /\ Pop
      /\ stack' = SubSeq(stack, 1, n - 1) /\ UNCHANGED <<value, heap>>
  BY DEF CloseParen, Look, Under
<1>2. /\ ~Failed /\ stack \in Seq(Calls) /\ stack # <<>> /\ Linked(stack)
      /\ f \in Calls /\ f.fn = "paren" /\ n \in 1..n
  BY <1>1, Working DEF GInv, PInv, Located, Running
<1>3. f.op = 0
  BY <1>2 DEF GInv, PInv, FramesShaped, FrameShaped, Top
<1>4. stack' # <<>> /\ Innermost(Top') /\ stack' \in Seq(Calls)
  <2>1. stack' # <<>> /\ Innermost(Top')
    BY <1>1, <1>2, ReturnedTo DEF Top
  <2> QED BY <2>1 DEF GInv, PInv, Typed
<1> HIDE DEF k
<1>5. PICK T : T = Tables
  OBVIOUS
<1>6. PICK e : e = Eaten
  OBVIOUS
<1>7. /\ k = e + 1 /\ e \in Nat /\ Len(input) \in Nat /\ k <= Len(input) /\ Eaten' = k
      /\ input' = input /\ Tables' = T /\ NextType = input[k]
  BY <1>1, <1>5, <1>6, TokenEaten DEF k
<1>8. /\ Sound(T, e) /\ Right(T, e, heap)
      /\ \E B, D : AllFit(T, e, stack, B, D) /\ InHand(T, e, B, D)
  BY <1>1, <1>2, <1>5, <1>6, SpanHeld
<1>9. PICK B, D : AllFit(T, e, stack, B, D) /\ InHand(T, e, B, D)
  BY <1>8
<1>10. /\ T.depth[e] = Deep(stack, D) /\ value = Span(T, Begins(stack, B), e)
       /\ Settled(T, e, heap, Limit(stack))
  BY <1>1, <1>9 DEF InHand, Operand
<1>11. /\ Begins(stack, B) = B[n] + 1 /\ Deep(stack, D) = D[n] + 1
       /\ Fits(T, e, f, B[n], D[n]) /\ D[n] \in Nat /\ B[n] \in Nat /\ B[n] <= e /\ B[n] \notin T.marks
  <2>1. Fits(T, e, stack[n], B[n], D[n]) /\ D[n] \in Nat /\ B[n] \in Nat
    BY <1>2, <1>8, <1>9, AllSeen
  <2>2. B[n] <= e /\ B[n] \notin T.marks
    BY <1>2, <2>1 DEF Fits, Top
  <2> QED BY <1>2, <1>3, <2>1, <2>2 DEF Begins, From, Deep, Inner, Top
<1>12. AllFit(T, e, stack', B, D) /\ Begins(stack', B) = B[n] /\ Deep(stack', D) = D[n]
  <2>1. /\ AllFit(T, e, stack, B, D) /\ stack \in Seq(Calls) /\ stack # <<>>
        /\ stack' = SubSeq(stack, 1, Len(stack) - 1)
    BY <1>1, <1>2, <1>9
  <2>2. /\ AllFit(T, e, stack', B, D)
        /\ Begins(stack', B) = B[Len(stack)] /\ Deep(stack', D) = D[Len(stack)]
    BY <2>1, TopReturns
  <2> QED BY <2>2
<1> HIDE DEF f, n
<1>13. /\ T.depth[k] \in Int /\ T.depth[e] \in Int /\ T.depth[k] = D[n] /\ T.depth[k] < T.depth[e]
       /\ k \notin T.marks /\ k \notin T.infix /\ k \in Nat
       /\ input[k] = "TT_RPAREN"
  <2>1. input[k] = "TT_RPAREN" /\ input[k] \notin Operators
    BY <1>1, <1>7, OperatorTokens
  <2>2. /\ T.depth[k] \in Int /\ T.depth[e] \in Int /\ T.depth[k] = T.depth[e] - 1
        /\ k \notin T.marks /\ k \notin T.infix /\ k \in Nat
    BY <1>5, <1>7, <2>1, TokenRead
  <2> QED BY <1>10, <1>11, <2>1, <2>2
<1>14. Sound(T, k)
  BY <1>7, <1>8, <1>13, SoundOn
<1>15. AllFit(T, k, stack', B, D)
  <2>1. \A i \in 1..Len(stack') : T.depth[k] >= D[i]
    <3>1. \A i \in 1..Len(stack') : D[i] <= Deep(stack', D) /\ D[i] \in Nat
      BY <1>4, <1>8, <1>12, AllSeen
    <3> QED BY <1>12, <1>13, <3>1
  <2> QED BY <1>4, <1>7, <1>8, <1>12, <1>13, <2>1, AllFitOn
<1>16. Settled(T, k, heap, 0) /\ Right(T, k, heap)
  <2>1. Settled(T, k, heap, 0)
    <3>1. Limit(stack) \in Int
      BY <1>2, LimitIn
    <3> QED BY <1>7, <1>8, <1>10, <1>13, <3>1, SettledOn
  <2> QED BY <1>7, <1>8, <1>13, <2>1, RightOn
<1>17. Settled(T, k, heap', Limit(stack')) /\ Right(T, k, heap')
  <2>1. Limit(stack') \in Int /\ 0 <= Limit(stack')
    BY <1>4, LimitIn
  <2>2. Settled(T, k, heap, Limit(stack'))
    BY <1>14, <1>16, <2>1, SettledWithin
  <2> QED BY <1>1, <1>16, <2>2
<1>18. value' = Span(T, Begins(stack', B), k)
  <2>1. value' = Span(T, B[n] + 1, e)
    BY <1>1, <1>10, <1>11
  <2>2. \A i : i \in B[n]..k <=> (i \in (B[n] + 1)..e \/ i = B[n] \/ i = k)
    BY <1>7, <1>11
  <2>3. Span(T, B[n] + 1, e) = Span(T, B[n], k)
    BY <1>11, <1>13, <2>2 DEF Span
  <2> QED BY <1>12, <2>1, <2>3
<1>19. Operand'
  <2>1. mode' = "operand" \/ mode' = "negate"
    BY <1>1, <1>4, Resuming DEF Top
  <2> QED BY <2>1 DEF Operand
<1>20. T.depth[k] = Deep(stack', D) /\ input'[k] \in {"TT_NUM", "TT_RPAREN"}
  BY <1>7, <1>12, <1>13
<1> QED BY <1>7, <1>14, <1>15, <1>17, <1>18, <1>19, <1>20, OperandGiven
----------------------------------------------------------------------------
(* The functions of the binary operators. *)

(* The same limit for what goes on with the same function.                 *)
LEMMA SameLimit ==
  ASSUME NEW S, NEW V, S # <<>>, V # <<>>, Len(V) = Len(S), S[Len(S)] \in Calls,
         V[Len(S)].fn = S[Len(S)].fn, V[Len(S)].level = S[Len(S)].level
  PROVE  Limit(V) = Limit(S)
<1> DEFINE f == S[Len(S)]
           g == V[Len(V)]
<1>1. /\ f.fn \in {"level", "unary", "paren"} /\ g.fn = f.fn /\ g.level = f.level
      /\ Limit(S) = CASE f.fn = "level" -> Weight(f)
                      [] f.fn = "unary" -> 1
                      [] f.fn = "paren" -> Deepest
      /\ Limit(V) = CASE g.fn = "level" -> Weight(g)
                      [] g.fn = "unary" -> 1
                      [] g.fn = "paren" -> Deepest
  BY DEF Limit, Calls
<1> HIDE DEF f, g
<1> QED BY <1>1 DEF Weight

(* A function has a left operand now, and goes round its loop.             *)
LEMMA OperandTakenSpans ==
  ASSUME GInv, GInv', mode = "operand", mode' = "loop", NEW left \in SUBSET Nat,
         stack' = Update(left, 0),
         NEW T, Tables' = T, NEW e, Eaten' = e, Sound(T, e), Right(T, e, heap'),
         NEW B, NEW D, AllFit(T, e, stack, B, D), left = Span(T, B[Len(stack)], e),
         T.depth[e] = D[Len(stack)], input'[e] \in {"TT_NUM", "TT_RPAREN"},
         Settled(T, e, heap', Limit(stack))
  PROVE  SpanInv'
<1>1. /\ stack \in Seq(Calls) /\ stack # <<>> /\ Top \in Calls /\ Top.fn = "level"
      /\ Len(stack) \in 1..Len(stack)
  BY Working DEF GInv, PInv, Located, Running
<1>2. /\ stack' \in Seq(Calls) /\ Len(stack') = Len(stack) /\ Len(stack) \in Nat \ {0}
      /\ \A i \in 1..(Len(stack) - 1) : stack'[i] = stack[i]
      /\ stack'[Len(stack)].fn = Top.fn /\ stack'[Len(stack)].level = Top.level
      /\ stack'[Len(stack)].left = left /\ stack'[Len(stack)].op = 0
  <2>1. 0 \in Nat
    OBVIOUS
  <2> QED BY <1>1, <2>1, Updated
<1>3. stack' # <<>>
  BY <1>2
<1> DEFINE n == Len(stack)
           g == stack'[n]
           f == Top
           b == B[n]
           d == D[n]
<1>4. Fits(T, e, f, b, d) /\ f.fn = "level" /\ f.fn = stack[n].fn /\ f.level = stack[n].level
  <2>1. Fits(T, e, stack[n], B[n], D[n])
    BY <1>1, AllSeen
  <2> QED BY <1>1, <2>1 DEF Top
<1>5. g.fn = f.fn /\ g.level = f.level /\ g.op = 0
  BY <1>2
<1>6. Limit(stack') = Limit(stack)
  BY <1>1, <1>2, <1>3, SameLimit DEF Top
<1>7. Top' = g /\ Deep(stack', D) = d
  BY <1>2, <1>3, <1>4, <1>5 DEF Deep, Inner, Top
<1> HIDE DEF n, g, f, b, d
<1>8. Fits(T, e, g, b, d)
  <2>1. Weight(g) = Weight(f)
    BY <1>5 DEF Weight
  <2> QED BY <1>4, <1>5, <2>1 DEF Fits
<1>9. AllFit(T, e, stack', B, D)
  <2>1. \A i \in 1..(Len(stack) - 1) : Fits(T, e, stack[i], B[i], D[i])
    <3>1. \A i \in 1..Len(stack) : Fits(T, e, stack[i], B[i], D[i])
      BY DEF AllFit
    <3> QED BY <1>2, <3>1
  <2>2. Fits(T, e, stack'[Len(stack)], B[Len(stack)], D[Len(stack)])
    BY <1>8 DEF n, g, b, d
  <2>3. stack'[Len(stack)].fn = stack[Len(stack)].fn /\ stack'[Len(stack)].level = stack[Len(stack)].level
    BY <1>4, <1>5 DEF g, n
  <2> QED BY <1>1, <1>2, <2>1, <2>2, <2>3, AllFitTop
<1>10. Top'.left = Span(T, B[Len(stack')], e)
  BY <1>2, <1>7 DEF g, n
<1>11. T.depth[e] = Deep(stack', D)
  BY <1>7 DEF d, n
<1> QED BY <1>6, <1>9, <1>10, <1>11, OperandHeld

LEMMA FirstOperandSpans ==
  ASSUME GInv, GInv', SpanInv, FirstOperand
  PROVE  SpanInv'
<1>1. /\ mode = "operand" /\ mode' = "loop" /\ Top.op = 0 /\ stack' = Update(value, 0)
      /\ UNCHANGED <<input, buffer, heap>>
  BY DEF FirstOperand
<1>2. /\ ~Failed /\ stack \in Seq(Calls) /\ stack # <<>> /\ Top.fn = "level"
      /\ Len(stack) \in 1..Len(stack)
  BY <1>1, Working DEF GInv, PInv, Located, Running
<1>3. value \in SUBSET Nat
  BY DEF GInv, PInv, Typed, NodesHeld, Holding, Places
<1>4. PICK T : T = Tables
  OBVIOUS
<1>5. PICK e : e = Eaten
  OBVIOUS
<1>6. Eaten' = e /\ Tables' = T /\ input' = input
  BY <1>1, <1>4, <1>5, NoneEaten
<1>7. /\ Sound(T, e) /\ Right(T, e, heap)
      /\ \E B, D : AllFit(T, e, stack, B, D) /\ InHand(T, e, B, D)
  BY <1>1, <1>2, <1>4, <1>5, SpanHeld
<1>8. PICK B, D : AllFit(T, e, stack, B, D) /\ InHand(T, e, B, D)
  BY <1>7
<1>9. /\ T.depth[e] = Deep(stack, D) /\ value = Span(T, Begins(stack, B), e)
      /\ input[e] \in {"TT_NUM", "TT_RPAREN"} /\ Settled(T, e, heap, Limit(stack))
  BY <1>1, <1>8 DEF InHand, Operand
<1>10. Begins(stack, B) = B[Len(stack)] /\ Deep(stack, D) = D[Len(stack)]
  BY <1>1, <1>2 DEF Begins, From, Deep, Inner, Top
<1>11. value = Span(T, B[Len(stack)], e) /\ T.depth[e] = D[Len(stack)]
  BY <1>9, <1>10
<1>12. /\ Right(T, e, heap') /\ Settled(T, e, heap', Limit(stack))
       /\ input'[e] \in {"TT_NUM", "TT_RPAREN"}
  BY <1>1, <1>7, <1>9
<1> QED BY <1>1, <1>3, <1>6, <1>7, <1>8, <1>11, <1>12, OperandTakenSpans

LEMMA RightOperandSpans ==
  ASSUME GInv, GInv', SpanInv, RightOperand
  PROVE  SpanInv'
<1> DEFINE f == Top
           n == Len(stack)
           left == {f.op} \cup f.left \cup value
<1>1. /\ mode = "operand" /\ mode' = "loop" /\ f.op # 0 /\ stack' = Update(left, 0)
      /\ UNCHANGED <<input, buffer>> /\ heap' = Grown(heap, f.op, f.left, value)
  BY DEF RightOperand, Alloc, Grown
<1>2. /\ ~Failed /\ stack \in Seq(Calls) /\ stack # <<>> /\ f \in Calls /\ f.fn = "level" /\ n \in 1..n
  BY <1>1, Working DEF GInv, PInv, Located, Running
<1>3. left \in SUBSET Nat
  <2>1. value \subseteq Nat
    BY DEF GInv, PInv, Typed, NodesHeld, Holding, Places
  <2> QED BY <1>2, <2>1 DEF Calls
<1>4. PICK T : T = Tables
  OBVIOUS
<1>5. PICK e : e = Eaten
  OBVIOUS
<1>6. Eaten' = e /\ Tables' = T /\ input' = input
  BY <1>1, <1>4, <1>5, NoneEaten
<1>7. /\ Sound(T, e) /\ Right(T, e, heap)
      /\ \E B, D : AllFit(T, e, stack, B, D) /\ InHand(T, e, B, D)
  BY <1>1, <1>2, <1>4, <1>5, SpanHeld
<1>8. PICK B, D : AllFit(T, e, stack, B, D) /\ InHand(T, e, B, D)
  BY <1>7
<1>9. /\ T.depth[e] = Deep(stack, D) /\ value = Span(T, Begins(stack, B), e)
      /\ input[e] \in {"TT_NUM", "TT_RPAREN"} /\ Settled(T, e, heap, Limit(stack))
  BY <1>1, <1>8 DEF InHand, Operand
<1>10. /\ Begins(stack, B) = f.op + 1 /\ Deep(stack, D) = D[n] /\ Limit(stack) = Weight(f)
       /\ Fits(T, e, f, B[n], D[n])
  <2>1. Fits(T, e, stack[n], B[n], D[n])
    BY <1>2, <1>7, <1>8, AllSeen
  <2> QED BY <1>1, <1>2, <2>1 DEF Begins, From, Deep, Inner, Limit, Top
<1>11. Reach(T, f.op) = Weight(f) /\ Weight(f) \in Int /\ Reach(T, f.op) <= Weight(f)
  <2>1. f.op \in T.infix /\ T.binding[f.op] = Weight(f)
    BY <1>1, <1>2, <1>10 DEF Fits
  <2>2. Weight(f) \in Nat
    BY <1>2, WeightIn
  <2> QED BY <2>1, <2>2 DEF Reach
<1> DEFINE b == B[n]
           d == D[n]
           v == value
           N == heap'
           limit == Weight(f)
<1>12. /\ Fits(T, e, f, b, d) /\ T.depth[e] = d /\ v = Span(T, f.op + 1, e)
       /\ N = Grown(heap, f.op, f.left, v) /\ Settled(T, e, heap, limit) /\ limit \in Int
       /\ Reach(T, f.op) <= limit
  BY <1>1, <1>9, <1>10, <1>11
<1> HIDE DEF f, n, b, d, v, N, limit, left
<1>13. /\ Right(T, e, N) /\ Settled(T, e, N, limit)
       /\ {f.op} \cup f.left \cup v = Span(T, b, e)
  <2>1. f.fn # "level" => f.left = {}
    BY <1>2
  <2> QED BY <1>1, <1>2, <1>7, <1>12, <2>1, OperatorRight
<1>14. /\ left = Span(T, B[Len(stack)], e) /\ T.depth[e] = D[Len(stack)]
       /\ Settled(T, e, heap', Limit(stack)) /\ Right(T, e, heap')
       /\ input'[e] \in {"TT_NUM", "TT_RPAREN"}
  BY <1>6, <1>9, <1>10, <1>12, <1>13 DEF f, n, b, d, v, N, limit, left
<1> QED BY <1>1, <1>3, <1>6, <1>7, <1>8, <1>14, OperandTakenSpans

LEMMA LeaveLevelSpans ==
  ASSUME GInv, GInv', SpanInv, LeaveLevel
  PROVE  SpanInv'
<1> DEFINE f == Top
           n == Len(stack)
<1>1. /\ mode = "loop" /\ mode' = Resume(stack') /\ UNCHANGED <<input, buffer, heap, at>>
      /\ stack' = SubSeq(stack, 1, n - 1) /\ value' = f.left
  BY DEF LeaveLevel, Under, callVars
<1>2. /\ ~Failed /\ at = 7 /\ stack \in Seq(Calls) /\ stack # <<>> /\ Linked(stack)
      /\ f \in Calls /\ f.fn = "level" /\ n \in 1..n
  BY <1>1, Working DEF GInv, PInv, Located, Running
<1>3. f.op = 0 /\ f.left # {} /\ f.level \in 1..Deepest
  BY <1>1, <1>2 DEF GInv, PInv, Located, LookedAhead, FramesShaped, FrameShaped, Top
<1>4. /\ f.level = 1 => stack' = <<>> \/ Top'.fn = "paren"
      /\ f.level # 1 => stack' # <<>> /\ Top'.fn = "level" /\ Top'.level = f.level - 1
  <2>1. f = stack[Len(stack)] /\ Top' = stack'[Len(stack')]
    BY DEF Top
  <2>2. f.level = 1 => stack' = <<>> \/ Top'.fn = "paren"
    BY <1>1, <1>2, <2>1, ReturnedTo
  <2>3. f.level # 1 => stack' # <<>> /\ Top'.fn = "level"
    BY <1>1, <1>2, <2>1, ReturnedTo
  <2>4. f.level # 1 => Top'.level = f.level - 1
    BY <1>1, <1>2, <2>1, ReturnedTo
  <2> QED BY <2>2, <2>3, <2>4
<1>5. stack' \in Seq(Calls)
  BY DEF GInv, PInv, Typed
<1>6. PICK T : T = Tables
  OBVIOUS
<1>7. PICK e : e = Eaten
  OBVIOUS
<1>8. Eaten' = e /\ Tables' = T /\ input' = input
  BY <1>1, <1>6, <1>7, NoneEaten
<1>9. /\ Sound(T, e) /\ Right(T, e, heap)
      /\ \E B, D : AllFit(T, e, stack, B, D) /\ InHand(T, e, B, D)
  BY <1>1, <1>2, <1>6, <1>7, SpanHeld
<1>10. PICK B, D : AllFit(T, e, stack, B, D) /\ InHand(T, e, B, D)
  BY <1>9
<1>11. /\ T.depth[e] = D[n] /\ f.left = Span(T, B[n], e)
       /\ input[e] \in {"TT_NUM", "TT_RPAREN"} /\ Settled(T, e, heap, Weight(f))
  <2>1. Deep(stack, D) = D[n] /\ Limit(stack) = Weight(f)
    BY <1>2 DEF Deep, Inner, Limit, Top
  <2> QED BY <1>1, <1>10, <2>1 DEF InHand
<1>12. /\ AllFit(T, e, stack', B, D) /\ Begins(stack', B) = B[n] /\ Deep(stack', D) = D[n]
  <2>1. /\ AllFit(T, e, stack, B, D) /\ stack \in Seq(Calls) /\ stack # <<>>
        /\ stack' = SubSeq(stack, 1, Len(stack) - 1)
    BY <1>1, <1>2, <1>10
  <2>2. /\ AllFit(T, e, stack', B, D)
        /\ Begins(stack', B) = B[Len(stack)] /\ Deep(stack', D) = D[Len(stack)]
    BY <2>1, TopReturns
  <2> QED BY <2>2
<1> HIDE DEF f, n
<1>13. /\ Weight(f) \in Int /\ Limit(stack') \in Int /\ Weight(f) <= Limit(stack')
       /\ mode' \in {"expect", "operand", "close"} /\ (mode' = "expect" => stack' = <<>>)
  <2>1. Weight(f) = 11 - f.level /\ f.level \in 1..10
    BY <1>2, <1>3, WeightIn DEF Deepest
  <2>2. CASE stack' = <<>>
    BY <1>1, <2>1, <2>2 DEF Limit, Resume, Deepest
  <2>3. CASE stack' # <<>>
    <3> DEFINE g == stack'[Len(stack')]
    <3>1. g = Top' /\ g \in Calls
      BY <1>5, <2>3, Popped DEF Top
    <3>2. /\ Limit(stack') = CASE g.fn = "level" -> Weight(g)
                               [] g.fn = "unary" -> 1
                               [] g.fn = "paren" -> Deepest
          /\ mode' = CASE g.fn = "level" -> "operand"
                       [] g.fn = "unary" -> "negate"
                       [] g.fn = "paren" -> "close"
      BY <1>1, <2>3 DEF Limit, Resume
    <3> HIDE DEF g
    <3>3. CASE f.level = 1
      <4>1. g.fn = "paren"
        BY <1>4, <2>3, <3>1, <3>3
      <4> QED BY <2>1, <3>2, <4>1 DEF Deepest
    <3>4. CASE f.level # 1
      <4>1. g.fn = "level" /\ g.level = f.level - 1
        BY <1>4, <3>1, <3>4
      <4>2. Weight(g) = 11 - g.level
        BY <3>1, <4>1, WeightIn
      <4> QED BY <2>1, <3>2, <4>1, <4>2
    <3> QED BY <3>3, <3>4
  <2> QED BY <2>2, <2>3
<1>14. Settled(T, e, heap', Limit(stack'))
  <2>1. Settled(T, e, heap, Limit(stack'))
    BY <1>9, <1>11, <1>13, SettledWithin
  <2> QED BY <1>1, <2>1
<1>15. Operand'
  BY <1>1, <1>2, <1>3, <1>13 DEF Operand
<1>16. value' = Span(T, Begins(stack', B), e) /\ T.depth[e] = Deep(stack', D)
  BY <1>1, <1>11, <1>12
<1>17. Right(T, e, heap') /\ input'[e] \in {"TT_NUM", "TT_RPAREN"}
  BY <1>1, <1>8, <1>9, <1>11
<1> QED BY <1>8, <1>9, <1>12, <1>14, <1>15, <1>16, <1>17, OperandGiven

(* An operator of the innermost level concerns no other function that      *)
(* runs: each is in a wider parenthesis, or looks for looser operators.    *)
LEMMA OthersFit ==
  ASSUME NEW T, NEW e, NEW k, k = e + 1, Sound(T, e), NEW S \in Seq(Calls), S # <<>>,
         NEW B, NEW D, AllFit(T, e, S, B, D), T.depth[k] \in Int, T.depth[k] = D[Len(S)],
         T.binding[k] \in Int, T.binding[k] = Weight(S[Len(S)]), Weight(S[Len(S)]) > 0,
         NEW i \in 1..(Len(S) - 1)
  PROVE  /\ Fits(T, k, S[i], B[i], D[i])
         /\ D[i] = D[Len(S)] => Weight(S[i]) > Weight(S[Len(S)])
<1>1. Len(S) \in Nat \ {0} /\ i \in 1..Len(S) /\ Len(S) \in 1..Len(S) /\ i < Len(S)
  BY Popped
<1>2. /\ S[i] \in Calls /\ Fits(T, e, S[i], B[i], D[i])
      /\ Below(S[i], D[i], S[Len(S)], D[Len(S)]) /\ S[Len(S)] \in Calls
  BY <1>1, ElementOfSeq DEF AllFit
<1> DEFINE f == S[i]
           g == S[Len(S)]
           b == B[i]
           d == D[i]
           c == D[Len(S)]
<1>3. f \in Calls /\ g \in Calls /\ Fits(T, e, f, b, d) /\ T.depth[k] = c /\ T.binding[k] = Weight(g)
      /\ Weight(g) > 0 /\ Below(f, d, g, c)
  BY <1>2
<1> HIDE DEF f, g, b, d, c
<1>4. /\ d \in Int /\ d <= c /\ Weight(f) \in Nat /\ Weight(g) \in Nat
      /\ d = c => Weight(f) > Weight(g)
  BY <1>3, WeightIn DEF Fits, Below
<1>5. ASSUME T.depth[k] = d, f.op # 0 PROVE T.binding[k] < Reach(T, f.op)
  <2>1. Weight(f) > Weight(g) /\ f.fn = "level"
    BY <1>3, <1>4, <1>5, WeightIn
  <2>2. f.op \in T.infix /\ T.binding[f.op] = Weight(f)
    BY <1>3, <1>5, <2>1 DEF Fits
  <2> QED BY <1>3, <2>1, <2>2 DEF Reach
<1>6. Fits(T, k, f, b, d)
  <2>1. T.depth[k] >= d
    BY <1>3, <1>4
  <2>2. T.depth[k] = d => T.binding[k] <= Weight(f)
    BY <1>3, <1>4
  <2> QED BY <1>3, <1>5, <2>1, <2>2, FitsOn
<1> QED BY <1>4, <1>6 DEF f, g, b, d, c

LEMMA MatchOperatorSpans ==
  ASSUME GInv, GInv', SpanInv, MatchOperator
  PROVE  SpanInv'
<1> DEFINE k == NextToken
           f == Top
           n == Len(stack)
           U == Update(f.left, k)
<1>1. /\ mode = "loop" /\ mode' = "unary" /\ NextType \in Levels[f.level] /\ buffer # <<>> /\ Pop
      /\ stack' = U \o CallFrom(f.level + 1) /\ heap' = heap
  BY DEF MatchOperator, Look
<1>2. /\ ~Failed /\ stack \in Seq(Calls) /\ stack # <<>>
      /\ f \in Calls /\ f.fn = "level" /\ n \in 1..n
  BY <1>1, Working DEF GInv, PInv, Located, Running
<1>3. f.op = 0 /\ f.level \in 1..Deepest /\ f.left \in SUBSET Nat
  BY <1>1, <1>2 DEF GInv, PInv, Located, FramesShaped, FrameShaped, Top, Calls
<1>4. PICK T : T = Tables
  OBVIOUS
<1>5. PICK e : e = Eaten
  OBVIOUS
<1>6. /\ k = e + 1 /\ e \in Nat /\ Len(input) \in Nat /\ k <= Len(input) /\ Eaten' = k
      /\ input' = input /\ Tables' = T /\ NextType = input[k] /\ k \in Nat
  BY <1>1, <1>4, <1>5, TokenEaten
<1>7. /\ U \in Seq(Calls) /\ Len(U) = n /\ n \in Nat \ {0}
      /\ \A i \in 1..(n - 1) : U[i] = stack[i]
      /\ U[n].fn = f.fn /\ U[n].level = f.level /\ U[n].left = f.left /\ U[n].op = k
  BY <1>2, <1>3, <1>6, Updated
<1>8. U # <<>> /\ Len(U) \in 1..Len(U)
  BY <1>7
<1>9. /\ Sound(T, e) /\ Right(T, e, heap)
      /\ \E B, D : AllFit(T, e, stack, B, D) /\ InHand(T, e, B, D)
  BY <1>1, <1>2, <1>4, <1>5, SpanHeld
<1>10. PICK B, D : AllFit(T, e, stack, B, D) /\ InHand(T, e, B, D)
  BY <1>9
<1> HIDE DEF k, U
<1>11. /\ T.depth[e] = D[n] /\ f.left = Span(T, B[n], e)
       /\ input[e] \in {"TT_NUM", "TT_RPAREN"} /\ Settled(T, e, heap, Weight(f))
  <2>1. Deep(stack, D) = D[n] /\ Limit(stack) = Weight(f)
    BY <1>2 DEF Deep, Inner, Limit, Top
  <2> QED BY <1>1, <1>10, <2>1 DEF InHand
<1>12. /\ Fits(T, e, f, B[n], D[n]) /\ D[n] \in Nat /\ B[n] \in Nat /\ B[n] >= 7 /\ B[n] <= e + 1
       /\ \A i \in 1..n : D[i] \in Nat
  <2>1. /\ Fits(T, e, stack[n], B[n], D[n]) /\ D[n] \in Nat /\ B[n] \in Nat
        /\ \A i \in 1..n : D[i] \in Nat
    BY <1>2, <1>9, <1>10, AllSeen
  <2> QED BY <2>1 DEF Fits, Top
<1>13. Weight(f) = 11 - f.level /\ Weight(f) > 0 /\ Weight(f) \in Int
  BY <1>2, <1>3, WeightIn DEF Deepest
<1>14. /\ T.depth[k] \in Int /\ T.depth[k] = T.depth[e] /\ T.depth[k] = D[n]
       /\ k \in T.marks /\ k \notin T.numbers /\ k \in T.infix
       /\ T.binding[k] = Weight(f) /\ T.binding[k] \in 1..Deepest /\ T.binding[k] \in Int
       /\ input[k] \notin {"TT_NUM", "TT_RPAREN"}
  <2>1. /\ input[k] \notin {"TT_NUM", "TT_RPAREN", "TT_LPAREN"} /\ input[k] \in Operators
        /\ input[k] \in Levels[f.level]
    BY <1>1, <1>3, <1>6, OperatorTokens, LevelsApart
  <2>2. k > 6
    BY <1>6, <1>12
  <2>3. /\ T.depth[k] \in Int /\ T.depth[k] = T.depth[e]
        /\ k \in T.marks /\ k \notin T.numbers /\ k \in T.infix
    BY <1>4, <1>6, <1>11, <2>1, <2>2, TokenRead
  <2>4. T.binding[k] = Deepest + 1 - f.level
    BY <1>3, <1>4, <1>6, <2>1, TokenRead
  <2>5. T.binding[k] = Weight(f) /\ T.binding[k] \in 1..Deepest /\ T.binding[k] \in Int
    BY <1>3, <1>13, <2>4 DEF Deepest
  <2> QED BY <1>11, <2>1, <2>3, <2>5
<1>15. Sound(T, k)
  BY <1>6, <1>9, <1>14, SoundOn
<1>16. \A i \in 1..(n - 1) : /\ Fits(T, k, stack[i], B[i], D[i])
                             /\ D[i] = D[n] => Weight(stack[i]) > Weight(f)
  <2>1. T.depth[k] = D[Len(stack)] /\ T.binding[k] = Weight(stack[Len(stack)]) /\ Weight(stack[Len(stack)]) > 0
    BY <1>13, <1>14 DEF Top
  <2>2. ASSUME NEW i \in 1..(Len(stack) - 1)
        PROVE  /\ Fits(T, k, stack[i], B[i], D[i])
               /\ D[i] = D[Len(stack)] => Weight(stack[i]) > Weight(stack[Len(stack)])
    BY <1>2, <1>6, <1>9, <1>10, <1>14, <2>1, OthersFit
  <2> QED BY <2>2 DEF Top
<1> DEFINE g == U[n]
           b == B[n]
           d == D[n]
<1>17. /\ g \in Calls /\ g.fn = "level" /\ g.level = f.level /\ g.left = f.left /\ g.op = k
       /\ Weight(g) = Weight(f)
  <2>1. g \in Calls /\ g.fn = "level" /\ g.level = f.level /\ g.left = f.left /\ g.op = k
    BY <1>2, <1>7, <1>8, Popped
  <2> QED BY <1>2, <2>1 DEF Weight
<1>18. Fits(T, k, g, b, d)
  <2>1. f.left = Span(T, b, e) /\ T.depth[k] = d /\ Fits(T, e, f, b, d)
    BY <1>11, <1>12, <1>14
  <2> HIDE DEF g, b, d, f
  <2> QED BY <1>2, <1>3, <1>6, <1>9, <1>14, <1>17, <2>1, OperatorFits
<1>19. AllFit(T, k, U, B, D)
  <2>1. U[Len(stack)].fn = stack[Len(stack)].fn /\ U[Len(stack)].level = stack[Len(stack)].level
    BY <1>7 DEF Top
  <2>2. \A i \in 1..(Len(stack) - 1) : Fits(T, k, stack[i], B[i], D[i]) /\ U[i] = stack[i]
    BY <1>7, <1>16
  <2>3. Fits(T, k, U[Len(stack)], B[Len(stack)], D[Len(stack)])
    BY <1>18
  <2> QED BY <1>2, <1>7, <1>10, <2>1, <2>2, <2>3, AllFitTop
<1>20. Begins(U, B) = k + 1 /\ Deep(U, D) = d
  <2>1. U[Len(U)] = g /\ B[Len(U)] = b /\ D[Len(U)] = d
    BY <1>7
  <2>2. From(g, b) = k + 1 /\ Inner(g, d) = d
    BY <1>6, <1>17 DEF From, Inner
  <2> QED BY <1>8, <2>1, <2>2 DEF Begins, Deep
<1>21. \E P, Q : AllFit(T, k, stack', P, Q) /\ Begins(stack', P) = k + 1 /\ Deep(stack', Q) = d
  <2> DEFINE a == Begins(U, B)
             c == Deep(U, D)
  <2>1. PICK level : level = f.level + 1
    OBVIOUS
  <2>2. level \in 1..(Deepest + 1) /\ a > k /\ a <= k + 1 /\ Deepest + 1 - level = Weight(f) - 1
        /\ Deepest + 2 - level = Weight(f)
    <3>1. a > k /\ a <= k + 1
      BY <1>6, <1>20
    <3>2. f.level \in 1..10 /\ Weight(f) = 11 - f.level /\ Deepest = 10
      BY <1>3, <1>13 DEF Deepest
    <3> HIDE DEF f, a
    <3>3. level \in 1..11 /\ 11 - level = Weight(f) - 1 /\ 12 - level = Weight(f)
      BY <2>1, <3>2
    <3> QED BY <3>1, <3>2, <3>3
  <2>3. Chain(stack', U, level)
    <3>1. Chain(U \o CallFrom(level), U, level)
      BY <1>7, <2>2, Chained
    <3> QED BY <1>1, <2>1, <3>1
  <2>4. ASSUME NEW i \in T.marks, i < a PROVE \E m \in i..k : Stops(T, m, c, Deepest + 2 - level)
    <3>1. i \in Nat
      BY <1>9 DEF Sound
    <3>2. k \in i..k
      BY <1>6, <1>20, <2>4, <3>1
    <3>3. Stops(T, k, c, Weight(f))
      BY <1>13, <1>14, <1>20 DEF Stops
    <3> QED BY <2>2, <3>2, <3>3
  <2>5. \A i \in 1..Len(U) : D[i] = c => Weight(U[i]) > Deepest + 1 - level
    <3> SUFFICES ASSUME NEW i \in 1..Len(U), D[i] = c PROVE Weight(U[i]) > Weight(f) - 1
      BY <2>2
    <3>1. CASE i = n
      BY <1>13, <1>17, <3>1
    <3>2. CASE i # n
      <4>1. i \in 1..(n - 1) /\ U[i] = stack[i]
        BY <1>7, <3>2
      <4>2. Weight(stack[i]) > Weight(f)
        BY <1>16, <1>20, <4>1
      <4>3. stack[i] \in Calls
        BY <1>2, <4>1, ElementOfSeq
      <4>4. Weight(stack[i]) \in Nat
        BY <4>3, WeightIn
      <4> QED BY <1>13, <4>1, <4>2, <4>4
    <3> QED BY <3>1, <3>2
  <2>6. a = k + 1 /\ c = d
    BY <1>20
  <2> HIDE DEF a, c
  <2>7. a = Begins(U, B) /\ c = Deep(U, D)
    BY DEF a, c
  <2>8. \E P, Q : AllFit(T, k, stack', P, Q) /\ Begins(stack', P) = a /\ Deep(stack', Q) = c
    BY <1>7, <1>15, <1>19, <2>2, <2>3, <2>4, <2>5, <2>7, LevelsCalled
  <2> QED BY <2>6, <2>8
<1>22. PICK P, Q : AllFit(T, k, stack', P, Q) /\ Begins(stack', P) = k + 1 /\ Deep(stack', Q) = d
  BY <1>21
<1>23. Settled(T, k, heap, 0) /\ Right(T, k, heap)
  <2>1. Settled(T, k, heap, 0)
    <3> DEFINE limit == Weight(f)
    <3>1. limit \in Int /\ limit <= T.binding[k] /\ Settled(T, e, heap, limit)
      BY <1>11, <1>13, <1>14
    <3> HIDE DEF limit
    <3> QED BY <1>6, <1>9, <1>14, <3>1, SettledOn
  <2> QED BY <1>6, <1>9, <1>14, <2>1, RightOn
<1>24. T.depth[k] = Deep(stack', Q) /\ k + 1 = Begins(stack', P) /\ input'[k] \notin {"TT_NUM", "TT_RPAREN"}
  BY <1>6, <1>14, <1>22
<1>25. Right(T, k, heap') /\ Settled(T, k, heap', 0)
  BY <1>1, <1>23
<1> QED BY <1>1, <1>6, <1>15, <1>22, <1>24, <1>25, OperandDue
----------------------------------------------------------------------------
(* parse_function and parse_statement *)

LEMMA Outlined ==
  /\ \A i \in 1..6 : Outline[i] \notin {"TT_NUM", "TT_RPAREN"} \/ i = 4
  /\ \A i \in 1..6 : (Outline[i] = "TT_LPAREN" <=> i = 3) /\ (Outline[i] = "TT_RPAREN" <=> i = 4)
  /\ \A i \in 8..9 : Outline[i] \notin Operators \cup {"TT_NUM", "TT_LPAREN", "TT_RPAREN"}
<1>1. \A i \in 1..6 : i \in {1, 2, 3, 4, 5, 6}
  OBVIOUS
<1>2. \A i \in 8..9 : i \in {8, 9}
  OBVIOUS
<1>3. Outline[8] = "TT_SEMI" /\ Outline[9] = "TT_RBRACE"
  BY DEF Outline
<1>4. "TT_SEMI" \notin Operators /\ "TT_RBRACE" \notin Operators
  <2>1. \A l \in 1..Deepest : "TT_RBRACE" \notin Levels[l]
    <3> DEFINE P(l) == "TT_RBRACE" \notin Levels[l]
    <3>1. P(1) /\ P(2) /\ P(3) /\ P(4) /\ P(5) /\ P(6)
      BY DEF Levels
    <3>2. P(7) /\ P(8) /\ P(9) /\ P(10)
      BY DEF Levels
    <3>3. \A l \in 1..Deepest : l \in {1, 2, 3, 4, 5, 6, 7, 8, 9, 10}
      BY DEF Deepest
    <3> QED BY <3>1, <3>2, <3>3
  <2> QED BY <2>1, OperatorTokens DEF Operators, UnaryOps
<1>5. \A i \in 8..9 : Outline[i] \notin Operators \cup {"TT_NUM", "TT_LPAREN", "TT_RPAREN"}
  BY <1>2, <1>3, <1>4
<1>6. /\ Outline[1] = "KW_INT" /\ Outline[2] = "TT_IDENT" /\ Outline[3] = "TT_LPAREN"
      /\ Outline[4] = "TT_RPAREN" /\ Outline[5] = "TT_LBRACE" /\ Outline[6] = "KW_RETURN"
  BY DEF Outline
<1>7. /\ \A i \in 1..6 : Outline[i] \notin {"TT_NUM", "TT_RPAREN"} \/ i = 4
      /\ \A i \in 1..6 : (Outline[i] = "TT_LPAREN" <=> i = 3) /\ (Outline[i] = "TT_RPAREN" <=> i = 4)
  BY <1>1, <1>6
<1> QED BY <1>5, <1>7

(* Between the functions of the program none of the expressions runs.      *)
LEMMA Resting ==
  ASSUME GInv, mode = "expect"
  PROVE  /\ ~Failed /\ stack = <<>> /\ result = "none" /\ at \in 1..10
         /\ at # 7 => value = {}
BY OutlineTokens DEF GInv, PInv, Typed, Located, Running, Over, Failed

LEMMA NoneRuns ==
  ASSUME NEW T, Tables' = T, NEW e, Eaten' = e, Sound(T, e), Right(T, e, heap'),
         stack' = <<>>, mode' \in {"expect", "done"}, value' = {}, Outside(T, e)'
  PROVE  SpanInv'
<1>1. InHand(T, e, <<>>, <<>>)'
  BY DEF InHand, Operand
<1>2. AllFit(T, e, stack', <<>>, <<>>)
  <2>1. 1..Len(stack') = {}
    OBVIOUS
  <2> QED BY <2>1 DEF AllFit
<1>3. /\ Sound(Tables, Eaten)' /\ Right(Tables, Eaten, heap)' /\ Outside(Tables, Eaten)'
      /\ AllFit(Tables, Eaten, stack, <<>>, <<>>)' /\ InHand(Tables, Eaten, <<>>, <<>>)'
  BY <1>1, <1>2
<1> QED BY <1>3, Zenon DEF SpanInv

LEMMA CallExpressionSpans ==
  ASSUME GInv, GInv', SpanInv, CallExpression
  PROVE  SpanInv'
<1>1. /\ mode = "expect" /\ at = 7 /\ value = {} /\ mode' = "unary" /\ stack' = CallFrom(1)
      /\ UNCHANGED <<input, buffer, heap>>
  BY DEF CallExpression, ParseExpression
<1>2. ~Failed /\ stack = <<>>
  BY <1>1, Resting
<1>3. PICK T : T = Tables
  OBVIOUS
<1>4. PICK e : e = Eaten
  OBVIOUS
<1>5. Eaten' = e /\ Tables' = T /\ input' = input
  BY <1>1, <1>3, <1>4, NoneEaten
<1>6. /\ Sound(T, e) /\ Right(T, e, heap) /\ Outside(T, e)
      /\ \E B, D : AllFit(T, e, stack, B, D) /\ InHand(T, e, B, D)
  BY <1>1, <1>2, <1>3, <1>4, SpanHeld
<1>7. PICK B, D : AllFit(T, e, stack, B, D) /\ InHand(T, e, B, D)
  BY <1>6
<1>8. DOMAIN heap = {} /\ e = 6 /\ T.depth[e] = 0 /\ input[e] = "KW_RETURN"
  <2>1. Ahead
    BY <1>1 DEF Ahead
  <2> QED BY <1>1, <1>6, <2>1 DEF Outside, Outline
<1>9. Begins(stack, B) = 7 /\ Deep(stack, D) = 0
  BY <1>2 DEF Begins, Deep
<1>10. \A i \in T.marks : i > 6 /\ i \in Nat
  BY <1>3 DEF Tables, IsNode, Places
<1>11. \E P, Q : AllFit(T, e, stack', P, Q) /\ Begins(stack', P) = 7 /\ Deep(stack', Q) = 0
  <2>1. 1 \in 1..(Deepest + 1)
    BY DEF Deepest
  <2>2. <<>> \in Seq(Calls) /\ Len(<<>>) = 0
    OBVIOUS
  <2>3. Chain(stack', stack, 1)
    <3>1. Chain(<<>> \o CallFrom(1), <<>>, 1)
      BY <2>1, <2>2, Chained
    <3>2. CallFrom(1) \in Seq(Calls)
      BY <2>1, Started
    <3>3. <<>> \o CallFrom(1) = CallFrom(1)
      BY <3>2
    <3> QED BY <1>1, <1>2, <3>1, <3>3
  <2> DEFINE b == Begins(stack, B)
             d == Deep(stack, D)
  <2>4. b > e /\ b <= e + 1 /\ (\A i \in T.marks : ~(i < b)) /\ b = 7 /\ d = 0
    BY <1>8, <1>9, <1>10
  <2>5. stack \in Seq(Calls) /\ \A i \in 1..Len(stack) : FALSE
    BY <1>2, <2>2
  <2> HIDE DEF b, d
  <2>6. b = Begins(stack, B) /\ d = Deep(stack, D)
    BY DEF b, d
  <2>7. \A i \in T.marks : i < b => \E m \in i..e : Stops(T, m, d, Deepest + 2 - 1)
    BY <2>4
  <2>8. \A i \in 1..Len(stack) : D[i] = d => Weight(stack[i]) > Deepest + 1 - 1
    BY <2>5
  <2>9. \E P, Q : AllFit(T, e, stack', P, Q) /\ Begins(stack', P) = b /\ Deep(stack', Q) = d
    BY <1>6, <1>7, <2>1, <2>3, <2>4, <2>5, <2>6, <2>7, <2>8, LevelsCalled
  <2> QED BY <2>4, <2>9
<1>12. PICK P, Q : AllFit(T, e, stack', P, Q) /\ Begins(stack', P) = 7 /\ Deep(stack', Q) = 0
  BY <1>11
<1>13. /\ T.depth[e] = Deep(stack', Q) /\ e + 1 = Begins(stack', P)
       /\ input'[e] \notin {"TT_NUM", "TT_RPAREN"}
  BY <1>5, <1>8, <1>12
<1>14. Right(T, e, heap') /\ Settled(T, e, heap', 0)
  BY <1>1, <1>6, <1>8 DEF Settled
<1> QED BY <1>1, <1>5, <1>6, <1>12, <1>13, <1>14, OperandDue

LEMMA ExpressionReturnedSpans ==
  ASSUME GInv, GInv', SpanInv, ExpressionReturned
  PROVE  SpanInv'
<1>1. /\ mode = "expect" /\ at = 7 /\ value # {} /\ mode' = "expect" /\ at' = 8
      /\ expression' = value /\ value' = {} /\ UNCHANGED <<input, buffer, heap, stack>>
  BY DEF ExpressionReturned
<1>2. ~Failed /\ stack = <<>>
  BY <1>1, Resting
<1>3. PICK T : T = Tables
  OBVIOUS
<1>4. PICK e : e = Eaten
  OBVIOUS
<1>5. Eaten' = e /\ Tables' = T /\ input' = input
  BY <1>1, <1>3, <1>4, NoneEaten
<1>6. /\ Sound(T, e) /\ Right(T, e, heap)
      /\ \E B, D : AllFit(T, e, stack, B, D) /\ InHand(T, e, B, D)
  BY <1>1, <1>2, <1>3, <1>4, SpanHeld
<1>7. PICK B, D : AllFit(T, e, stack, B, D) /\ InHand(T, e, B, D)
  BY <1>6
<1>8. value = Span(T, 7, e)
  <2>1. Operand
    BY <1>1 DEF Operand
  <2> QED BY <1>2, <1>7, <2>1 DEF InHand, Begins
<1>9. Outside(T, e)'
  BY <1>1, <1>8 DEF Outside, Ahead
<1>10. Right(T, e, heap') /\ stack' = <<>>
  BY <1>1, <1>2, <1>6
<1> QED BY <1>1, <1>5, <1>6, <1>9, <1>10, NoneRuns

LEMMA FinishSpans ==
  ASSUME GInv, GInv', SpanInv, Finish
  PROVE  SpanInv'
<1>1. /\ mode = "expect" /\ at > 9 /\ mode' = "done"
      /\ UNCHANGED <<input, buffer, heap, stack, value, expression>>
  BY OutlineTokens DEF Finish, treeVars
<1>2. ~Failed /\ stack = <<>> /\ value = {} /\ at \in 1..10
  BY <1>1, Resting
<1>3. PICK T : T = Tables
  OBVIOUS
<1>4. PICK e : e = Eaten
  OBVIOUS
<1>5. Eaten' = e /\ Tables' = T /\ input' = input
  BY <1>1, <1>3, <1>4, NoneEaten
<1>6. /\ Sound(T, e) /\ Right(T, e, heap) /\ Outside(T, e)
  BY <1>1, <1>2, <1>3, <1>4, SpanHeld
<1>7. expression = Span(T, 7, e)
  <2>1. Behind
    BY <1>1, <1>2 DEF Behind
  <2> QED BY <1>6, <2>1 DEF Outside
<1>8. Outside(T, e)'
  BY <1>1, <1>7 DEF Outside, Ahead
<1>9. Right(T, e, heap') /\ stack' = <<>> /\ value' = {}
  BY <1>1, <1>2, <1>6
<1> QED BY <1>1, <1>5, <1>6, <1>8, <1>9, NoneRuns

LEMMA ExpectSpans ==
  ASSUME GInv, GInv', SpanInv, Expect
  PROVE  SpanInv'
<1>0. PICK k : k = NextToken
  OBVIOUS
<1>1. /\ mode = "expect" /\ mode' = "expect" /\ at \in 1..9 /\ at # 7 /\ at' = at + 1
      /\ buffer # <<>> /\ Pop /\ NextType = Outline[at]
      /\ UNCHANGED <<heap, stack, value, expression>>
  <2>1. at \in 1..9
    BY OutlineTokens DEF Expect, GInv, PInv, Typed
  <2> QED BY <2>1 DEF Expect, Look, Peeking, treeVars
<1>2. ~Failed /\ stack = <<>> /\ value = {}
  BY <1>1, Resting
<1>3. PICK T : T = Tables
  OBVIOUS
<1>4. PICK e : e = Eaten
  OBVIOUS
<1>5. /\ k = e + 1 /\ e \in Nat /\ Len(input) \in Nat /\ k <= Len(input) /\ Eaten' = k
      /\ input' = input /\ Tables' = T /\ NextType = input[k]
  BY <1>1, <1>3, <1>4, <1>0, TokenEaten
<1>6. /\ Sound(T, e) /\ Right(T, e, heap) /\ Outside(T, e)
  BY <1>1, <1>2, <1>3, <1>4, SpanHeld
<1>7. /\ T.depth[k] \in Int
      /\ T.depth[k] = CASE input[k] = "TT_LPAREN" -> T.depth[e] + 1
                        [] input[k] = "TT_RPAREN" -> T.depth[e] - 1
                        [] OTHER -> T.depth[e]
      /\ T.infix \subseteq T.marks /\ \A i \in T.marks : i > 6
      /\ k \in T.marks => input[k] \in Operators \cup {"TT_NUM"}
  BY <1>3, <1>5, TokenRead
<1>8. CASE at < 7
  <2>1. DOMAIN heap = {} /\ e = at - 1 /\ T.depth[e] = IF at = 4 THEN 1 ELSE 0
    <3>1. Ahead
      BY <1>1, <1>2, <1>8 DEF Ahead
    <3> QED BY <1>6, <3>1 DEF Outside
  <2>2. k = at /\ k \notin T.marks /\ k \in 1..6
    BY <1>1, <1>5, <1>7, <1>8, <2>1
  <2>3. T.depth[k] = IF at' = 4 THEN 1 ELSE 0
    <3>1. input[k] = Outline[k] /\ k \in {1, 2, 3, 4, 5, 6}
      <4>1. NextType = Outline[k] /\ NextType = input[k]
        BY <1>1, <1>5, <2>2
      <4>2. k \in {1, 2, 3, 4, 5, 6}
        BY <2>2
      <4> QED BY <4>1, <4>2
    <3>2. (input[k] = "TT_LPAREN" <=> k = 3) /\ (input[k] = "TT_RPAREN" <=> k = 4)
      BY <2>2, <3>1, Outlined
    <3>3. T.depth[k] = CASE k = 3 -> T.depth[e] + 1
                         [] k = 4 -> T.depth[e] - 1
                         [] OTHER -> T.depth[e]
      BY <1>7, <3>2
    <3> QED BY <1>1, <2>1, <2>2, <3>1, <3>3
  <2>4. Outside(T, k)'
    <3>1. ~Behind'
      BY <1>1, <1>8 DEF Behind
    <3>2. DOMAIN heap' = {} /\ k = at' - 1
      BY <1>1, <2>1, <2>2
    <3>3. input'[k] = Outline[k]
      <4>1. NextType = Outline[k] /\ NextType = input[k] /\ input' = input
        BY <1>1, <1>5, <2>2
      <4> QED BY <4>1
    <3> QED BY <2>3, <3>1, <3>2, <3>3 DEF Outside
  <2>5. Sound(T, k) /\ Right(T, k, heap')
    <3>1. Sound(T, k)
      BY <1>5, <1>6, <1>7, <2>2, SoundOn
    <3>2. Right(T, k, heap)
      BY <1>5, <1>6, <1>7, <2>2, RightOn
    <3> QED BY <1>1, <3>1, <3>2
  <2> QED BY <1>1, <1>2, <1>5, <2>4, <2>5, NoneRuns
<1>9. CASE at > 7
  <2>1. expression = Span(T, 7, e)
    <3>1. Behind
      BY <1>1, <1>9 DEF Behind
    <3> QED BY <1>6, <3>1 DEF Outside
  <2>2. k \notin T.marks /\ k \notin T.infix
    <3>1. at \in 8..9
      BY <1>1, <1>9
    <3>2. input[k] \notin Operators \cup {"TT_NUM"}
      BY <1>1, <1>5, <3>1, Outlined
    <3> QED BY <1>7, <3>2
  <2>3. expression = Span(T, 7, k)
    <3>1. \A i \in 7..k : i \in 7..e \/ i = k
      BY <1>5
    <3>2. \A i \in 7..e : i \in 7..k
      BY <1>5
    <3> QED BY <2>1, <2>2, <3>1, <3>2 DEF Span
  <2>4. Outside(T, k)'
    <3>1. ~Ahead'
      BY <1>1, <1>9 DEF Ahead
    <3> QED BY <1>1, <2>3, <3>1 DEF Outside
  <2>5. Sound(T, k) /\ Right(T, k, heap')
    <3>1. Sound(T, k)
      BY <1>5, <1>6, <1>7, <2>2, SoundOn
    <3>2. Right(T, k, heap)
      BY <1>5, <1>6, <1>7, <2>2, RightOn
    <3> QED BY <1>1, <3>1, <3>2
  <2> QED BY <1>1, <1>2, <1>5, <2>4, <2>5, NoneRuns
<1> QED BY <1>1, <1>8, <1>9
----------------------------------------------------------------------------
(* A token lexed changes nothing for those before it. *)

Agree(T, U, e) ==
    \A j \in 0..e :
        /\ U.depth[j] = T.depth[j]
        /\ j \in U.marks <=> j \in T.marks
        /\ j \in U.numbers <=> j \in T.numbers
        /\ j \in U.infix <=> j \in T.infix
        /\ j \in T.infix => U.binding[j] = T.binding[j]

LEMMA StopsAgree ==
  ASSUME NEW T, NEW U, NEW e, Agree(T, U, e), NEW j \in 0..e, NEW d, NEW bound
  PROVE  Stops(U, j, d, bound) <=> Stops(T, j, d, bound)
<1>1. /\ U.depth[j] = T.depth[j]
      /\ j \in U.infix <=> j \in T.infix
      /\ j \in T.infix => U.binding[j] = T.binding[j]
  BY DEF Agree
<1> QED BY <1>1 DEF Stops

LEMMA OperandsAgree ==
  ASSUME NEW T, NEW U, NEW e, Agree(T, U, e), Sound(T, e), Sound(U, e), NEW x \in 0..e
  PROVE  /\ Reach(U, x) = Reach(T, x) /\ RightOf(U, x, e) = RightOf(T, x, e)
         /\ x \in T.infix => LeftOf(U, x) = LeftOf(T, x)
         /\ Ended(U, e, x) <=> Ended(T, e, x)
<1>1. /\ e \in Nat /\ U.depth[x] = T.depth[x] /\ (x \in U.infix <=> x \in T.infix)
      /\ x \in T.infix => U.binding[x] = T.binding[x]
      /\ \A i \in T.marks : i \in Nat
      /\ \A i \in U.marks : i \in Nat
      /\ \A i \in 0..e : i \in U.marks <=> i \in T.marks
  BY DEF Sound, Agree
<1>2. Reach(U, x) = Reach(T, x)
  BY <1>1 DEF Reach
<1>3. \A j \in (x + 1)..e : Stops(U, j, U.depth[x], Reach(U, x)) <=> Stops(T, j, T.depth[x], Reach(T, x))
  <2>1. ASSUME NEW j \in (x + 1)..e
        PROVE  Stops(U, j, U.depth[x], Reach(U, x)) <=> Stops(T, j, T.depth[x], Reach(T, x))
    <3>1. j \in 0..e
      BY <1>1
    <3>2. Stops(U, j, T.depth[x], Reach(T, x)) <=> Stops(T, j, T.depth[x], Reach(T, x))
      BY <3>1, StopsAgree
    <3> QED BY <1>1, <1>2, <3>2
  <2> QED BY <2>1
<1>4. RightOf(U, x, e) = RightOf(T, x, e)
  <2>1. \A i \in (x + 1)..e : i \in 0..e /\ \A j \in (x + 1)..i : j \in (x + 1)..e
    BY <1>1
  <2>2. \A i \in (x + 1)..e :
            (i \in U.marks /\ \A j \in (x + 1)..i : ~Stops(U, j, U.depth[x], Reach(U, x)))
            <=> (i \in T.marks /\ \A j \in (x + 1)..i : ~Stops(T, j, T.depth[x], Reach(T, x)))
    BY <1>1, <1>3, <2>1
  <2> QED BY <2>2 DEF RightOf
<1>5. ASSUME x \in T.infix PROVE LeftOf(U, x) = LeftOf(T, x)
  <2>1. PICK bound : bound = T.binding[x] + 1
    OBVIOUS
  <2>2. U.binding[x] + 1 = bound
    BY <1>1, <1>5, <2>1
  <2>3. ASSUME NEW i \in Nat, i < x
        PROVE  /\ i \in U.marks <=> i \in T.marks
               /\ \A j \in i..(x - 1) : Stops(U, j, U.depth[x], bound) <=> Stops(T, j, T.depth[x], bound)
    <3>1. i \in 0..e /\ \A j \in i..(x - 1) : j \in 0..e
      BY <1>1, <2>3
    <3>2. \A j \in i..(x - 1) : Stops(U, j, T.depth[x], bound) <=> Stops(T, j, T.depth[x], bound)
      BY <3>1, StopsAgree
    <3> QED BY <1>1, <3>1, <3>2
  <2>4. LeftOf(T, x) = {i \in T.marks : i < x /\ \A j \in i..(x - 1) : ~Stops(T, j, T.depth[x], bound)}
    BY <2>1 DEF LeftOf
  <2>5. LeftOf(U, x) = {i \in U.marks : i < x /\ \A j \in i..(x - 1) : ~Stops(U, j, U.depth[x], bound)}
    BY <2>2 DEF LeftOf
  <2>6. \A i : i \in LeftOf(U, x) <=> i \in LeftOf(T, x)
    BY <1>1, <2>3, <2>4, <2>5
  <2>7. LeftOf(U, x) \subseteq Nat /\ LeftOf(T, x) \subseteq Nat
    BY <1>1, <2>4, <2>5
  <2> QED BY <2>6, <2>7
<1>6. Ended(U, e, x) <=> Ended(T, e, x)
  BY <1>3 DEF Ended
<1> QED BY <1>2, <1>4, <1>5, <1>6

LEMMA TreesAgree ==
  ASSUME NEW T, NEW U, NEW e, Agree(T, U, e), Sound(T, e), Sound(U, e), NEW nodes, Right(T, e, nodes)
  PROVE  /\ Right(U, e, nodes)
         /\ \A limit : Settled(T, e, nodes, limit) => Settled(U, e, nodes, limit)
<1>1. ASSUME NEW x \in DOMAIN nodes
      PROVE  /\ x \in 0..e /\ e \in 0..e
             /\ x \in U.marks /\ (x \in U.numbers <=> x \in T.numbers) /\ (x \in U.infix <=> x \in T.infix)
             /\ Reach(U, x) = Reach(T, x) /\ RightOf(U, x, e) = RightOf(T, x, e)
             /\ x \in T.infix => LeftOf(U, x) = LeftOf(T, x)
             /\ Ended(U, e, x) <=> Ended(T, e, x)
             /\ U.depth[x] = T.depth[x] /\ U.depth[e] = T.depth[e]
  <2>1. x \in T.marks /\ x \in Nat /\ x <= e /\ e \in Nat
    BY DEF Right, Sound
  <2>2. x \in 0..e /\ e \in 0..e
    BY <2>1
  <2> QED BY <2>1, <2>2, OperandsAgree DEF Agree
<1>2. Right(U, e, nodes)
  <2> SUFFICES ASSUME NEW x \in DOMAIN nodes
               PROVE  /\ x \in U.marks /\ x <= e
                      /\ x \in U.numbers => nodes[x] = [left |-> {}, right |-> {}]
                      /\ x \notin U.numbers =>
                            nodes[x] = [left |-> IF x \in U.infix THEN LeftOf(U, x) ELSE {},
                                        right |-> RightOf(U, x, e)]
    BY DEF Right
  <2>1. /\ x <= e
        /\ x \in T.numbers => nodes[x] = [left |-> {}, right |-> {}]
        /\ x \notin T.numbers =>
               nodes[x] = [left |-> IF x \in T.infix THEN LeftOf(T, x) ELSE {},
                           right |-> RightOf(T, x, e)]
    BY DEF Right
  <2> QED BY <1>1, <2>1
<1>3. ASSUME NEW limit, Settled(T, e, nodes, limit) PROVE Settled(U, e, nodes, limit)
  BY <1>1, <1>3 DEF Settled
<1> QED BY <1>2, <1>3

LEMMA SpansAgree ==
  ASSUME NEW T, NEW U, NEW e, Agree(T, U, e), e \in Nat, NEW a \in Nat, NEW b, b <= e, b \in Int
  PROVE  Span(U, a, b) = Span(T, a, b)
<1>1. \A i \in a..b : i \in 0..e
  OBVIOUS
<1>2. \A i \in a..b : i \in U.marks <=> i \in T.marks
  BY <1>1 DEF Agree
<1> QED BY <1>2 DEF Span

LEMMA CallAgrees ==
  ASSUME NEW T, NEW U, NEW e, Agree(T, U, e), Sound(T, e), Sound(U, e),
         NEW f \in Calls, NEW b, NEW d, Fits(T, e, f, b, d)
  PROVE  Fits(U, e, f, b, d)
<1>1. /\ e \in Nat /\ b \in Nat /\ b \in 7..(e + 1) /\ d \in Nat /\ f.op \in Nat
      /\ \A i \in U.marks : i \in Nat
  BY WeightIn DEF Fits, Sound
<1>2. \A j \in b..e : j \in 0..e
  BY <1>1
<1>3. ASSUME NEW j \in b..e
      PROVE  U.depth[j] >= d /\ (U.depth[j] = d /\ j \in U.infix => U.binding[j] <= Weight(f))
  <2>1. T.depth[j] >= d /\ (T.depth[j] = d /\ j \in T.infix => T.binding[j] <= Weight(f))
    BY DEF Fits
  <2> QED BY <1>2, <2>1 DEF Agree
<1>4. ASSUME f.fn = "level", NEW i \in U.marks, i < b
      PROVE  \E m \in i..(b - 1) : Stops(U, m, d, Weight(f) + 1)
  <2>1. i \in 0..e /\ \A m \in i..(b - 1) : m \in 0..e
    BY <1>1, <1>4
  <2>2. i \in T.marks
    BY <2>1 DEF Agree
  <2>3. PICK m \in i..(b - 1) : Stops(T, m, d, Weight(f) + 1)
    BY <1>4, <2>2 DEF Fits
  <2>4. m \in 0..e
    BY <2>1
  <2>5. Stops(U, m, d, Weight(f) + 1)
    BY <2>3, <2>4, StopsAgree
  <2> QED BY <2>5
<1>5. f.fn = "paren" => b <= e /\ b \notin U.marks
  <2>1. ASSUME f.fn = "paren" PROVE b <= e /\ b \notin T.marks /\ b \in 0..e
    BY <1>1, <2>1 DEF Fits
  <2> QED BY <2>1 DEF Agree
<1>6. ASSUME f.op # 0
      PROVE  /\ f.op \in b..e /\ f.op \in U.marks /\ f.op \notin U.numbers /\ U.depth[f.op] = d
             /\ f.fn = "level" => /\ f.op \in U.infix /\ U.binding[f.op] = Weight(f)
                                  /\ f.left = Span(U, b, f.op - 1) /\ f.left = LeftOf(U, f.op)
             /\ f.fn # "level" => f.op = b /\ f.op \notin U.infix
             /\ \A j \in (f.op + 1)..e : ~Stops(U, j, d, Reach(U, f.op))
  <2> DEFINE x == f.op
  <2>1. /\ x \in b..e /\ x \in T.marks /\ x \notin T.numbers /\ T.depth[x] = d
        /\ f.fn = "level" => /\ x \in T.infix /\ T.binding[x] = Weight(f)
                             /\ f.left = Span(T, b, x - 1) /\ f.left = LeftOf(T, x)
        /\ f.fn # "level" => x = b /\ x \notin T.infix
        /\ \A j \in (x + 1)..e : ~Stops(T, j, d, Reach(T, x))
    BY <1>6 DEF Fits
  <2> HIDE DEF x
  <2>2. x \in 0..e /\ x - 1 <= e /\ x - 1 \in Int /\ \A j \in (x + 1)..e : j \in 0..e
    BY <1>1, <1>2, <2>1
  <2>3. /\ x \in U.marks /\ x \notin U.numbers /\ U.depth[x] = d
        /\ x \in U.infix <=> x \in T.infix
        /\ x \in T.infix => U.binding[x] = T.binding[x]
    BY <2>1, <2>2 DEF Agree
  <2>4. /\ Reach(U, x) = Reach(T, x)
        /\ x \in T.infix => LeftOf(U, x) = LeftOf(T, x)
    BY <2>2, OperandsAgree
  <2>5. Span(U, b, x - 1) = Span(T, b, x - 1)
    <3>1. PICK c : c = x - 1
      OBVIOUS
    <3>2. Span(U, b, c) = Span(T, b, c)
      BY <1>1, <2>2, <3>1, SpansAgree
    <3> QED BY <3>1, <3>2
  <2>6. \A j \in (x + 1)..e : ~Stops(U, j, d, Reach(U, x))
    <3>1. \A j \in (x + 1)..e : ~Stops(U, j, d, Reach(T, x))
      BY <2>1, <2>2, StopsAgree
    <3> QED BY <2>4, <3>1
  <2>7. f.fn = "level" => f.left = Span(U, b, x - 1) /\ f.left = LeftOf(U, x)
    BY <2>1, <2>4, <2>5
  <2>8. f.fn = "level" => x \in U.infix /\ U.binding[x] = Weight(f)
    BY <2>1, <2>3
  <2> QED BY <2>1, <2>3, <2>6, <2>7, <2>8 DEF x
<1> QED BY <1>1, <1>3, <1>4, <1>5, <1>6 DEF Fits

LEMMA CallsAgree ==
  ASSUME NEW T, NEW U, NEW e, Agree(T, U, e), Sound(T, e), Sound(U, e),
         NEW S \in Seq(Calls), NEW B, NEW D, AllFit(T, e, S, B, D)
  PROVE  AllFit(U, e, S, B, D)
<1>1. ASSUME NEW i \in 1..Len(S) PROVE Fits(U, e, S[i], B[i], D[i])
  <2>1. S[i] \in Calls /\ Fits(T, e, S[i], B[i], D[i])
    BY ElementOfSeq DEF AllFit
  <2> QED BY <2>1, CallAgrees
<1> QED BY <1>1 DEF AllFit

LEMMA TablesAgree ==
  ASSUME NEW e \in Nat, e = Len(input), Len(input') = e + 1,
         \A i \in 1..e : input'[i] = input[i],
         NEW T, T = Tables, NEW U, U = Tables'
  PROVE  /\ Agree(T, U, e)
         /\ U.infix \subseteq U.marks /\ U.marks \subseteq Nat /\ U.numbers \cap U.infix = {}
<1>1. \A i : i \in Places => i \in Places' /\ i \in Nat
  BY DEF Places
<1>2. \A i \in 0..e : i \in Places' => i \in Places /\ i \in 1..e
  BY DEF Places
<1>3. \A i \in 0..e : i \in 0..Len(input) /\ i \in 0..Len(input')
  OBVIOUS
<1>4. ASSUME NEW j \in 0..e PROVE Depth(j)' = Depth(j)
  <2>1. \A i \in 1..j : input'[i] = input[i]
    OBVIOUS
  <2>2. \A t : {i \in 1..j : input'[i] = t} = {i \in 1..j : input[i] = t}
    BY <2>1
  <2> QED BY <2>2 DEF Depth
<1>5. ASSUME NEW j \in 1..e
      PROVE  /\ IsNode(j)' <=> IsNode(j)
             /\ IsBinary(j)' <=> IsBinary(j)
             /\ Binding(input[j])' = Binding(input[j]) /\ input'[j] = input[j]
  <2>1. input'[j] = input[j]
    OBVIOUS
  <2>2. IsNode(j)' <=> IsNode(j)
    BY <2>1 DEF IsNode
  <2>3. j > 6 => input'[j - 1] = input[j - 1]
    <3>1. j > 6 => j - 1 \in 1..e
      OBVIOUS
    <3> QED BY <3>1
  <2>4. IsBinary(j)' <=> IsBinary(j)
    BY <2>1, <2>2, <2>3 DEF IsBinary, IsNode
  <2>5. Binding(input[j])' = Binding(input[j])
    BY <2>1 DEF Binding
  <2> QED BY <2>1, <2>2, <2>4, <2>5
<1>6. \A j \in 0..e : U.depth[j] = T.depth[j]
  <2>1. \A j \in 0..e : T.depth[j] = Depth(j) /\ U.depth[j] = Depth(j)'
    BY <1>3 DEF Tables
  <2> QED BY <1>4, <2>1
<1>7. ASSUME NEW j \in 0..e
      PROVE  /\ j \in U.marks <=> j \in T.marks
             /\ j \in U.numbers <=> j \in T.numbers
             /\ j \in U.infix <=> j \in T.infix
             /\ j \in T.infix => U.binding[j] = T.binding[j]
  <2>1. /\ j \in U.marks <=> j \in Places' /\ IsNode(j)'
        /\ j \in U.numbers <=> j \in Places' /\ input'[j] = "TT_NUM"
        /\ j \in U.infix <=> j \in Places' /\ IsBinary(j)'
        /\ j \in Places' => U.binding[j] = Binding(input[j])'
    BY DEF Tables
  <2>2. /\ j \in T.marks <=> j \in Places /\ IsNode(j)
        /\ j \in T.numbers <=> j \in Places /\ input[j] = "TT_NUM"
        /\ j \in T.infix <=> j \in Places /\ IsBinary(j)
        /\ j \in Places => T.binding[j] = Binding(input[j])
    BY DEF Tables
  <2>3. CASE j \in Places
    <3>1. j \in Places' /\ j \in 1..e
      BY <1>1, <1>2, <2>3
    <3>2. /\ IsNode(j)' <=> IsNode(j)
          /\ IsBinary(j)' <=> IsBinary(j)
          /\ Binding(input[j])' = Binding(input[j]) /\ input'[j] = input[j]
      BY <1>5, <3>1
    <3> QED BY <2>1, <2>2, <2>3, <3>1, <3>2
  <2>4. CASE j \notin Places
    <3>1. j \notin Places'
      BY <1>2, <2>4
    <3> QED BY <2>1, <2>2, <2>4, <3>1
  <2> QED BY <2>3, <2>4
<1>8. U.infix \subseteq U.marks /\ U.marks \subseteq Nat /\ U.numbers \cap U.infix = {}
  BY DEF Tables, Places, IsBinary
<1> QED BY <1>6, <1>7, <1>8 DEF Agree

LEMMA LexSpans ==
  ASSUME GInv, GInv', SpanInv, Lex
  PROVE  SpanInv'
<1>1. /\ buffer = <<>> /\ buffer' = <<Len(input')>> /\ Peeking
      /\ UNCHANGED <<heap, stack, value, mode, at, expression, result>>
      /\ \E t : input' = Append(input, t) /\ t \in Tokens
  <2>1. "TT_EOF" \in Tokens
    BY TokensAssumption
  <2> QED BY <2>1 DEF Lex, treeVars, callVars
<1>2. Len(input) \in Nat \ {0} /\ Len(input') = Len(input) + 1 /\ \A i \in 1..Len(input) : input'[i] = input[i]
  <2>1. PICK t \in Tokens : input' = Append(input, t)
    BY <1>1
  <2>2. input \in Seq(Tokens) /\ input # <<>>
    BY DEF GInv, PInv, Typed
  <2> QED BY <2>1, <2>2, AppendProperties, LenProperties, EmptySeq
<1>3. PICK T : T = Tables
  OBVIOUS
<1>4. PICK U : U = Tables'
  OBVIOUS
<1>5. PICK e : e = Eaten
  OBVIOUS
<1>6. e = Len(input) /\ Eaten' = e /\ e \in Nat \ {0}
  <2>1. Len(buffer) = 0 /\ Len(buffer') = 1
    BY <1>1
  <2> QED BY <1>2, <1>5, <2>1 DEF Eaten
<1>7. input'[e] = input[e] /\ (at > 1 /\ e = at - 1 => input'[e] = input[e])
  BY <1>2, <1>6
<1>8. ~Failed /\ stack \in Seq(Calls)
  <2>1. mode \notin {"error", "done", "freed"}
    BY <1>1 DEF Peeking
  <2>2. result = "none" /\ stack \in Seq(Calls)
    BY <2>1 DEF GInv, PInv, Typed, Located, Over
  <2> QED BY <2>1, <2>2 DEF Failed
<1>9. /\ Sound(T, e) /\ Right(T, e, heap) /\ Outside(T, e)
      /\ \E B, D : AllFit(T, e, stack, B, D) /\ InHand(T, e, B, D)
  <2>1. mode # "freed"
    BY <1>1 DEF Peeking
  <2> QED BY <1>3, <1>5, <1>8, <2>1, SpanHeld
<1>10. PICK B, D : AllFit(T, e, stack, B, D) /\ InHand(T, e, B, D)
  BY <1>9
<1>11. /\ Agree(T, U, e)
       /\ U.infix \subseteq U.marks /\ U.marks \subseteq Nat /\ U.numbers \cap U.infix = {}
  BY <1>2, <1>3, <1>4, <1>6, TablesAgree
<1>12. \A j \in 0..e : U.depth[j] = T.depth[j] /\ U.depth[j] \in Int
  BY <1>9, <1>11 DEF Agree, Sound
<1>13. Sound(U, e)
  <2>1. ASSUME NEW j \in U.infix, j <= e PROVE U.binding[j] \in 1..Deepest
    <3>1. j \in 0..e
      BY <1>6, <1>11, <2>1
    <3>2. j \in T.infix /\ U.binding[j] = T.binding[j]
      BY <1>11, <3>1 DEF Agree
    <3> QED BY <1>9, <2>1, <3>2 DEF Sound
  <2> QED BY <1>6, <1>11, <1>12, <2>1 DEF Sound
<1>14. /\ Right(U, e, heap)
       /\ \A limit : Settled(T, e, heap, limit) => Settled(U, e, heap, limit)
  BY <1>9, <1>11, <1>13, TreesAgree
<1>15. AllFit(U, e, stack, B, D)
  BY <1>8, <1>9, <1>10, <1>11, <1>13, CallsAgree
<1>16. U.depth[e] = T.depth[e]
  BY <1>6, <1>12
<1>17. Outside(U, e)'
  <2>1. Span(U, 7, e) = Span(T, 7, e)
    BY <1>6, <1>11, SpansAgree
  <2>2. /\ Ahead' <=> Ahead
        /\ Behind' <=> Behind
    BY <1>1 DEF Ahead, Behind
  <2>3. Ahead /\ at > 1 => input'[e] = Outline[e]
    BY <1>7, <1>9 DEF Outside
  <2>4. Ahead => DOMAIN heap' = {} /\ e = at' - 1 /\ U.depth[e] = IF at' = 4 THEN 1 ELSE 0
    BY <1>1, <1>9, <1>16 DEF Outside
  <2>5. Behind => expression' = Span(U, 7, e)
    BY <1>1, <1>9, <2>1 DEF Outside
  <2> QED BY <1>1, <2>2, <2>3, <2>4, <2>5 DEF Outside
<1>18. InHand(U, e, B, D)'
  <2>1. Begins(stack, B) \in Nat
    BY <1>8, <1>9, <1>10, AllSeen
  <2>2. Span(U, Begins(stack, B), e) = Span(T, Begins(stack, B), e)
    BY <1>6, <1>11, <2>1, SpansAgree
  <2>3. mode = "loop" => Span(U, B[Len(stack)], e) = Span(T, B[Len(stack)], e)
    <3>1. mode = "loop" => stack # <<>>
      BY DEF GInv, PInv, Located
    <3>2. mode = "loop" => B[Len(stack)] \in Nat
      BY <1>8, <1>9, <1>10, <3>1, AllSeen
    <3> QED BY <1>6, <1>11, <3>2, SpansAgree
  <2>4. Operand' <=> Operand
    BY <1>1 DEF Operand
  <2>5. mode = "unary" \/ mode = "loop" \/ Operand => U.depth[e] = Deep(stack', D)
    BY <1>1, <1>10, <1>16 DEF InHand
  <2>6. mode = "unary" => /\ e + 1 = Begins(stack', B) /\ input'[e] \notin {"TT_NUM", "TT_RPAREN"}
                          /\ Settled(U, e, heap', 0)
    BY <1>1, <1>7, <1>10, <1>14 DEF InHand
  <2>7. mode = "loop" \/ Operand => /\ input'[e] \in {"TT_NUM", "TT_RPAREN"}
                                    /\ Settled(U, e, heap', Limit(stack'))
    BY <1>1, <1>7, <1>10, <1>14 DEF InHand
  <2>8. Operand => value' = Span(U, Begins(stack', B), e)
    BY <1>1, <1>10, <2>2 DEF InHand
  <2>9. mode = "loop" => Top'.left = Span(U, B[Len(stack')], e)
    BY <1>1, <1>10, <2>3 DEF InHand, Top
  <2> QED BY <1>1, <2>4, <2>5, <2>6, <2>7, <2>8, <2>9 DEF InHand
<1>19. /\ Sound(Tables, Eaten)' /\ Right(Tables, Eaten, heap)' /\ Outside(Tables, Eaten)'
       /\ AllFit(Tables, Eaten, stack, B, D)' /\ InHand(Tables, Eaten, B, D)'
  BY <1>1, <1>4, <1>6, <1>13, <1>14, <1>15, <1>17, <1>18
<1> QED BY <1>19, Zenon DEF SpanInv
----------------------------------------------------------------------------
LEMMA SpanInit == Init => SpanInv
<1> SUFFICES ASSUME Init PROVE SpanInv
  OBVIOUS
<1>1. /\ DOMAIN heap = {} /\ stack = <<>> /\ mode = "expect" /\ value = {} /\ at = 1 /\ result = "none"
      /\ Eaten = 0 /\ Len(input) = 1
  <2>1. Len(input) = 1 /\ Len(buffer) = 1
    BY DEF Init
  <2> QED BY <2>1 DEF Init, Eaten
<1>2. PICK T : T = Tables
  OBVIOUS
<1>3. T.depth[0] = 0
  <2>1. 0 \in 0..Len(input)
    BY <1>1
  <2> QED BY <1>2, <2>1, DepthSteps DEF Tables
<1>4. /\ T.infix \subseteq T.marks /\ T.marks \subseteq Nat /\ T.numbers \cap T.infix = {}
      /\ \A j \in T.marks : j > 6
  BY <1>2 DEF Tables, Places, IsBinary, IsNode
<1>5. Sound(T, 0)
  <2>1. \A j \in 0..0 : j = 0
    OBVIOUS
  <2>2. \A j \in T.infix : ~(j <= 0)
    BY <1>4
  <2> QED BY <1>3, <1>4, <2>1, <2>2 DEF Sound
<1>6. Right(T, 0, heap)
  BY <1>1 DEF Right
<1>7. Outside(T, 0)
  BY <1>1, <1>3 DEF Outside, Behind
<1>8. AllFit(T, 0, stack, <<>>, <<>>)
  <2>1. 1..Len(stack) = {}
    BY <1>1
  <2> QED BY <1>1, <2>1 DEF AllFit
<1>9. InHand(T, 0, <<>>, <<>>)
  BY <1>1 DEF InHand, Operand
<1> QED BY <1>1, <1>2, <1>5, <1>6, <1>7, <1>8, <1>9 DEF SpanInv

LEMMA FailureSpans ==
  ASSUME mode' = "error" \/ result' = "err" \/ mode' = "freed"
  PROVE  SpanInv'
BY DEF SpanInv, Failed

LEMMA SpanStays ==
  ASSUME SpanInv, UNCHANGED vars
  PROVE  SpanInv'
<1>1. UNCHANGED <<input, buffer, heap, stack, mode, value, at, expression, result>>
  BY DEF vars, treeVars, callVars
<1>2. Eaten' = Eaten /\ Tables' = Tables /\ input' = input
  BY <1>1, NoneEaten
<1>3. Failed' <=> Failed
  BY <1>1 DEF Failed
<1> SUFFICES ASSUME ~Failed', mode' # "freed"
             PROVE  SpanInv'
  BY DEF SpanInv
<1>4. PICK T : T = Tables
  OBVIOUS
<1>5. PICK e : e = Eaten
  OBVIOUS
<1>6. /\ Sound(T, e) /\ Right(T, e, heap) /\ Outside(T, e)
      /\ \E B, D : AllFit(T, e, stack, B, D) /\ InHand(T, e, B, D)
  BY <1>1, <1>3, <1>4, <1>5, SpanHeld
<1>7. PICK B, D : AllFit(T, e, stack, B, D) /\ InHand(T, e, B, D)
  BY <1>6
<1>8. Outside(T, e)'
  BY <1>1, <1>6 DEF Outside, Ahead, Behind
<1>9. InHand(T, e, B, D)'
  BY <1>1, <1>7 DEF InHand, Operand, Top
<1>10. /\ Sound(Tables, Eaten)' /\ Right(Tables, Eaten, heap)' /\ Outside(Tables, Eaten)'
       /\ AllFit(Tables, Eaten, stack, B, D)' /\ InHand(Tables, Eaten, B, D)'
  BY <1>1, <1>2, <1>4, <1>5, <1>6, <1>7, <1>8, <1>9
<1> QED BY <1>10, Zenon DEF SpanInv

LEMMA SpanNext == GInv /\ GInv' /\ SpanInv /\ [Next]_vars => SpanInv'
<1> SUFFICES ASSUME GInv, GInv', SpanInv, [Next]_vars PROVE SpanInv'
  OBVIOUS
<1>1. CASE UNCHANGED vars
  BY <1>1, SpanStays
<1>2. CASE Lex
  BY <1>2, LexSpans
<1>3. CASE Function
  <2>1. ExpectFails \/ ExpressionFailed => result' = "err"
    BY DEF ExpectFails, ExpressionFailed
  <2> QED BY <1>3, <2>1, ExpectSpans, CallExpressionSpans, ExpressionReturnedSpans, FinishSpans,
          FailureSpans DEF Function
<1>4. CASE Primary
  <2>1. Unexpected \/ CloseParenFails => mode' = "error"
    BY DEF Unexpected, CloseParenFails
  <2> QED BY <1>4, <2>1, UnaryOperatorSpans, OpenParenSpans, NumberSpans, NegateSpans,
          CloseParenSpans, FailureSpans DEF Primary
<1>5. CASE Binary
  <2>1. Unwind => mode' = "error"
    BY DEF Unwind
  <2> QED BY <1>5, <2>1, FirstOperandSpans, MatchOperatorSpans, RightOperandSpans, LeaveLevelSpans,
          FailureSpans DEF Binary
<1>6. CASE ParserFree \/ ProgramFree
  <2>1. mode' = "freed"
    BY <1>6 DEF ParserFree, ProgramFree
  <2> QED BY <2>1, FailureSpans
<1>7. Terminating => UNCHANGED vars
  BY DEF Terminating
<1> QED BY <1>1, <1>2, <1>3, <1>4, <1>5, <1>6, <1>7 DEF Next

LEMMA SpanInvariant == Spec => []SpanInv
BY SpanInit, SpanNext, GrammarInvariant, PTL DEF Spec

(* The tree of an accepted program is the one C's precedences and left     *)
(* associativity give, whatever the length of the source and however deep  *)
(* its parentheses: the ten functions of the binary operators, the unary   *)
(* ones and the parentheses divide the tokens among the operators as       *)
(* counting parentheses and comparing bindings does.                       *)
THEOREM ParserPrecedence == Spec => []PrecedenceRespected
<1>1. ASSUME GInv, SpanInv, mode = "done", result = "ok"
      PROVE  /\ expression = {i \in Places : IsNode(i)}
             /\ \A x \in expression :
                   CASE input[x] = "TT_NUM" -> heap[x] = [left |-> {}, right |-> {}]
                     [] IsBinary(x) -> heap[x] = [left |-> LeftSpan(x),
                                                  right |-> RightSpan(x, Binding(input[x]))]
                     [] OTHER -> heap[x] = [left |-> {}, right |-> RightSpan(x, 1)]
  <2>1. PICK T : T = Tables
    OBVIOUS
  <2>2. PICK e : e = Eaten
    OBVIOUS
  <2>3. e = Len(input) /\ e \in Nat
    <3>1. buffer = <<>> /\ Len(input) \in Nat
      BY <1>1, LenProperties DEF GInv, PInv, Typed, Located, Over
    <3> QED BY <2>2, <3>1 DEF Eaten
  <2>4. /\ Right(T, e, heap) /\ Outside(T, e) /\ expression \subseteq DOMAIN heap
    BY <1>1, <2>1, <2>2, SpanHeld DEF Failed, GInv, PInv, NodesHeld, Holding
  <2>5. \A i \in Places : i \in Nat /\ i >= 1 /\ i <= e /\ i \in 0..Len(input)
    BY <2>3 DEF Places
  <2>6. /\ T.marks = {i \in Places : IsNode(i)}
        /\ \A i \in Places : /\ T.depth[i] = Depth(i)
                             /\ i \in T.marks <=> IsNode(i)
                             /\ i \in T.numbers <=> input[i] = "TT_NUM"
                             /\ i \in T.infix <=> IsBinary(i)
                             /\ T.binding[i] = Binding(input[i])
    BY <2>1, <2>5 DEF Tables
  <2>7. expression = {i \in Places : IsNode(i)}
    <3>1. expression = Span(T, 7, e)
      BY <1>1, <2>4 DEF Outside, Behind
    <3>2. \A i \in T.marks : i \in 7..e
      BY <2>5, <2>6 DEF IsNode
    <3>3. Span(T, 7, e) = T.marks
      BY <3>2 DEF Span
    <3> QED BY <2>6, <3>1, <3>3
  <2>8. ASSUME NEW x \in expression
        PROVE  CASE input[x] = "TT_NUM" -> heap[x] = [left |-> {}, right |-> {}]
                 [] IsBinary(x) -> heap[x] = [left |-> LeftSpan(x),
                                              right |-> RightSpan(x, Binding(input[x]))]
                 [] OTHER -> heap[x] = [left |-> {}, right |-> RightSpan(x, 1)]
    <3>1. x \in Places /\ x \in DOMAIN heap /\ x \in Nat /\ x >= 1 /\ x <= e
      BY <2>4, <2>5, <2>7
    <3>2. ASSUME NEW j \in Places, NEW bound
          PROVE  Stops(T, j, T.depth[x], bound) <=> Ends(j, x, bound)
      BY <2>6, <3>1 DEF Stops, Ends
    <3>3. RightOf(T, x, e) = RightSpan(x, Reach(T, x))
      <4>1. \A i \in (x + 1)..e : i \in Places /\ i > x /\ \A j \in (x + 1)..i : j \in Places
        BY <2>3, <3>1 DEF Places
      <4>2. \A i \in Places : i > x => i \in (x + 1)..e
        BY <2>5, <3>1
      <4>3. \A i \in (x + 1)..e :
                (i \in T.marks /\ \A j \in (x + 1)..i : ~Stops(T, j, T.depth[x], Reach(T, x)))
                <=> (IsNode(i) /\ \A j \in (x + 1)..i : ~Ends(j, x, Reach(T, x)))
        BY <2>6, <3>2, <4>1
      <4>4. \A i : i \in RightOf(T, x, e) <=> i \in RightSpan(x, Reach(T, x))
        BY <4>1, <4>2, <4>3 DEF RightOf, RightSpan
      <4> QED BY <4>4 DEF RightOf, RightSpan
    <3>4. ASSUME x \in T.infix PROVE LeftOf(T, x) = LeftSpan(x)
      <4>1. PICK bound : bound = T.binding[x] + 1
        OBVIOUS
      <4>2. Binding(input[x]) + 1 = bound
        BY <2>6, <3>1, <4>1
      <4>3. LeftOf(T, x) = {i \in T.marks : i < x /\ \A j \in i..(x - 1) : ~Stops(T, j, T.depth[x], bound)}
        BY <4>1 DEF LeftOf
      <4>4. LeftSpan(x) = {i \in Places : i < x /\ IsNode(i) /\ \A j \in i..(x - 1) : ~Ends(j, x, bound)}
        BY <4>2 DEF LeftSpan
      <4>5. \A i \in Places : \A j \in i..(x - 1) : j \in Places
        BY <2>3, <3>1 DEF Places
      <4>6. \A i \in Places :
                (\A j \in i..(x - 1) : ~Stops(T, j, T.depth[x], bound))
                <=> (\A j \in i..(x - 1) : ~Ends(j, x, bound))
        BY <3>2, <4>5
      <4> QED BY <2>6, <4>3, <4>4, <4>6
    <3>5. /\ x \in T.numbers => heap[x] = [left |-> {}, right |-> {}]
          /\ x \notin T.numbers =>
                 heap[x] = [left |-> IF x \in T.infix THEN LeftOf(T, x) ELSE {},
                            right |-> RightOf(T, x, e)]
      BY <2>4, <3>1 DEF Right
    <3>6. /\ x \in T.numbers <=> input[x] = "TT_NUM"
          /\ x \in T.infix <=> IsBinary(x)
          /\ Reach(T, x) = IF IsBinary(x) THEN Binding(input[x]) ELSE 1
      BY <2>6, <3>1 DEF Reach
    <3>7. IsBinary(x) => input[x] # "TT_NUM"
      BY DEF IsBinary
    <3>8. CASE input[x] = "TT_NUM"
      BY <3>5, <3>6, <3>7, <3>8
    <3>9. CASE IsBinary(x)
      BY <3>3, <3>4, <3>5, <3>6, <3>7, <3>9
    <3>10. CASE input[x] # "TT_NUM" /\ ~IsBinary(x)
      BY <3>3, <3>5, <3>6, <3>10
    <3> QED BY <3>8, <3>9, <3>10
  <2> QED BY <2>7, <2>8
<1>2. GInv /\ SpanInv => PrecedenceRespected
  BY <1>1 DEF PrecedenceRespected
<1> QED BY <1>2, GrammarInvariant, SpanInvariant, PTL
=============================================================================
