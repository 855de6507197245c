------------------------------ MODULE CProgram ------------------------------
(***************************************************************************)
(* What a compiled program promises, whatever the compiler does: a C       *)
(* program `int main() { return <ast>; }` ends once, with the status the   *)
(* C standard gives its expression when it gives one, in an implementation *)
(* with an int of IntBits and a long of LongBits, two's complement and an  *)
(* arithmetic right shift (what gcc, the reference of tests/execute.c,     *)
(* does).                                                                  *)
(***************************************************************************)
EXTENDS Integers, Sequences

CONSTANTS IntBits, LongBits, StatusBits

VARIABLES ast, outcome

None      == [how |-> "none", status |-> 0]
Failed    == [how |-> "not compiled", status |-> 0]
Trapped   == [how |-> "trapped", status |-> 0]
Exited(n) == [how |-> "exited", status |-> n]
----------------------------------------------------------------------------
(* Two's complement numbers. *)

Fits(x, bits) == x \in (-(2 ^ (bits - 1)))..(2 ^ (bits - 1) - 1)
Bit(x, i)     == (x \div 2 ^ i) % 2
Signed(x, bits) == ((x + 2 ^ (bits - 1)) % (2 ^ bits)) - 2 ^ (bits - 1)

(* The number whose i-th bit is f of the i-th bits of two others.          *)
BitByBit(f, x, y, bits) ==
    LET low[i \in 0..bits] ==
            IF i = 0 THEN 0 ELSE low[i - 1] + f[<<Bit(x, i - 1), Bit(y, i - 1)>>] * 2 ^ (i - 1)
    IN  Signed(low[bits], bits)
Pairs  == (0..1) \X (0..1)
AndBit == [p \in Pairs |-> p[1] * p[2]]
OrBit  == [p \in Pairs |-> IF p[1] + p[2] > 0 THEN 1 ELSE 0]
XorBit == [p \in Pairs |-> (p[1] + p[2]) % 2]

Magnitude(x) == IF x < 0 THEN -x ELSE x
Sign(x)      == IF x < 0 THEN -1 ELSE 1
(* Division truncates towards zero.                                        *)
Quotient(x, y)  == Sign(x) * Sign(y) * (Magnitude(x) \div Magnitude(y))
Remainder(x, y) == x - y * Quotient(x, y)
----------------------------------------------------------------------------
(* The value of an expression: its number, its width, and whether the      *)
(* standard defines it at all.                                             *)

Value(n, bits) == [defined |-> Fits(n, bits), n |-> n, bits |-> bits]
Undefined      == [defined |-> FALSE, n |-> 0, bits |-> IntBits]
Truth(b)       == Value(IF b THEN 1 ELSE 0, IntBits)

Binary(kind, x, y) ==
    LET a == x.n
        b == y.n
        bits == IF x.bits > y.bits THEN x.bits ELSE y.bits
    IN CASE kind = "ADDITION" -> Value(a + b, bits)
         [] kind = "SUBTRACTION" -> Value(a - b, bits)
         [] kind = "MULTIPLICATION" -> Value(a * b, bits)
         [] kind \in {"DIVISION", "MODULUS"} ->
                IF b = 0 \/ ~Fits(Quotient(a, b), bits) THEN Undefined
                ELSE Value(IF kind = "DIVISION" THEN Quotient(a, b) ELSE Remainder(a, b), bits)
         [] kind = "BITWISE_AND" -> Value(BitByBit(AndBit, a, b, bits), bits)
         [] kind = "BITWISE_OR" -> Value(BitByBit(OrBit, a, b, bits), bits)
         [] kind = "BITWISE_XOR" -> Value(BitByBit(XorBit, a, b, bits), bits)
         [] kind = "BITWISE_SHIFT_LEFT" ->
                IF a < 0 \/ b \notin 0..(x.bits - 1) THEN Undefined
                ELSE Value(a * 2 ^ b, x.bits)
         [] kind = "BITWISE_SHIFT_RIGHT" ->
                IF b \notin 0..(x.bits - 1) THEN Undefined
                ELSE Value(a \div 2 ^ b, x.bits)
         [] kind = "LESS" -> Truth(a < b)       [] kind = "LESS_EQUAL" -> Truth(a <= b)
         [] kind = "GREATER" -> Truth(a > b)    [] kind = "GREATER_EQUAL" -> Truth(a >= b)
         [] kind = "EQUALITY" -> Truth(a = b)   [] kind = "INEQUALITY" -> Truth(a # b)

(* The value of the node e, of the values of its operands.                 *)
Of(e, left, right) ==
    CASE e.kind = "CONSTANT" ->
             Value(e.number, IF Fits(e.number, IntBits) THEN IntBits ELSE LongBits)
      [] e.kind = "LOGICAL_AND" /\ left.defined /\ left.n = 0 -> Truth(FALSE)
      [] e.kind = "LOGICAL_OR" /\ left.defined /\ left.n # 0 -> Truth(TRUE)
      [] ~right.defined \/ (e.left # 0 /\ ~left.defined) -> Undefined
      [] e.kind = "ARITHMETIC_NEGATION" -> Value(-right.n, right.bits)
      [] e.kind = "BITWISE_NEGATION" -> Value(-right.n - 1, right.bits)
      [] e.kind = "LOGICAL_NEGATION" -> Truth(right.n = 0)
      [] e.kind \in {"LOGICAL_AND", "LOGICAL_OR"} -> Truth(right.n # 0)
      [] OTHER -> Binary(e.kind, left, right)
Meaning(tree) ==
    LET value[i \in 1..Len(tree)] == Of(tree[i], value[tree[i].left], value[tree[i].right])
    IN  value[Len(tree)]

(* The outcomes an expression may have; the status is the low bits of the  *)
(* int that main returns.                                                  *)
Allowed(tree, o) ==
    LET m == Meaning(tree) IN
    m.defined => o = Exited(m.n % (2 ^ StatusBits))
----------------------------------------------------------------------------
Statuses == 0..(2 ^ StatusBits - 1)

Init == outcome = None
End  ==
    /\ outcome = None
    /\ outcome' \in {Failed, Trapped} \cup {Exited(n) : n \in Statuses}
    /\ outcome' # Failed => Allowed(ast, outcome')
    /\ UNCHANGED ast

Next == End
Spec == Init /\ [][Next]_<<ast, outcome>> /\ <>(outcome # None)
=============================================================================
