------------------------------ MODULE MCTrees ------------------------------
(* Small expression trees for the code generator: one or two operators of  *)
(* every kind, in both nestings, and three short-circuit operators.        *)
EXTENDS Integers, Sequences

CONSTANTS Unary, Plain, Logical,   (* the kinds of operators                *)
          Numbers, FewNumbers

Node(kind, left, right, number) ==
    <<[kind |-> kind, left |-> left, right |-> right, number |-> number]>>
Leaf(n)   == Node("CONSTANT", 0, 0, n)
Un(k, t)  == t \o Node(k, 0, Len(t), 0)
Moved(t, by) ==
    [i \in 1..Len(t) |->
        [t[i] EXCEPT !.left = IF @ = 0 THEN 0 ELSE @ + by,
                     !.right = IF @ = 0 THEN 0 ELSE @ + by]]
Bin(k, a, b) == a \o Moved(b, Len(a)) \o Node(k, Len(a), Len(a) + Len(b), 0)

Leaves(numbers) == {Leaf(n) : n \in numbers}
Over(kinds, lefts, rights) == {Bin(k, a, b) : k \in kinds, a \in lefts, b \in rights}
Negated(trees) == {Un(k, t) : k \in Unary, t \in trees}

All == Plain \cup Logical
One(numbers) == Over(All, Leaves(numbers), Leaves(numbers))
Small == One(FewNumbers) \cup Negated(Leaves(FewNumbers))

OneOperator  == Leaves(Numbers) \cup One(Numbers) \cup Negated(Leaves(Numbers) \cup One(Numbers))
                \cup Over(All, Negated(Leaves(Numbers)), Leaves(Numbers))
                \cup Over(All, Leaves(Numbers), Negated(Leaves(Numbers)))
TwoOperators == Over(All, Small, Leaves(FewNumbers)) \cup Over(All, Leaves(FewNumbers), Small)
ShortCircuits ==
    LET pairs == Over(Logical \cup {"DIVISION"}, Leaves({0, 1}), Leaves({0, 1})) IN
    Over(Logical, pairs, pairs)

MCPrograms == OneOperator \cup TwoOperators \cup ShortCircuits
=============================================================================
