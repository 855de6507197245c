----------------------------- MODULE MCCodegen -----------------------------
(* Values for module Output.  The code generator has trees with operators  *)
(* nested three deep: one plain kind stands for those that emit the same   *)
(* pushes and pops, and both logical kinds are nested in each other.  The  *)
(* printer has trees nested as deep on either side, of one unary and two   *)
(* binary kinds, and numbers that tell the operands apart.                 *)
EXTENDS Output

CONSTANTS Unary, Plain, Logical, Numbers, FewNumbers

T == INSTANCE MCTrees

Nested ==
    LET zero  == T!Leaves({0})
        one   == zero \cup T!Over(T!All, zero, zero) \cup T!Negated(zero)
        two   == one \cup T!Over(T!All, one, one) \cup T!Negated(one)
    IN  two \cup T!Over(T!All, two, one)

NestedUnary   == {"LOGICAL_NEGATION"}
NestedPlain   == {"MODULUS", "LESS"}
NestedLogical == LogicalKinds

NestedDumped ==
    LET leaves == T!Leaves(Numbers)
        one == leaves \cup T!Over({"LOGICAL_AND"}, leaves, leaves) \cup T!Negated(leaves)
        two == one \cup T!Over({"LESS"}, one, one) \cup T!Negated(one)
    IN  two \cup T!Over({"LOGICAL_AND"}, two, leaves) \cup T!Over({"LOGICAL_AND"}, leaves, two)
----------------------------------------------------------------------------
(* OutputInit, where the one of the two that is not asked for has a tree   *)
(* of one node.                                                            *)
MCInit ==
    /\ dumpAst \in BOOLEAN
    /\ IF dumpAst THEN ast = CHOOSE program \in Programs : Len(program) = 1
       ELSE tree = CHOOSE program \in Dumped : Len(program) = 1
    /\ OutputInit

MCSpec == MCInit /\ [][OutputNext]_outputVars
=============================================================================
