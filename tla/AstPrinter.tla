----------------------------- MODULE AstPrinter -----------------------------
(***************************************************************************)
(* program_to_str of src/src/compiler/ast.c, which --dump-ast prints, with *)
(* the strings it makes.  `frames` is the C call stack of expr_to_str with *)
(* the local s of each call; what a call does between two recursive calls  *)
(* is one action.  A text is a sequence of words: a kind stands for its    *)
(* name with the blanks around it, a number for its digits.  A definition  *)
(* that stands right before another and is named for what it gets wrong is *)
(* a seeded defect.                                                        *)
(***************************************************************************)
EXTENDS Strings, FiniteSets

CONSTANT Programs   (* the expression trees considered: sequences of nodes, *)
                    (* children before their parent, as in module Codegen   *)

IsConstant(e) == e.left = 0 /\ e.right = 0
IsUnary(e)    == e.left = 0 /\ e.right # 0
IsBinary(e)   == e.left # 0
Operands(e)   == {e.left, e.right} \ {0}

(* The parser makes a node for one place: every node but the last is an    *)
(* operand of one other node, and of that one once.                        *)
ProgramsAssumption ==
    \A p \in Programs :
        /\ p # <<>>
        /\ p \in Seq([kind : STRING, left : Nat, right : Nat, number : Nat])
        /\ \A i \in 1..Len(p) :
               /\ p[i].left < i /\ p[i].right < i
               /\ IsBinary(p[i]) => p[i].right \notin {0, p[i].left}
        /\ \A i \in 1..(Len(p) - 1) : \E j \in 1..Len(p) :
               \A k \in 1..Len(p) : i \in Operands(p[k]) <=> k = j

VARIABLES
    ast,       (* the expression of the program's statement                 *)
    mem,       (* the texts allocated                                       *)
    frames,    (* the calls of expr_to_str that run, innermost last         *)
    result,    (* what the last call returned and nobody used yet           *)
    line,      (* func_to_str's local s                                     *)
    indentStr, (* AstEmitter.indentStr                                      *)
    phase,     (* "start", "expression", "function", "program", "print" or  *)
               (* "done"                                                    *)
    dump       (* what run() prints                                         *)

exprVars == <<mem, frames, result>>
restVars == <<ast, line, indentStr, phase, dump>>
vars     == <<exprVars, restVars>>
----------------------------------------------------------------------------
Word(name)  == <<[name |-> name, number |-> 0]>>
Value(e)    == <<[name |-> "number", number |-> e.number]>>
Name(e)     == Word(e.kind)
Literal(w)  == str_lit(Word(w))

Frame(node) == [node |-> node, step |-> 0, s |-> str_empty]
Top   == frames[Len(frames)]
Node  == ast[Top.node]
Under == SubSeq(frames, 1, Len(frames) - 1)

Running(step) == phase = "expression" /\ frames # <<>> /\ Top.step = step
Call(step, made, child) ==
    /\ mem' = made.mem
    /\ frames' = Append(Append(Under, [Top EXCEPT !.step = step, !.s = made.str]),
                        Frame(child))
    /\ result' = str_empty
Return(made) ==
    /\ mem' = made.mem
    /\ result' = made.str
    /\ frames' = Under

(* expr_to_str *)
ConstantToStr ==
    /\ Running(0) /\ IsConstant(Node)
    /\ Return(str_fmt(mem, Value(Node)))
    /\ UNCHANGED restVars

UnaryName ==
    /\ Running(0) /\ IsUnary(Node)
    /\ Call(2, str_fmt(mem, Name(Node)), Node.right)
    /\ UNCHANGED restVars

UnaryOperand ==
    /\ Running(2) /\ IsUnary(Node)
    /\ Return(str_cat(mem, Top.s, result))
    /\ UNCHANGED restVars

CallLeft ==
    /\ Running(0) /\ IsBinary(Node)
    /\ Call(1, [mem |-> mem, str |-> str_empty], Node.left)
    /\ UNCHANGED restVars

(* s = "(" and the left operand; then s is overwritten: nobody frees it.   *)
BinaryName ==
    /\ Running(1)
    /\ LET left == str_cat(mem, Literal("("), result) IN
       Call(2, str_fmt(left.mem, Name(Node)), Node.right)
    /\ UNCHANGED restVars

BinaryRightSwapped ==
    /\ Running(2) /\ IsBinary(Node)
    /\ Return(str_cat3(mem, result, Top.s, Literal(")")))
    /\ UNCHANGED restVars
BinaryRight ==
    /\ Running(2) /\ IsBinary(Node)
    /\ Return(str_cat3(mem, Top.s, result, Literal(")")))
    /\ UNCHANGED restVars
----------------------------------------------------------------------------
(* func_to_str, which program_to_str calls: the line of the function, the  *)
(* emitter indented, the line of the statement, the emitter as it was.     *)

emit_line(m, text) == str_cat3(m, str_ref(indentStr), text, Literal("\n"))

StartFunction ==
    /\ phase = "start"
    /\ LET name   == str_fmt(mem, Word("FUN INT") \o Word("main"))
           first  == emit_line(name.mem, name.str)
           s      == str_cat(first.mem, str_empty, first.str)
           indent == str_cat(s.mem, indentStr, Literal("    "))
       IN  mem' = indent.mem /\ line' = s.str /\ indentStr' = indent.str
    /\ frames' = <<Frame(Len(ast))>>
    /\ phase' = "expression"
    /\ UNCHANGED <<ast, result, dump>>

StmtToStr ==
    /\ phase = "expression" /\ frames = <<>>
    /\ LET s == str_cat3(mem, str_empty, Literal("RETURN INT"), result)
       IN  mem' = s.mem /\ result' = s.str
    /\ phase' = "function"
    /\ UNCHANGED <<ast, frames, line, indentStr, dump>>

(* emitter_dedent: a copy of all but the last four characters, the only    *)
(* ones there are, takes the place of the indentation.                     *)
Dedent(m) ==
    LET shorter == str_copy(m, str_empty)
    IN  [mem |-> str_free(shorter.mem, indentStr), str |-> shorter.str]

EndFunction ==
    /\ phase = "function"
    /\ LET second == emit_line(mem, result)
           s      == str_cat(second.mem, line, second.str)
           indent == Dedent(s.mem)
       IN  mem' = indent.mem /\ indentStr' = indent.str /\ result' = s.str
    /\ line' = str_empty
    /\ phase' = "program"
    /\ UNCHANGED <<ast, frames, dump>>

EndProgram ==
    /\ phase = "program"
    /\ LET s == str_cat(mem, str_empty, result)
       IN  mem' = str_free(s.mem, indentStr) /\ result' = s.str
    /\ indentStr' = str_empty
    /\ phase' = "print"
    /\ UNCHANGED <<ast, frames, line, dump>>

(* run() prints the text and frees it.                                     *)
PrintDump ==
    /\ phase = "print"
    /\ dump' = result.text
    /\ mem' = str_free(Reads(mem, result), result)
    /\ result' = str_empty
    /\ phase' = "done"
    /\ UNCHANGED <<ast, frames, line, indentStr>>
----------------------------------------------------------------------------
Init ==
    /\ ast \in Programs
    /\ mem = NewMemory
    /\ frames = <<>>
    /\ result = str_empty /\ line = str_empty /\ indentStr = str_empty
    /\ phase = "start" /\ dump = <<>>

ToStr == ConstantToStr \/ UnaryName \/ UnaryOperand \/ CallLeft \/ BinaryName \/ BinaryRight
Done  == phase = "done"
Next ==
    \/ StartFunction \/ ToStr \/ StmtToStr \/ EndFunction \/ EndProgram \/ PrintDump
    \/ Done /\ UNCHANGED vars

Spec == Init /\ [][Next]_vars
----------------------------------------------------------------------------
(* Properties. *)

Held   == {result, line, indentStr} \cup {frames[k].s : k \in 1..Len(frames)}
Owners == {s \in Held : s.owner}
Binary == {i \in 1..Len(ast) : IsBinary(ast[i])}

(* The variables have their types. *)
TypeOK ==
    /\ mem \in Memory
    /\ \A s \in Held :
           /\ s.ptr \in 0..(mem.next - 1) /\ s.owner \in BOOLEAN
           /\ s.owner => s.ptr # NULL /\ s.text # <<>>
    /\ \A k \in 1..Len(frames) :
           frames[k].node \in 1..Len(ast) /\ frames[k].step \in 0..2
    /\ phase \in {"start", "expression", "function", "program", "print", "done"}

(* Every string the printer still needs is allocated, whatever was freed   *)
(* with the strings it was joined to, and no string is used or freed after *)
(* it was freed.                                                           *)
StringsSafe == ~mem.misused /\ \A s \in Owners : s.ptr \in mem.live

(* The printer loses one string for each binary operator, no more and no   *)
(* less: the "(" and left operand that the operator's name overwrites.     *)
OneLostPerOperator ==
    phase \in {"print", "done"} =>
        Cardinality(mem.live \ {s.ptr : s \in Owners}) = Cardinality(Binary)

(* A node, with the text of its right operand.                             *)
Spelt(e, right) ==
    CASE IsConstant(e) -> Value(e)
      [] IsUnary(e) -> Name(e) \o right
      [] IsBinary(e) -> Name(e) \o right \o Word(")")
RightSpine[i \in 1..Len(ast)] == Spelt(ast[i], RightSpine[ast[i].right])

(* What is printed is the way down the right operands of the tree, in      *)
(* order, with a ")" for each binary operator on it.                       *)
DumpIsRightSpine ==
    Done => dump = Word("FUN INT") \o Word("main") \o Word("\n") \o Word("    ")
                   \o Word("RETURN INT") \o RightSpine[Len(ast)] \o Word("\n")

(* What the dump loses, it loses in one place: the string that the name of *)
(* a binary operator overwrites is leaked, with the left operand that is   *)
(* missing from the text; all other strings are used and freed in order.   *)
DumpSound == TypeOK /\ StringsSafe /\ OneLostPerOperator /\ DumpIsRightSpine
=============================================================================
