------------------------------ MODULE Codegen ------------------------------
(***************************************************************************)
(* codegen_program of src/src/compiler/codegen.c: the assembly it writes   *)
(* for an expression tree.  `frames` is the C call stack of codegen_expr   *)
(* with the locals of each call; what one call prints between two          *)
(* recursive calls is one action.  A definition that stands right before   *)
(* another and is named for what it gets wrong is a seeded defect.         *)
(***************************************************************************)
EXTENDS Integers, Sequences, FiniteSets

CONSTANT Programs   (* the expression trees considered                      *)

(* A tree is a sequence of nodes, children before their parent; a unary    *)
(* operator has its operand on the right.                                  *)
UnaryKinds   == {"ARITHMETIC_NEGATION", "BITWISE_NEGATION", "LOGICAL_NEGATION"}
LogicalKinds == {"LOGICAL_AND", "LOGICAL_OR"}
Arithmetic ==
    [k \in {"ADDITION", "SUBTRACTION", "MULTIPLICATION", "BITWISE_AND", "BITWISE_XOR",
            "BITWISE_OR"} |->
        CASE k = "ADDITION" -> "add" [] k = "SUBTRACTION" -> "sub"
          [] k = "MULTIPLICATION" -> "imul" [] k = "BITWISE_AND" -> "and"
          [] k = "BITWISE_XOR" -> "xor" [] k = "BITWISE_OR" -> "or"]
Shift ==
    [k \in {"BITWISE_SHIFT_LEFT", "BITWISE_SHIFT_RIGHT"} |->
        IF k = "BITWISE_SHIFT_LEFT" THEN "shl" ELSE "sar"]
Condition ==
    [k \in {"LESS", "LESS_EQUAL", "GREATER", "GREATER_EQUAL", "EQUALITY", "INEQUALITY"} |->
        CASE k = "LESS" -> "setl" [] k = "LESS_EQUAL" -> "setle"
          [] k = "GREATER" -> "setg" [] k = "GREATER_EQUAL" -> "setge"
          [] k = "EQUALITY" -> "sete" [] k = "INEQUALITY" -> "setne"]
PlainKinds ==
    DOMAIN Arithmetic \cup DOMAIN Shift \cup DOMAIN Condition \cup {"DIVISION", "MODULUS"}
BinaryKinds == PlainKinds \cup LogicalKinds

IsNode(e, size) ==
    \/ e \in [kind : {"CONSTANT"}, left : {0}, right : {0}, number : Nat]
    \/ e \in [kind : UnaryKinds, left : {0}, right : 1..size, number : {0}]
    \/ e \in [kind : BinaryKinds, left : 1..size, right : 1..size, number : {0}]
ASSUME ProgramsAssumption ==
    \A p \in Programs :
        /\ p # <<>>
        /\ p \in Seq([kind : STRING, left : Nat, right : Nat, number : Nat])
        /\ \A i \in 1..Len(p) : IsNode(p[i], i - 1)

VARIABLES
    ast,         (* the expression of the program's statement               *)
    code,        (* the instructions written so far                         *)
    labelCount,  (* Compiler.labelCount                                     *)
    frames,      (* the calls of codegen_expr that run, innermost last      *)
    phase

vars == <<ast, code, labelCount, frames, phase>>
----------------------------------------------------------------------------
(* Instructions: push_imm is a push of a number, cmp_0 and cmp_rdi compare *)
(* rax with 0 and rdi, movzx is "movzx rax, al", mov_1 "mov rax, 1" and    *)
(* mov_rdi "mov rdi, rax"; exit is the system call.                        *)

Reg(op, r) == [op |-> op, reg |-> r, n |-> 0]
Num(op, n) == [op |-> op, reg |-> "", n |-> n]
Op(op)     == Num(op, 0)

(* The label of the function; get_label's .L0, .L1, ... are 0, 1, ...      *)
Main == -1

(* resources/snippets/header.nasm: "mov rax, 60; syscall" exits with rdi.  *)
Header == <<Num("call", Main), Op("mov_rdi"), Op("exit")>>

Flag(test) == <<Op(test), Op("movzx")>>

UnaryCode(kind) ==
    <<Reg("pop", "rax")>>
    \o (CASE kind = "ARITHMETIC_NEGATION" -> <<Op("neg")>>
          [] kind = "BITWISE_NEGATION" -> <<Op("not")>>
          [] kind = "LOGICAL_NEGATION" -> <<Op("cmp_0")>> \o Flag("sete"))
    \o <<Reg("push", "rax")>>

PopBoth(right) == <<Reg("pop", right), Reg("pop", "rax")>>
PlainCode(kind) ==
    CASE kind \in DOMAIN Arithmetic ->
             PopBoth("rdi") \o <<Op(Arithmetic[kind]), Reg("push", "rax")>>
      [] kind \in DOMAIN Shift ->
             PopBoth("rcx") \o <<Op(Shift[kind]), Reg("push", "rax")>>
      [] kind \in DOMAIN Condition ->
             PopBoth("rdi") \o <<Op("cmp_rdi")>> \o Flag(Condition[kind])
             \o <<Reg("push", "rax")>>
      [] kind = "DIVISION" ->
             PopBoth("rdi") \o <<Op("cqo"), Op("idiv"), Reg("push", "rax")>>
      [] kind = "MODULUS" ->
             PopBoth("rdi") \o <<Op("cqo"), Op("idiv"), Reg("push", "rdx")>>

(* Between the operands of && and ||.  The left value is popped: 0 is left *)
(* in rax where && jumps to the end, and 1 is put there by ||.             *)
TestCode(kind, on, end) ==
    <<Reg("pop", "rax"), Op("cmp_0")>>
    \o (IF kind = "LOGICAL_AND" THEN <<Num("jne", on)>>
                                ELSE <<Num("je", on), Op("mov_1")>>)
    \o <<Num("jmp", end), Num("label", on)>>

LogicalCodePushesEarly(end) ==
    <<Reg("pop", "rax"), Op("cmp_0")>> \o Flag("setne")
    \o <<Reg("push", "rax"), Num("label", end)>>
LogicalCodeKeepsValue(end) ==
    <<Reg("pop", "rax"), Num("label", end), Reg("push", "rax")>>
LogicalCode(end) ==
    <<Reg("pop", "rax"), Op("cmp_0")>> \o Flag("setne")
    \o <<Num("label", end), Reg("push", "rax")>>
----------------------------------------------------------------------------
(* The calls of codegen_expr.  `step` 0: nothing done; 1: the left operand *)
(* has been called; 2: the right one has.  `end` is the label && and ||    *)
(* keep across the second call.                                            *)

Frame(node) == [node |-> node, step |-> 0, end |-> 0]
Top   == frames[Len(frames)]
Node  == ast[Top.node]
Under == SubSeq(frames, 1, Len(frames) - 1)

Running(kinds, step) ==
    phase = "body" /\ frames # <<>> /\ Node.kind \in kinds /\ Top.step = step

Write(instructions) == code' = code \o instructions
Call(step, end, child) ==
    frames' = Append([frames EXCEPT ![Len(frames)].step = step, ![Len(frames)].end = end],
                     Frame(child))
Return == frames' = Under

CodegenConstant ==
    /\ Running({"CONSTANT"}, 0)
    /\ Write(<<Num("push_imm", Node.number)>>)
    /\ Return
    /\ UNCHANGED <<ast, labelCount, phase>>

CallLeft ==
    /\ Running(BinaryKinds, 0)
    /\ Call(1, 0, Node.left)
    /\ UNCHANGED <<ast, code, labelCount, phase>>

CallRightTakesLeft ==
    /\ Running(UnaryKinds, 0) \/ Running(PlainKinds, 1)
    /\ Call(2, 0, Node.left)
    /\ UNCHANGED <<ast, code, labelCount, phase>>
CallRight ==
    /\ Running(UnaryKinds, 0) \/ Running(PlainKinds, 1)
    /\ Call(2, 0, Node.right)
    /\ UNCHANGED <<ast, code, labelCount, phase>>

(* Two labels are drawn from get_label, in this order.                     *)
TestLeftOneLabel ==
    /\ Running(LogicalKinds, 1)
    /\ Write(TestCode(Node.kind, labelCount, labelCount + 1))
    /\ labelCount' = labelCount + 1
    /\ Call(2, labelCount + 1, Node.right)
    /\ UNCHANGED <<ast, phase>>
TestLeftForgetsEnd ==
    /\ Running(LogicalKinds, 1)
    /\ Write(TestCode(Node.kind, labelCount, labelCount + 1))
    /\ labelCount' = labelCount + 2
    /\ Call(2, labelCount', Node.right)
    /\ UNCHANGED <<ast, phase>>
TestLeft ==
    /\ Running(LogicalKinds, 1)
    /\ Write(TestCode(Node.kind, labelCount, labelCount + 1))
    /\ labelCount' = labelCount + 2
    /\ Call(2, labelCount + 1, Node.right)
    /\ UNCHANGED <<ast, phase>>

CodegenUnary ==
    /\ Running(UnaryKinds, 2)
    /\ Write(UnaryCode(Node.kind))
    /\ Return
    /\ UNCHANGED <<ast, labelCount, phase>>

CodegenPlain ==
    /\ Running(PlainKinds, 2)
    /\ Write(PlainCode(Node.kind))
    /\ Return
    /\ UNCHANGED <<ast, labelCount, phase>>

CodegenLogical ==
    /\ Running(LogicalKinds, 2)
    /\ Write(LogicalCode(Top.end))
    /\ Return
    /\ UNCHANGED <<ast, labelCount, phase>>
----------------------------------------------------------------------------
(* codegen_program, codegen_func and codegen_stmt *)

Init ==
    /\ ast \in Programs
    /\ code = <<>> /\ labelCount = 0 /\ frames = <<>> /\ phase = "open"

Open ==
    /\ phase = "open"
    /\ Write(Header \o <<Num("label", Main)>>)
    /\ frames' = <<Frame(Len(ast))>>
    /\ phase' = "body"
    /\ UNCHANGED <<ast, labelCount>>

(* fopen is not checked: fwrite(..., NULL) ends the program.               *)
OpenFails ==
    /\ phase = "open"
    /\ phase' = "crashed"
    /\ UNCHANGED <<ast, code, labelCount, frames>>

FinishWithoutPop ==
    /\ phase = "body" /\ frames = <<>>
    /\ Write(<<Op("ret")>>)
    /\ phase' = "done"
    /\ UNCHANGED <<ast, labelCount, frames>>
Finish ==
    /\ phase = "body" /\ frames = <<>>
    /\ Write(<<Reg("pop", "rax"), Op("ret")>>)
    /\ phase' = "done"
    /\ UNCHANGED <<ast, labelCount, frames>>

Generate ==
    \/ Open \/ OpenFails \/ Finish
    \/ CodegenConstant \/ CallLeft \/ CallRight \/ TestLeft
    \/ CodegenUnary \/ CodegenPlain \/ CodegenLogical
Closed      == phase \in {"done", "crashed"}
Terminating == Closed /\ UNCHANGED vars

Next == Generate \/ Terminating

Spec == Init /\ [][Next]_vars
----------------------------------------------------------------------------
(* Properties. *)

Registers  == {"", "rax", "rdi", "rcx", "rdx"}
Branches   == {"jmp", "je", "jne", "call"}
Operations ==
    Branches \cup
    {"label", "push_imm", "push", "pop", "mov_rdi", "mov_1", "exit", "ret",
     "neg", "not", "add", "sub", "imul", "and", "xor", "or", "shl", "sar", "cqo", "idiv",
     "cmp_0", "cmp_rdi", "movzx",
     "setl", "setle", "setg", "setge", "sete", "setne"}

(* The variables have their types. *)
TypeOK ==
    /\ ast # <<>>
    /\ \A i \in 1..Len(code) :
           /\ code[i].op \in Operations /\ code[i].reg \in Registers
           /\ code[i].n \in Nat \cup {Main}
    /\ labelCount \in Nat
    /\ \A i \in 1..Len(frames) :
           /\ frames[i].node \in 1..Len(ast) /\ frames[i].step \in 0..2
           /\ frames[i].end \in Nat
    /\ phase \in {"open", "body", "done", "crashed"}

IsLabel(i) == code[i].op = "label"
IsJump(i)  == code[i].op \in Branches

(* No label is defined twice, however && and || are nested.                *)
LabelsUnique ==
    \A i, j \in 1..Len(code) :
        IsLabel(i) /\ IsLabel(j) /\ code[i].n = code[j].n => i = j

(* Every jump of the finished program goes forward to a label that exists: *)
(* the generated code cannot loop.                                         *)
JumpsGoForward ==
    phase = "done" =>
        \A i \in 1..Len(code) : IsJump(i) =>
            \E j \in (i + 1)..Len(code) : IsLabel(j) /\ code[j].n = code[i].n

(* The values the code before place i leaves on the stack, counted along   *)
(* the text.                                                               *)
Places(i, ops) == Cardinality({j \in 4..(i - 1) : code[j].op \in ops})
Net(i) == Places(i, {"push", "push_imm"}) - Places(i, {"pop"})

(* What the running calls have on the stack when the code written so far   *)
(* has run: the left value of each operator that waits for its right one   *)
(* (&& and || have popped theirs), and the values of the innermost call.   *)
Waiting ==
    Cardinality({i \in 1..(Len(frames) - 1) :
                    frames[i].step = 2 /\ ast[frames[i].node].kind \in PlainKinds})
Ready ==
    IF frames = <<>> THEN 1
    ELSE IF Top.step = 2 /\ Node.kind \in PlainKinds THEN 2
    ELSE IF Top.step > 0 THEN 1 ELSE 0

(* The stack is balanced: each call leaves exactly one value, and where a  *)
(* jump lands the stack is as deep as where it came from.                  *)
StackBalanced ==
    /\ phase = "body" => Net(Len(code) + 1) = Waiting + Ready
    /\ phase = "done" =>
           /\ Net(Len(code) + 1) = 0
           /\ \A i, j \in 4..Len(code) :
                  IsJump(i) /\ IsLabel(j) /\ code[i].n = code[j].n => Net(i) = Net(j)
=============================================================================
