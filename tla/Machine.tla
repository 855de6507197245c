------------------------------ MODULE Machine ------------------------------
(***************************************************************************)
(* The compiled program: codegen_program writes the assembly (module       *)
(* Codegen), nasm and ld make an executable of it and the processor runs   *)
(* it.  The processor is modelled for the instructions codegen.c prints    *)
(* and resources/snippets/header.nasm holds, with words of WordBits.       *)
(***************************************************************************)
EXTENDS Codegen

CONSTANTS
    WordBits,    (* 64: the width of a register and of a long               *)
    IntBits,     (* 32: the width of an int and of an immediate of push     *)
    ByteBits     (* 8: the width of al and cl, and of the exit status       *)

ASSUME WidthAssumption ==
    /\ WordBits \in Nat /\ IntBits \in 2..WordBits /\ ByteBits \in 1..(WordBits - 1)
    /\ 2 ^ ByteBits >= WordBits

VARIABLES        (* besides those of the compiler                           *)
    state,       (* "loaded", "running", "exited" or "faulted"              *)
    pc,          (* the place of the next instruction in code               *)
    reg,         (* the registers                                           *)
    compared,    (* the two numbers the flags come from                     *)
    stack,       (* what _start and main have pushed, top last              *)
    status       (* the exit status                                         *)

machineVars == <<state, pc, reg, compared, stack, status>>
allVars     == <<vars, machineVars>>

C == INSTANCE CProgram WITH
           LongBits <- WordBits, StatusBits <- ByteBits,
           outcome <- CASE state = "exited" -> [how |-> "exited", status |-> status]
                        [] state = "faulted" -> [how |-> "trapped", status |-> 0]
                        [] phase = "crashed" -> [how |-> "not compiled", status |-> 0]
                        [] OTHER -> [how |-> "none", status |-> 0]
----------------------------------------------------------------------------
Word(x) == C!Signed(x, WordBits)

(* An immediate of push is encoded in IntBits (nasm truncates a larger one *)
(* with a warning) and sign-extended.                                      *)
Immediate(n) == C!Signed(n, IntBits)

Low(x) == x % (2 ^ ByteBits)

Compute(op, a, b) ==
    CASE op = "add" -> Word(a + b)
      [] op = "sub" -> Word(a - b)
      [] op = "imul" -> Word(a * b)
      [] op = "and" -> C!BitByBit(C!AndBit, a, b, WordBits)
      [] op = "or" -> C!BitByBit(C!OrBit, a, b, WordBits)
      [] op = "xor" -> C!BitByBit(C!XorBit, a, b, WordBits)

Holds(test, a, b) ==
    CASE test = "sete" -> a = b   [] test = "setne" -> a # b
      [] test = "setl" -> a < b   [] test = "setle" -> a <= b
      [] test = "setg" -> a > b   [] test = "setge" -> a >= b

At(ops)   == state = "running" /\ code[pc].op \in ops
Step      == pc' = pc + 1 /\ UNCHANGED <<vars, state, status>>
Set(r, x) == reg' = [reg EXCEPT ![r] = x]
Target(n) == CHOOSE j \in 1..Len(code) : IsLabel(j) /\ code[j].n = n

Push ==
    /\ At({"push", "push_imm"})
    /\ stack' = Append(stack, IF code[pc].op = "push" THEN reg[code[pc].reg]
                                                      ELSE Immediate(code[pc].n))
    /\ Step /\ UNCHANGED <<reg, compared>>

Pop ==
    /\ At({"pop"})
    /\ Set(code[pc].reg, stack[Len(stack)])
    /\ stack' = SubSeq(stack, 1, Len(stack) - 1)
    /\ Step /\ UNCHANGED compared

Calculate ==
    /\ At({"add", "sub", "imul", "and", "or", "xor"})
    /\ Set("rax", Compute(code[pc].op, reg["rax"], reg["rdi"]))
    /\ Step /\ UNCHANGED <<compared, stack>>

Negate ==
    /\ At({"neg", "not"})
    /\ Set("rax", Word(IF code[pc].op = "neg" THEN -reg["rax"] ELSE -reg["rax"] - 1))
    /\ Step /\ UNCHANGED <<compared, stack>>

(* shl/sar rax, cl: the count is cl modulo the width of a word.            *)
ShiftRax ==
    /\ At({"shl", "sar"})
    /\ LET count == Low(reg["rcx"]) % WordBits IN
       Set("rax", IF code[pc].op = "shl" THEN Word(reg["rax"] * 2 ^ count)
                                         ELSE reg["rax"] \div 2 ^ count)
    /\ Step /\ UNCHANGED <<compared, stack>>

SignExtend ==
    /\ At({"cqo"})
    /\ Set("rdx", IF reg["rax"] < 0 THEN -1 ELSE 0)
    /\ Step /\ UNCHANGED <<compared, stack>>

(* idiv rdi divides rdx:rax; it faults when the quotient does not exist or *)
(* does not fit.                                                           *)
Dividend == reg["rdx"] * 2 ^ WordBits + (reg["rax"] % (2 ^ WordBits))
Divides  == reg["rdi"] # 0 /\ C!Fits(C!Quotient(Dividend, reg["rdi"]), WordBits)
Divide ==
    /\ At({"idiv"}) /\ Divides
    /\ reg' = [reg EXCEPT !["rax"] = C!Quotient(Dividend, reg["rdi"]),
                          !["rdx"] = C!Remainder(Dividend, reg["rdi"])]
    /\ Step /\ UNCHANGED <<compared, stack>>
DivideError ==
    /\ At({"idiv"}) /\ ~Divides
    /\ state' = "faulted"
    /\ UNCHANGED <<vars, pc, reg, compared, stack, status>>

Compare ==
    /\ At({"cmp_0", "cmp_rdi"})
    /\ compared' = <<reg["rax"], IF code[pc].op = "cmp_0" THEN 0 ELSE reg["rdi"]>>
    /\ Step /\ UNCHANGED <<reg, stack>>

(* setcc al writes the low byte of rax only.                               *)
SetByte ==
    /\ At({"sete", "setne", "setl", "setle", "setg", "setge"})
    /\ Set("rax", Word(reg["rax"] - Low(reg["rax"])
                       + (IF Holds(code[pc].op, compared[1], compared[2]) THEN 1 ELSE 0)))
    /\ Step /\ UNCHANGED <<compared, stack>>

Move ==
    /\ At({"movzx", "mov_1", "mov_rdi"})
    /\ CASE code[pc].op = "movzx" -> Set("rax", Low(reg["rax"]))
         [] code[pc].op = "mov_1" -> Set("rax", 1)
         [] code[pc].op = "mov_rdi" -> Set("rdi", reg["rax"])
    /\ Step /\ UNCHANGED <<compared, stack>>

PassLabel ==
    /\ At({"label"})
    /\ Step /\ UNCHANGED <<reg, compared, stack>>

Taken(op) ==
    CASE op = "jmp" -> TRUE
      [] op = "je" -> compared[1] = compared[2]
      [] op = "jne" -> compared[1] # compared[2]
Jump ==
    /\ At({"jmp", "je", "jne"})
    /\ pc' = IF Taken(code[pc].op) THEN Target(code[pc].n) ELSE pc + 1
    /\ UNCHANGED <<vars, state, reg, compared, stack, status>>

CallMain ==
    /\ At({"call"})
    /\ stack' = Append(stack, pc + 1)
    /\ pc' = Target(code[pc].n)
    /\ UNCHANGED <<vars, state, reg, compared, status>>

Ret ==
    /\ At({"ret"})
    /\ pc' = stack[Len(stack)]
    /\ stack' = SubSeq(stack, 1, Len(stack) - 1)
    /\ UNCHANGED <<vars, state, reg, compared, status>>

Exit ==
    /\ At({"exit"})
    /\ status' = Low(reg["rdi"])
    /\ state' = "exited"
    /\ UNCHANGED <<vars, pc, reg, compared, stack>>
----------------------------------------------------------------------------
MachineInit ==
    /\ Init
    /\ state = "loaded" /\ pc = 1
    /\ reg = [r \in {"rax", "rdi", "rcx", "rdx"} |-> 0]
    /\ compared = <<0, 0>> /\ stack = <<>> /\ status = 0

Compile == Generate /\ UNCHANGED machineVars

Load ==
    /\ phase = "done" /\ state = "loaded"
    /\ state' = "running"
    /\ UNCHANGED <<vars, pc, reg, compared, stack, status>>

Execute ==
    \/ Push \/ Pop \/ Calculate \/ Negate \/ ShiftRax \/ SignExtend \/ Divide
    \/ DivideError \/ Compare \/ SetByte \/ Move \/ PassLabel \/ Jump \/ CallMain
    \/ Ret \/ Exit

Over  == phase = "crashed" \/ state \in {"exited", "faulted"}
Ended == Over /\ UNCHANGED allVars

MachineNext == Compile \/ Load \/ Execute \/ Ended

MachineSpec == MachineInit /\ [][MachineNext]_allVars
FairSpec    == MachineSpec /\ WF_allVars(MachineNext)
----------------------------------------------------------------------------
(* Properties. *)

Words == (-(2 ^ (WordBits - 1)))..(2 ^ (WordBits - 1) - 1)

(* The variables have their types: registers hold words, and execution     *)
(* never leaves the code.                                                  *)
WellTyped ==
    /\ state \in {"loaded", "running", "exited", "faulted"}
    /\ pc \in 1..(Len(code) + 1) /\ (state = "running" => pc <= Len(code))
    /\ \A r \in {"rax", "rdi", "rcx", "rdx"} : reg[r] \in Words
    /\ compared[1] \in Words /\ compared[2] \in Words
    /\ \A i \in 1..Len(stack) : stack[i] \in Words \cup 1..Len(code)
    /\ status \in 0..(2 ^ ByteBits - 1)

(* Whichever way && and || branch, the stack is as deep as the text of the *)
(* program says, over the return address of main, which is what ret finds; *)
(* _start is left with the stack it had.                                   *)
StackDiscipline ==
    state = "running" =>
        /\ pc >= 4 => stack # <<>> /\ stack[1] = 2 /\ Len(stack) = 1 + Net(pc)
        /\ pc \in 1..3 => stack = <<>>
        /\ At({"ret"}) => stack = <<2>>

(* No register overflows, no step leaves the code and every value that is  *)
(* pushed is popped by the instruction that is meant to have it.           *)
ExecutionSound == WellTyped /\ StackDiscipline

(* The compiled program is a C program: it ends, once, with the status C   *)
(* gives its expression, and traps only where C leaves it undefined.       *)
ImplementsC == C!Spec

(* tests/execute.c:188, "dragon and gcc produced different exit codes":    *)
(* a program whose value C defines exits with the status of that value.    *)
ExitCodesAgree == state = "exited" => C!Allowed(ast, [how |-> "exited", status |-> status])
=============================================================================
