--------------------------- MODULE CodegenProofs ---------------------------
(* Labels are unique, jumps go forward and the stack is balanced, for all  *)
(* expression trees; the processor that runs the program keeps to the      *)
(* depths the text has, for all widths of its words; and what --dump-ast   *)
(* prints of a tree, it prints with its strings in order.                  *)
EXTENDS Machine, Output, SequenceTheorems, FiniteSetTheorems, FunctionTheorems,
        WellFoundedInduction, TLAPS

(* Names for what the invariant says of a text c of instructions.          *)
Instruction == [op : Operations, reg : Registers, n : Nat \cup {Main}]

Defines(c, n) == \E i \in 1..Len(c) : c[i].op = "label" /\ c[i].n = n
Unique(c) ==
    \A i, j \in 1..Len(c) :
        c[i].op = "label" /\ c[j].op = "label" /\ c[i].n = c[j].n => i = j
Dangling(c, n) ==
    \E i \in 1..Len(c) :
        /\ c[i].op \in Branches /\ c[i].n = n
        /\ ~\E j \in (i + 1)..Len(c) : c[j].op = "label" /\ c[j].n = n
(* Instructions that neither define nor use a label.                       *)
Silent == Operations \ (Branches \cup {"label"})
Quiet == {x \in Instruction : x.op # "label" /\ x.op \notin Branches}

(* A call of && or || that has drawn its end label and not written it yet. *)
Awaits(f) == frames[f].step = 2 /\ ast[frames[f].node].kind \in LogicalKinds
Pending(n) == \E f \in 1..Len(frames) : Awaits(f) /\ frames[f].end = n
----------------------------------------------------------------------------
(* Concatenation of instruction texts. *)

LEMMA Concat ==
    ASSUME NEW S, NEW c \in Seq(S), NEW w \in Seq(S)
    PROVE  /\ c \o w \in Seq(S)
           /\ Len(c) \in Nat /\ Len(w) \in Nat
           /\ Len(c \o w) = Len(c) + Len(w)
           /\ \A i \in 1..Len(c) : (c \o w)[i] = c[i]
           /\ \A i \in 1..Len(w) : (c \o w)[Len(c) + i] = w[i]
           /\ \A i \in (Len(c) + 1)..(Len(c) + Len(w)) :
                  i - Len(c) \in 1..Len(w) /\ (c \o w)[i] = w[i - Len(c)]
OBVIOUS

LEMMA ConcatDefines ==
    ASSUME NEW c \in Seq(Instruction), NEW w \in Seq(Instruction), NEW n
    PROVE  Defines(c \o w, n) <=> Defines(c, n) \/ Defines(w, n)
<1> DEFINE d == c \o w
<1>1. /\ Len(c) \in Nat /\ Len(w) \in Nat /\ Len(d) = Len(c) + Len(w)
      /\ \A i \in 1..Len(c) : d[i] = c[i]
      /\ \A i \in 1..Len(w) : d[Len(c) + i] = w[i]
      /\ \A i \in (Len(c) + 1)..(Len(c) + Len(w)) :
             i - Len(c) \in 1..Len(w) /\ d[i] = w[i - Len(c)]
  BY Concat
<1> HIDE DEF d
<1>2. Defines(c, n) => Defines(d, n)
  BY <1>1 DEF Defines
<1>3. ASSUME NEW i \in 1..Len(w), w[i].op = "label", w[i].n = n
      PROVE  Defines(d, n)
  <2>1. Len(c) + i \in 1..Len(d)
    BY <1>1
  <2> QED BY <1>1, <1>3, <2>1 DEF Defines
<1>4. ASSUME NEW i \in 1..Len(d), d[i].op = "label", d[i].n = n
      PROVE  Defines(c, n) \/ Defines(w, n)
  <2>1. CASE i \in 1..Len(c)
    BY <1>1, <1>4, <2>1 DEF Defines
  <2>2. CASE i \in (Len(c) + 1)..(Len(c) + Len(w))
    BY <1>1, <1>4, <2>2 DEF Defines
  <2> QED BY <1>1, <2>1, <2>2
<1> QED BY <1>2, <1>3, <1>4 DEF Defines, d

LEMMA ConcatUnique ==
    ASSUME NEW c \in Seq(Instruction), NEW w \in Seq(Instruction),
           Unique(c), Unique(w), \A n \in Nat \cup {Main} : ~(Defines(c, n) /\ Defines(w, n))
    PROVE  Unique(c \o w)
<1> DEFINE d == c \o w
<1>1. /\ Len(c) \in Nat /\ Len(w) \in Nat /\ Len(d) = Len(c) + Len(w)
      /\ \A i \in 1..Len(c) : d[i] = c[i]
      /\ \A i \in (Len(c) + 1)..(Len(c) + Len(w)) :
             i - Len(c) \in 1..Len(w) /\ d[i] = w[i - Len(c)]
  BY Concat
<1> HIDE DEF d
<1> SUFFICES ASSUME NEW i \in 1..Len(d), NEW j \in 1..Len(d),
                    d[i].op = "label", d[j].op = "label", d[i].n = d[j].n
             PROVE  i = j
  BY DEF Unique, d
<1>2. \A k \in 1..Len(c) : c[k].n \in Nat \cup {Main}
  <2>1. \A k \in 1..Len(c) : c[k] \in Instruction
    OBVIOUS
  <2> QED BY <2>1 DEF Instruction
<1>3. CASE i \in 1..Len(c) /\ j \in 1..Len(c)
  BY <1>1, <1>3 DEF Unique
<1>4. CASE i \in (Len(c) + 1)..Len(d) /\ j \in (Len(c) + 1)..Len(d)
  <2>1. i - Len(c) = j - Len(c)
    BY SMTT(30), <1>1, <1>4 DEF Unique
  <2> QED BY <1>1, <2>1
<1>5. CASE i \in 1..Len(c) /\ j \in (Len(c) + 1)..Len(d)
  <2>1. Defines(c, c[i].n) /\ Defines(w, c[i].n)
    BY SMTT(30), <1>1, <1>5 DEF Defines
  <2> QED BY <1>2, <1>5, <2>1
<1>6. CASE j \in 1..Len(c) /\ i \in (Len(c) + 1)..Len(d)
  <2>1. Defines(c, c[j].n) /\ Defines(w, c[j].n)
    BY SMTT(30), <1>1, <1>6 DEF Defines
  <2> QED BY <1>2, <1>6, <2>1
<1> QED BY <1>1, <1>3, <1>4, <1>5, <1>6

LEMMA ConcatDangling ==
    ASSUME NEW c \in Seq(Instruction), NEW w \in Seq(Instruction), NEW n,
           Dangling(c \o w, n)
    PROVE  (Dangling(c, n) /\ ~Defines(w, n)) \/ Dangling(w, n)
<1> DEFINE d == c \o w
<1>1. /\ Len(c) \in Nat /\ Len(w) \in Nat /\ Len(d) = Len(c) + Len(w)
      /\ \A i \in 1..Len(c) : d[i] = c[i]
      /\ \A i \in 1..Len(w) : d[Len(c) + i] = w[i]
      /\ \A i \in (Len(c) + 1)..(Len(c) + Len(w)) :
             i - Len(c) \in 1..Len(w) /\ d[i] = w[i - Len(c)]
  BY Concat
<1>2. PICK i \in 1..Len(d) :
          /\ d[i].op \in Branches /\ d[i].n = n
          /\ ~\E j \in (i + 1)..Len(d) : d[j].op = "label" /\ d[j].n = n
  BY DEF Dangling
<1> HIDE DEF d
<1>3. CASE i \in 1..Len(c)
  <2>1. ~\E j \in (i + 1)..Len(c) : c[j].op = "label" /\ c[j].n = n
    BY <1>1, <1>2, <1>3
  <2>2. ASSUME NEW j \in 1..Len(w), w[j].op = "label", w[j].n = n
        PROVE  FALSE
    <3>1. Len(c) + j \in (i + 1)..Len(d)
      BY <1>1, <1>3
    <3> QED BY <1>1, <1>2, <2>2, <3>1
  <2> QED BY <1>1, <1>2, <1>3, <2>1, <2>2 DEF Dangling, Defines
<1>4. CASE i \in (Len(c) + 1)..Len(d)
  <2>1. i - Len(c) \in 1..Len(w) /\ w[i - Len(c)] = d[i]
    BY <1>1, <1>4
  <2>2. ASSUME NEW j \in (i - Len(c) + 1)..Len(w), w[j].op = "label", w[j].n = n
        PROVE  FALSE
    <3>1. Len(c) + j \in (i + 1)..Len(d) /\ j \in 1..Len(w)
      BY <1>1, <1>4
    <3> QED BY <1>1, <1>2, <2>2, <3>1
  <2> QED BY <1>2, <2>1, <2>2 DEF Dangling
<1> QED BY <1>1, <1>2, <1>3, <1>4
----------------------------------------------------------------------------
(* The texts the generator writes. *)

LEMMA QuietInstructions ==
    /\ \A op \in Silent, n \in Nat :
           Num(op, n) \in Quiet /\ Op(op) \in Quiet
    /\ \A op \in Silent, r \in Registers : Reg(op, r) \in Quiet
BY DEF Num, Op, Reg, Quiet, Instruction, Silent, Registers

LEMMA Tuples ==
    ASSUME NEW S
    PROVE  /\ \A a \in S : <<a>> \in Seq(S)
           /\ \A a, b \in S : <<a, b>> \in Seq(S)
           /\ \A a, b, c \in S : <<a, b, c>> \in Seq(S)
           /\ \A v, w \in Seq(S) : v \o w \in Seq(S)
OBVIOUS

LEMMA Pair ==
    ASSUME NEW S, NEW a \in S, NEW b \in S
    PROVE  <<a>> \o <<b>> = <<a, b>>
<1> DEFINE v == <<a>>  w == <<b>>  d == v \o w  e == <<a, b>>
<1>1. v \in Seq(S) /\ w \in Seq(S) /\ Len(v) = 1 /\ Len(w) = 1 /\ v[1] = a /\ w[1] = b
  OBVIOUS
<1>2. e \in Seq(S) /\ Len(e) = 2 /\ e[1] = a /\ e[2] = b
  OBVIOUS
<1> HIDE DEF v, w, e
<1>3. d \in Seq(S) /\ Len(d) = 2 /\ d[1] = a /\ d[2] = b
  <2>1. 1 \in 1..Len(v) /\ 1 \in 1..Len(w) /\ Len(v) + 1 = 2
    BY <1>1
  <2> QED BY <1>1, <2>1, Concat
<1> HIDE DEF d
<1>4. \A i \in 1..2 : d[i] = e[i]
  <2>1. \A i \in 1..2 : i = 1 \/ i = 2
    OBVIOUS
  <2> QED BY <1>2, <1>3, <2>1
<1>5. d = e
  BY <1>2, <1>3, <1>4
<1> QED BY <1>5 DEF d, e, v, w

LEMMA ConcatThree ==
    ASSUME NEW S, NEW a \in S, NEW b \in S, NEW c \in S
    PROVE  <<a>> \o <<b, c>> = <<a, b, c>>
<1> DEFINE v == <<a>>  w == <<b, c>>  d == v \o w  e == <<a, b, c>>
<1>1. /\ v \in Seq(S) /\ w \in Seq(S) /\ Len(v) = 1 /\ Len(w) = 2
      /\ v[1] = a /\ w[1] = b /\ w[2] = c
  OBVIOUS
<1>2. e \in Seq(S) /\ Len(e) = 3 /\ e[1] = a /\ e[2] = b /\ e[3] = c
  OBVIOUS
<1> HIDE DEF v, w, e
<1>3. d \in Seq(S) /\ Len(d) = 3 /\ d[1] = a /\ d[2] = b /\ d[3] = c
  <2>1. 1 \in 1..Len(v) /\ 1 \in 1..Len(w) /\ 2 \in 1..Len(w)
    BY <1>1
  <2>2. /\ d \in Seq(S) /\ Len(d) = Len(v) + Len(w)
        /\ \A i \in 1..Len(v) : d[i] = v[i]
        /\ \A i \in 1..Len(w) : d[Len(v) + i] = w[i]
    BY SMTT(30), <1>1, Concat
  <2>3. d[1] = v[1] /\ d[Len(v) + 1] = w[1] /\ d[Len(v) + 2] = w[2]
    BY <2>1, <2>2
  <2>4. Len(v) + Len(w) = 3 /\ Len(v) + 1 = 2 /\ Len(v) + 2 = 3
    BY <1>1
  <2> QED BY <1>1, <2>2, <2>3, <2>4
<1> HIDE DEF d
<1>4. \A i \in 1..3 : d[i] = e[i]
  <2>1. \A i \in 1..3 : i = 1 \/ i = 2 \/ i = 3
    OBVIOUS
  <2> QED BY <1>2, <1>3, <2>1
<1>5. d = e
  BY <1>2, <1>3, <1>4
<1> QED BY <1>5 DEF d, e, v, w

LEMMA QuietText ==
    ASSUME NEW w \in Seq(Quiet), NEW n
    PROVE  w \in Seq(Instruction) /\ ~Defines(w, n) /\ ~Dangling(w, n) /\ Unique(w)
<1>1. \A i \in 1..Len(w) : w[i] \in Quiet
  OBVIOUS
<1>2. Quiet \subseteq Instruction
  BY DEF Quiet
<1>3. \A i \in 1..Len(w) : w[i].op # "label" /\ w[i].op \notin Branches
  BY <1>1 DEF Quiet
<1>4. w \in Seq(Instruction)
  BY <1>2
<1> QED BY <1>3, <1>4 DEF Defines, Dangling, Unique

LEMMA FlagQuiet ==
    ASSUME NEW test \in Silent
    PROVE  Flag(test) \in Seq(Quiet)
<1>1. Op(test) \in Quiet /\ Op("movzx") \in Quiet
  BY QuietInstructions DEF Silent, Operations, Branches, Registers
<1> QED BY <1>1, Tuples DEF Flag

LEMMA UnaryQuiet ==
    ASSUME NEW kind \in UnaryKinds
    PROVE  UnaryCode(kind) \in Seq(Quiet)
<1>1. /\ Reg("pop", "rax") \in Quiet /\ Reg("push", "rax") \in Quiet
      /\ Op("neg") \in Quiet /\ Op("not") \in Quiet /\ Op("cmp_0") \in Quiet
  BY QuietInstructions DEF Silent, Operations, Branches, Registers
<1>2. Flag("sete") \in Seq(Quiet)
  BY FlagQuiet DEF Silent, Operations, Branches
<1>3. CASE kind = "ARITHMETIC_NEGATION"
  BY <1>1, <1>3, Tuples DEF UnaryCode
<1>4. CASE kind = "BITWISE_NEGATION"
  BY <1>1, <1>4, Tuples DEF UnaryCode
<1>5. CASE kind = "LOGICAL_NEGATION"
  BY <1>1, <1>2, <1>5, Tuples DEF UnaryCode
<1> QED BY <1>3, <1>4, <1>5 DEF UnaryKinds

LEMMA PlainQuiet ==
    ASSUME NEW kind \in PlainKinds
    PROVE  PlainCode(kind) \in Seq(Quiet)
<1>1. /\ \A r \in Registers : Reg("pop", r) \in Quiet /\ Reg("push", r) \in Quiet
      /\ Op("cqo") \in Quiet /\ Op("idiv") \in Quiet /\ Op("cmp_rdi") \in Quiet
  BY QuietInstructions DEF Silent, Operations, Branches, Registers
<1>2. PopBoth("rdi") \in Seq(Quiet) /\ PopBoth("rcx") \in Seq(Quiet)
  BY <1>1, Tuples DEF PopBoth, Registers
<1>3. CASE kind \in DOMAIN Arithmetic
  <2>1. Arithmetic[kind] \in Silent
    BY <1>3 DEF Arithmetic, Silent, Operations, Branches
  <2>2. Op(Arithmetic[kind]) \in Quiet
    BY SMTT(30), <2>1, QuietInstructions
  <2>3. PlainCode(kind) = PopBoth("rdi") \o <<Op(Arithmetic[kind]), Reg("push", "rax")>>
    BY SMTT(30), <1>3 DEF PlainCode, Arithmetic, Shift, Condition
  <2> QED BY <1>1, <1>2, <2>2, <2>3, Tuples DEF Registers
<1>4. CASE kind \in DOMAIN Shift
  <2>1. Shift[kind] \in Silent
    BY <1>4 DEF Shift, Silent, Operations, Branches
  <2>2. Op(Shift[kind]) \in Quiet
    BY <2>1, QuietInstructions
  <2>3. PlainCode(kind) = PopBoth("rcx") \o <<Op(Shift[kind]), Reg("push", "rax")>>
    BY SMTT(30), <1>4 DEF PlainCode, Arithmetic, Shift, Condition
  <2> QED BY <1>1, <1>2, <2>2, <2>3, Tuples DEF Registers
<1>5. CASE kind \in DOMAIN Condition
  <2>1. Condition[kind] \in Silent
    BY <1>5 DEF Condition, Silent, Operations, Branches
  <2>2. Flag(Condition[kind]) \in Seq(Quiet)
    BY SMTT(30), <2>1, FlagQuiet
  <2>3. PlainCode(kind) = PopBoth("rdi") \o <<Op("cmp_rdi")>> \o Flag(Condition[kind])
                         \o <<Reg("push", "rax")>>
    BY <1>5 DEF PlainCode, Arithmetic, Shift, Condition
  <2>4. <<Op("cmp_rdi")>> \in Seq(Quiet) /\ <<Reg("push", "rax")>> \in Seq(Quiet)
    BY <1>1, Tuples DEF Registers
  <2> DEFINE compare == PopBoth("rdi") \o <<Op("cmp_rdi")>>
             set == compare \o Flag(Condition[kind])
  <2>5. compare \in Seq(Quiet)
    BY <1>2, <2>4, Tuples
  <2> HIDE DEF compare
  <2>6. set \in Seq(Quiet)
    BY <2>2, <2>5, Tuples
  <2> HIDE DEF set
  <2>7. set \o <<Reg("push", "rax")>> \in Seq(Quiet)
    BY <2>4, <2>6, Tuples
  <2> QED BY <2>3, <2>7 DEF set, compare
<1>6. CASE kind = "DIVISION"
  <2>1. PlainCode(kind) = PopBoth("rdi") \o <<Op("cqo"), Op("idiv"), Reg("push", "rax")>>
    BY <1>6 DEF PlainCode, Arithmetic, Shift, Condition
  <2> QED BY <1>1, <1>2, <2>1, Tuples DEF Registers
<1>7. CASE kind = "MODULUS"
  <2>1. PlainCode(kind) = PopBoth("rdi") \o <<Op("cqo"), Op("idiv"), Reg("push", "rdx")>>
    BY <1>7 DEF PlainCode, Arithmetic, Shift, Condition
  <2> QED BY <1>1, <1>2, <2>1, Tuples DEF Registers
<1> QED BY <1>3, <1>4, <1>5, <1>6, <1>7 DEF PlainKinds

(* A text of one jump or one label.                                        *)
LEMMA JumpOrLabel ==
    ASSUME NEW op \in Branches \cup {"label"}, NEW m \in Nat \cup {Main}
    PROVE  /\ <<Num(op, m)>> \in Seq(Instruction) /\ Unique(<<Num(op, m)>>)
           /\ \A n : Defines(<<Num(op, m)>>, n) <=> op = "label" /\ n = m
           /\ \A n : Dangling(<<Num(op, m)>>, n) <=> op # "label" /\ n = m
<1> DEFINE x == Num(op, m)
           one == <<x>>
<1>1. x \in Instruction /\ x.op = op /\ x.n = m
  BY DEF Num, Instruction, Operations, Registers
<1> HIDE DEF x
<1>2. one \in Seq(Instruction) /\ Len(one) = 1 /\ one[1] = x
  BY <1>1
<1> HIDE DEF one
<1>3. \A i \in 1..Len(one) : i = 1
  BY <1>2
<1>4. Unique(one)
  BY <1>3 DEF Unique
<1>5. \A n : Defines(one, n) <=> op = "label" /\ n = m
  BY <1>1, <1>2, <1>3 DEF Defines
<1>6. "label" \notin Branches
  BY DEF Branches
<1>7. ~\E j \in 2..Len(one) : TRUE
  BY <1>2
<1>8. \A n : Dangling(one, n) <=> op # "label" /\ n = m
  BY <1>1, <1>2, <1>3, <1>6, <1>7 DEF Dangling
<1> QED BY <1>2, <1>4, <1>5, <1>8 DEF one, x

(* A call of && and || defines one label between its operands and leaves   *)
(* one jump without a label, which the code behind its operands defines.   *)
LEMMA TestText ==
    ASSUME NEW kind \in LogicalKinds, NEW on \in Nat, NEW end \in Nat,
           NEW w, w = TestCode(kind, on, end)
    PROVE  /\ w \in Seq(Instruction) /\ Unique(w)
           /\ \A n : Defines(w, n) => n = on
           /\ \A n : Dangling(w, n) => n = end
<1> DEFINE head == <<Reg("pop", "rax"), Op("cmp_0")>>
           jne == <<Num("jne", on)>>
           je == <<Num("je", on)>>
           one == <<Op("mov_1")>>
           jmp == <<Num("jmp", end)>>
           label == <<Num("label", on)>>
           Harmless(v) == /\ v \in Seq(Instruction) /\ Unique(v)
                          /\ \A n : ~Defines(v, n) /\ (Dangling(v, n) => n = on)
           middle == IF kind = "LOGICAL_AND" THEN jne ELSE je \o one
<1>1. head \in Seq(Quiet) /\ one \in Seq(Quiet)
  <2>1. Reg("pop", "rax") \in Quiet /\ Op("cmp_0") \in Quiet /\ Op("mov_1") \in Quiet
    BY QuietInstructions DEF Silent, Operations, Branches, Registers
  <2> QED BY <2>1, Tuples
<1>2. Harmless(head) /\ Harmless(one)
  BY <1>1, QuietText
<1>3. Harmless(jne) /\ Harmless(je)
  BY JumpOrLabel DEF Branches
<1>4. /\ jmp \in Seq(Instruction) /\ Unique(jmp)
      /\ \A n : ~Defines(jmp, n) /\ (Dangling(jmp, n) => n = end)
  BY JumpOrLabel DEF Branches
<1>5. /\ label \in Seq(Instruction) /\ Unique(label)
      /\ \A n : (Defines(label, n) <=> n = on) /\ ~Dangling(label, n)
  BY JumpOrLabel
<1> HIDE DEF head, jne, je, one, jmp, label
<1>6. ASSUME NEW v, NEW u, Harmless(v), Harmless(u) PROVE Harmless(v \o u)
  <2>1. v \o u \in Seq(Instruction)
    BY <1>6
  <2>2. Unique(v \o u)
    BY <1>6, ConcatUnique
  <2>3. \A n : ~Defines(v \o u, n)
    BY <1>6, ConcatDefines
  <2>4. \A n : Dangling(v \o u, n) => n = on
    BY <1>6, ConcatDangling
  <2> QED BY <2>1, <2>2, <2>3, <2>4
<1>7. Harmless(middle)
  BY <1>2, <1>3, <1>6
<1> HIDE DEF middle
<1>8. Harmless(head \o middle)
  BY <1>2, <1>6, <1>7
<1> DEFINE start == head \o middle
           tail  == jmp \o label
<1>9. tail = <<Num("jmp", end), Num("label", on)>>
  <2>1. \A a, b \in {Num("jmp", end), Num("label", on)} : <<a>> \o <<b>> = <<a, b>>
    BY Pair
  <2> QED BY <2>1 DEF jmp, label
<1>10. /\ tail \in Seq(Instruction) /\ Unique(tail)
       /\ \A n : (Defines(tail, n) <=> n = on) /\ (Dangling(tail, n) => n = end)
  <2>1. tail \in Seq(Instruction) /\ Unique(tail)
    BY <1>4, <1>5, ConcatUnique
  <2>2. \A n : Defines(tail, n) <=> n = on
    BY <1>4, <1>5, ConcatDefines
  <2>3. \A n : Dangling(tail, n) => n = end
    BY <1>4, <1>5, ConcatDangling
  <2> QED BY <2>1, <2>2, <2>3
<1> HIDE DEF start, tail
<1>11. start \in Seq(Instruction) /\ Unique(start)
       /\ \A n : ~Defines(start, n) /\ (Dangling(start, n) => n = on)
  BY <1>8 DEF start
<1>12. start \o tail \in Seq(Instruction) /\ Unique(start \o tail)
  BY <1>10, <1>11, ConcatUnique
<1>13. \A n : Defines(start \o tail, n) => n = on
  BY <1>10, <1>11, ConcatDefines
<1>14. \A n : Dangling(start \o tail, n) => n = end
  BY <1>10, <1>11, ConcatDangling
<1>15. TestCode(kind, on, end) = start \o tail
  <2>1. je \o one = <<Num("je", on), Op("mov_1")>>
    <3>1. \A a, b \in {Num("je", on), Op("mov_1")} : <<a>> \o <<b>> = <<a, b>>
      BY Pair
    <3> QED BY <3>1 DEF je, one
  <2>2. TestCode(kind, on, end) = head \o middle \o tail
    BY <1>9, <2>1 DEF TestCode, middle, head, jne
  <2> QED BY <2>2 DEF start
<1> QED BY <1>12, <1>13, <1>14, <1>15
----------------------------------------------------------------------------
(* The trees. *)

Nodes == 1..Len(ast)
Calls == [node : Nodes, step : 0..2, end : Nat]

GenTypes ==
    /\ ast \in Programs
    /\ code \in Seq(Instruction)
    /\ labelCount \in Nat
    /\ frames \in Seq(Calls)
    /\ phase \in {"open", "body", "done", "crashed"}

LEMMA Kinds ==
    /\ UnaryKinds \cap BinaryKinds = {}
    /\ "CONSTANT" \notin UnaryKinds \cup BinaryKinds
    /\ PlainKinds \cap LogicalKinds = {}
<1>1. PlainKinds = {"ADDITION", "SUBTRACTION", "MULTIPLICATION", "BITWISE_AND", "BITWISE_XOR",
                    "BITWISE_OR", "BITWISE_SHIFT_LEFT", "BITWISE_SHIFT_RIGHT", "LESS",
                    "LESS_EQUAL", "GREATER", "GREATER_EQUAL", "EQUALITY", "INEQUALITY",
                    "DIVISION", "MODULUS"}
  BY DEF PlainKinds, Arithmetic, Shift, Condition
<1> QED BY <1>1 DEF UnaryKinds, BinaryKinds, LogicalKinds

LEMMA Trees ==
    ASSUME ast \in Programs
    PROVE  /\ Len(ast) \in Nodes
           /\ \A i \in Nodes :
                  /\ ast[i].kind \in UnaryKinds => ast[i].right \in Nodes
                  /\ ast[i].kind \in BinaryKinds => /\ ast[i].left \in Nodes
                                                   /\ ast[i].right \in Nodes
                  /\ ast[i].kind = "CONSTANT" => ast[i].number \in Nat
<1> DEFINE R == [kind : STRING, left : Nat, right : Nat, number : Nat]
<1>1. ast # <<>> /\ ast \in Seq(R) /\ \A i \in 1..Len(ast) : IsNode(ast[i], i - 1)
  BY ProgramsAssumption
<1> HIDE DEF R
<1>2. Len(ast) \in Nat /\ Len(ast) # 0
  BY <1>1
<1>3. ASSUME NEW i \in Nodes
      PROVE  /\ ast[i].kind \in UnaryKinds => ast[i].right \in 1..(i - 1)
             /\ ast[i].kind \in BinaryKinds => /\ ast[i].left \in 1..(i - 1)
                                              /\ ast[i].right \in 1..(i - 1)
             /\ ast[i].kind = "CONSTANT" => ast[i].number \in Nat
  <2>1. IsNode(ast[i], i - 1)
    BY <1>1 DEF Nodes
  <2>2. CASE ast[i] \in [kind : {"CONSTANT"}, left : {0}, right : {0}, number : Nat]
    BY <2>2, Kinds
  <2>3. CASE ast[i] \in [kind : UnaryKinds, left : {0}, right : 1..(i - 1), number : {0}]
    BY <2>3, Kinds
  <2>4. CASE ast[i] \in [kind : BinaryKinds, left : 1..(i - 1), right : 1..(i - 1), number : {0}]
    BY <2>4, Kinds
  <2> QED BY <2>1, <2>2, <2>3, <2>4 DEF IsNode
<1>4. \A i \in Nodes : 1..(i - 1) \subseteq Nodes
  BY <1>2 DEF Nodes
<1> QED BY <1>2, <1>3, <1>4 DEF Nodes

LEMMA TopNode == GenTypes /\ frames # <<>> => Top.node \in Nodes
<1> SUFFICES ASSUME GenTypes, frames # <<>> PROVE Top.node \in Nodes
  OBVIOUS
<1>1. Len(frames) \in 1..Len(frames)
  BY DEF GenTypes
<1>2. frames[Len(frames)] \in Calls
  BY <1>1 DEF GenTypes
<1> QED BY <1>2 DEF Top, Calls

(* The call stack after a return and after a call. *)
LEMMA Returning ==
    ASSUME NEW S, NEW fs \in Seq(S), fs # <<>>
    PROVE  LET under == SubSeq(fs, 1, Len(fs) - 1) IN
           /\ under \in Seq(S) /\ Len(fs) \in Nat \ {0} /\ Len(under) = Len(fs) - 1
           /\ \A i \in 1..Len(under) : i \in 1..Len(fs) /\ under[i] = fs[i]
<1> DEFINE under == SubSeq(fs, 1, Len(fs) - 1)
<1>1. Len(fs) \in Nat \ {0} /\ \A i \in 1..(Len(fs) - 1) : fs[i] \in S
  OBVIOUS
<1>2. /\ under \in Seq(S)
      /\ Len(under) = IF 1 <= Len(fs) - 1 THEN Len(fs) - 1 - 1 + 1 ELSE 0
      /\ \A i \in 1..(Len(fs) - 1 - 1 + 1) : under[i] = fs[1 + i - 1]
  BY <1>1, SubSeqProperties
<1> HIDE DEF under
<1>3. Len(under) = Len(fs) - 1
  <2>1. CASE 1 <= Len(fs) - 1
    <3>1. Len(under) = Len(fs) - 1 - 1 + 1
      BY <1>2, <2>1
    <3> QED BY <1>1, <3>1
  <2>2. CASE ~(1 <= Len(fs) - 1)
    <3>1. Len(under) = 0
      BY <1>2, <2>2
    <3>2. \A l \in Nat \ {0} : ~(1 <= l - 1) => l - 1 = 0
      OBVIOUS
    <3>3. Len(fs) - 1 = 0
      BY <1>1, <2>2, <3>2
    <3> QED BY <3>1, <3>3
  <2> QED BY <2>1, <2>2
<1> QED BY <1>1, <1>2, <1>3 DEF under

LEMMA Calling ==
    ASSUME GenTypes, frames # <<>>,
           NEW step \in 0..2, NEW end \in Nat, NEW child \in Nodes,
           Call(step, end, child)
    PROVE  /\ frames' \in Seq(Calls)
           /\ Len(frames) \in Nat \ {0} /\ Len(frames') = Len(frames) + 1
           /\ \A i \in 1..(Len(frames) - 1) : frames'[i] = frames[i]
           /\ frames'[Len(frames)].node = frames[Len(frames)].node
           /\ frames'[Len(frames)].step = step /\ frames'[Len(frames)].end = end
           /\ frames'[Len(frames) + 1].step = 0
<1> DEFINE x == Len(frames)
           old == [frames[x] EXCEPT !.step = step, !.end = end]
           fs == [frames EXCEPT ![x] = old]
<1>1. x \in Nat \ {0} /\ x \in 1..Len(frames) /\ frames[x] \in Calls
  BY DEF GenTypes
<1>2. /\ old \in Calls /\ old.node = frames[x].node /\ old.step = step /\ old.end = end
  BY <1>1 DEF Calls
<1>3. frames' = Append(fs, Frame(child))
  BY <1>1 DEF Call, GenTypes, Calls
<1>4. Frame(child) \in Calls /\ Frame(child).step = 0
  BY DEF Frame, Calls
<1> HIDE DEF old
<1>5. /\ fs \in Seq(Calls) /\ Len(fs) = Len(frames) /\ fs[x] = old
      /\ \A i \in 1..(x - 1) : fs[i] = frames[i]
  BY <1>1, <1>2 DEF GenTypes
<1> HIDE DEF fs
<1>6. /\ frames' \in Seq(Calls) /\ Len(frames') = x + 1 /\ frames'[x + 1] = Frame(child)
      /\ \A i \in 1..x : frames'[i] = fs[i]
  BY <1>1, <1>3, <1>4, <1>5
<1>7. frames'[x] = old /\ \A i \in 1..(x - 1) : frames'[i] = frames[i]
  BY <1>1, <1>5, <1>6
<1> QED BY <1>1, <1>2, <1>4, <1>6, <1>7
----------------------------------------------------------------------------
(* The invariant: labels come from the counter, the end labels that calls  *)
(* of && and || hold are drawn, not written, and each held once, and every *)
(* jump without a label has one of them for its target.                    *)

FreshLabels == \A n \in Nat : Defines(code, n) => n < labelCount

PendingOnce ==
    \A f \in 1..Len(frames) :
        Awaits(f) => /\ frames[f].end < labelCount /\ ~Defines(code, frames[f].end)
                     /\ \A g \in 1..Len(frames) :
                            Awaits(g) /\ frames[g].end = frames[f].end => f = g

JumpsPending == \A n \in Nat \cup {Main} : Dangling(code, n) => Pending(n)

Phases ==
    /\ phase = "open" => code = <<>> /\ frames = <<>>
    /\ phase \in {"done", "crashed"} => frames = <<>>

LabelInv ==
    GenTypes /\ Unique(code) /\ FreshLabels /\ PendingOnce /\ JumpsPending /\ Phases

LEMMA LabelInit == Init => LabelInv
<1> SUFFICES ASSUME Init PROVE LabelInv
  OBVIOUS
<1>1. code = <<>> /\ frames = <<>> /\ labelCount = 0 /\ phase = "open" /\ ast \in Programs
  BY DEF Init
<1>2. \A i \in 1..Len(code) : FALSE
  BY <1>1
<1>3. \A i \in 1..Len(frames) : FALSE
  BY <1>1
<1>4. GenTypes
  BY <1>1 DEF GenTypes
<1>5. Unique(code) /\ FreshLabels /\ JumpsPending
  BY <1>2 DEF Unique, FreshLabels, JumpsPending, Defines, Dangling
<1>6. PendingOnce
  BY <1>3 DEF PendingOnce
<1> QED BY <1>1, <1>4, <1>5, <1>6 DEF LabelInv, Phases

(* A call returns that holds no label, having written no label and no jump.*)
LEMMA QuietReturn ==
    ASSUME LabelInv, phase = "body", frames # <<>>, ~Awaits(Len(frames)),
           NEW w \in Seq(Quiet), Write(w), Return, UNCHANGED <<ast, labelCount, phase>>
    PROVE  LabelInv'
<1>1. /\ frames' \in Seq(Calls) /\ Len(frames) \in Nat \ {0}
      /\ Len(frames') = Len(frames) - 1
      /\ \A i \in 1..Len(frames') : i \in 1..Len(frames) /\ frames'[i] = frames[i]
  BY Returning DEF LabelInv, GenTypes, Return, Under
<1>2. code' = code \o w /\ code \in Seq(Instruction) /\ w \in Seq(Instruction)
  BY QuietText DEF Write, LabelInv, GenTypes
<1>3. code' \in Seq(Instruction)
  BY <1>2
<1>4. \A n : Defines(code', n) <=> Defines(code, n)
  BY <1>2, ConcatDefines, QuietText
<1>5. \A n : Dangling(code', n) => Dangling(code, n)
  BY <1>2, ConcatDangling, QuietText
<1>6. Unique(code')
  BY <1>2, ConcatUnique, QuietText DEF LabelInv
<1>7. GenTypes'
  BY <1>1, <1>3 DEF LabelInv, GenTypes, Calls, Nodes
<1>8. FreshLabels'
  BY <1>4 DEF LabelInv, FreshLabels
<1>9. \A f \in 1..Len(frames') : Awaits(f)' <=> Awaits(f)
  BY <1>1 DEF Awaits
<1>10. PendingOnce'
  BY <1>1, <1>4, <1>9 DEF LabelInv, PendingOnce
<1>11. \A n : Pending(n) => Pending(n)'
  <2>1. \A f \in 1..Len(frames) : f = Len(frames) \/ f \in 1..Len(frames')
    BY <1>1
  <2> QED BY <1>1, <1>9, <2>1 DEF Pending
<1>12. JumpsPending'
  BY <1>5, <1>11 DEF LabelInv, JumpsPending
<1> QED BY <1>6, <1>7, <1>8, <1>10, <1>12 DEF LabelInv, Phases

(* A call begins another one and holds no label.                           *)
LEMMA QuietCall ==
    ASSUME LabelInv, phase = "body", frames # <<>>, Node.kind \notin LogicalKinds \/ Top.step = 0,
           NEW step \in 1..2, Node.kind \notin LogicalKinds \/ step = 1,
           NEW child \in Nodes, Call(step, 0, child),
           UNCHANGED <<ast, code, labelCount, phase>>
    PROVE  LabelInv'
<1>0. PICK x : x = Len(frames)
  OBVIOUS
<1>1. /\ frames' \in Seq(Calls) /\ x \in Nat \ {0} /\ Len(frames') = x + 1
      /\ \A i \in 1..(x - 1) : frames'[i] = frames[i]
      /\ frames'[x].node = frames[x].node /\ frames'[x].step = step
      /\ frames'[x + 1].step = 0
  BY <1>0, Calling DEF LabelInv
<1>2. ~Awaits(x) /\ ~Awaits(x)' /\ ~Awaits(x + 1)'
  BY <1>0, <1>1 DEF Awaits, Node, Top
<1>3. \A f \in 1..(x - 1) : Awaits(f)' <=> Awaits(f)
  BY <1>1 DEF Awaits
<1>4. \A f \in 1..Len(frames) : Awaits(f) => f \in 1..(x - 1)
  BY <1>0, <1>1, <1>2
<1>5. \A f \in 1..Len(frames') : Awaits(f)' => f \in 1..(x - 1)
  BY <1>0, <1>1, <1>2
<1>6. \A f \in 1..(x - 1) : f \in 1..Len(frames) /\ f \in 1..Len(frames')
  BY <1>0, <1>1
<1>7. GenTypes'
  BY <1>1 DEF LabelInv, GenTypes, Calls, Nodes
<1>8. PendingOnce'
  BY <1>1, <1>3, <1>5, <1>6 DEF LabelInv, PendingOnce
<1>9. JumpsPending'
  BY <1>1, <1>3, <1>4, <1>6 DEF LabelInv, JumpsPending, Pending
<1> QED BY <1>7, <1>8, <1>9 DEF LabelInv, FreshLabels, Phases, Unique

(* && or || draws its two labels, writes one and keeps the other.          *)
LEMMA LogicalCall == LabelInv /\ TestLeft => LabelInv'
<1> SUFFICES ASSUME LabelInv, TestLeft PROVE LabelInv'
  OBVIOUS
<1> DEFINE w == TestCode(Node.kind, labelCount, labelCount + 1)
<1>0. PICK x, e : x = Len(frames) /\ e = labelCount + 1
  OBVIOUS
<1>1. /\ frames # <<>> /\ phase = "body" /\ x \in Nat \ {0} /\ x \in 1..Len(frames)
      /\ frames[x] \in Calls /\ Node.kind \in LogicalKinds /\ frames[x].step = 1
      /\ Call(2, labelCount + 1, Node.right)
      /\ labelCount' = labelCount + 2 /\ labelCount \in Nat
      /\ UNCHANGED <<ast, phase>>
  BY <1>0 DEF TestLeft, Running, Top, LabelInv, GenTypes
<1>2. Node.right \in Nodes
  <2>1. Top.node \in Nodes
    BY <1>0, <1>1 DEF Calls, Top
  <2> QED BY <1>1, <2>1, Trees DEF Node, LabelInv, GenTypes, BinaryKinds
<1>3. /\ frames' \in Seq(Calls) /\ Len(frames') = x + 1
      /\ \A i \in 1..(x - 1) : frames'[i] = frames[i]
      /\ frames'[x].node = frames[x].node /\ frames'[x].step = 2
      /\ frames'[x].end = labelCount + 1 /\ frames'[x + 1].step = 0
  <2>1. 2 \in 0..2 /\ labelCount + 1 \in Nat /\ GenTypes
    BY <1>1 DEF LabelInv
  <2> QED BY <1>0, <1>1, <1>2, <2>1, Calling
<1>4. ~Awaits(x) /\ Awaits(x)' /\ ~Awaits(x + 1)'
  BY <1>0, <1>1, <1>3 DEF Awaits, Node, Top
<1>5. \A f \in 1..(x - 1) : Awaits(f)' <=> Awaits(f)
  BY <1>1, <1>3 DEF Awaits
<1>6. \A f \in 1..Len(frames) : Awaits(f) => f \in 1..(x - 1)
  BY <1>0, <1>1, <1>4
<1>7. \A f \in 1..Len(frames') : Awaits(f)' => f = x \/ f \in 1..(x - 1)
  BY <1>1, <1>3, <1>4
<1>8. \A f \in 1..(x - 1) : f \in 1..Len(frames) /\ f \in 1..Len(frames') /\ f # x
  BY <1>0, <1>1, <1>3
<1>9. x \in 1..Len(frames')
  BY <1>1, <1>3
<1>10. /\ w \in Seq(Instruction) /\ Unique(w)
       /\ \A n : Defines(w, n) => n = labelCount
       /\ \A n : Dangling(w, n) => n = e
  <2>1. /\ Node.kind \in LogicalKinds /\ labelCount \in Nat /\ e \in Nat
        /\ w = TestCode(Node.kind, labelCount, e)
    BY <1>0, <1>1
  <2> HIDE DEF w
  <2>2. w \in Seq(Instruction) /\ Unique(w)
    BY <2>1, TestText
  <2>3. \A n : Defines(w, n) => n = labelCount
    BY <2>1, TestText
  <2>4. \A n : Dangling(w, n) => n = e
    BY <2>1, TestText
  <2> QED BY <2>2, <2>3, <2>4
<1>11. code' = code \o w /\ code \in Seq(Instruction)
  BY DEF TestLeft, Write, LabelInv, GenTypes
<1> HIDE DEF w
<1>12. code' \in Seq(Instruction)
  BY <1>10, <1>11
<1>13. \A n : Defines(code', n) => Defines(code, n) \/ n = labelCount
  BY <1>10, <1>11, ConcatDefines
<1>14. \A n : Dangling(code', n) => Dangling(code, n) \/ n = e
  BY <1>10, <1>11, ConcatDangling
<1>15. Unique(code')
  <2>1. ~Defines(code, labelCount)
    BY <1>1 DEF LabelInv, FreshLabels
  <2> QED BY <1>10, <1>11, <2>1, ConcatUnique DEF LabelInv
<1>16. GenTypes'
  BY <1>1, <1>3, <1>12 DEF LabelInv, GenTypes, Calls, Nodes
<1>17. FreshLabels'
  BY <1>1, <1>13 DEF LabelInv, FreshLabels
<1>18. PendingOnce'
  <2>1. \A f \in 1..(x - 1) :
            Awaits(f) => frames[f].end < labelCount /\ ~Defines(code, frames[f].end)
                         /\ frames[f].end \in Nat
    <3>1. \A f \in 1..Len(frames) : frames[f] \in Calls
      BY DEF LabelInv, GenTypes
    <3> QED BY <1>8, <3>1 DEF LabelInv, PendingOnce, Calls
  <2>2. ~Defines(code, labelCount + 1)
    BY <1>1 DEF LabelInv, FreshLabels
  <2>3. ASSUME NEW f \in 1..Len(frames'), Awaits(f)'
        PROVE  frames'[f].end < labelCount' /\ ~Defines(code', frames'[f].end)
    <3>1. CASE f = x
      BY <1>1, <1>3, <1>13, <2>2, <3>1
    <3>2. CASE f \in 1..(x - 1)
      <4>1. frames'[f] = frames[f] /\ Awaits(f)
        BY <1>3, <1>5, <2>3, <3>2
      <4> QED BY <1>1, <1>13, <2>1, <3>2, <4>1
    <3> QED BY <1>7, <2>3, <3>1, <3>2
  <2>4. ASSUME NEW f \in 1..Len(frames'), Awaits(f)', NEW g \in 1..Len(frames'), Awaits(g)',
               frames'[g].end = frames'[f].end
        PROVE  f = g
    <3>1. \A h \in 1..(x - 1) :
              Awaits(h) => frames'[h].end # labelCount + 1 /\ frames'[h] = frames[h]
      BY <1>1, <1>3, <2>1
    <3>2. CASE f = x
      BY <1>3, <1>5, <1>7, <2>4, <3>1, <3>2
    <3>3. CASE g = x
      BY <1>3, <1>5, <1>7, <2>4, <3>1, <3>3
    <3>4. CASE f \in 1..(x - 1) /\ g \in 1..(x - 1)
      BY <1>5, <1>8, <2>4, <3>1, <3>4 DEF LabelInv, PendingOnce
    <3> QED BY <1>7, <2>4, <3>2, <3>3, <3>4
  <2> QED BY <2>3, <2>4 DEF PendingOnce
<1>19. JumpsPending'
  <2>1. Pending(e)'
    BY <1>0, <1>1, <1>3, <1>4, <1>9 DEF Pending
  <2>2. \A n : Pending(n) => Pending(n)'
    BY <1>3, <1>5, <1>6, <1>8 DEF Pending
  <2> QED BY <1>14, <2>1, <2>2 DEF LabelInv, JumpsPending
<1> QED BY <1>1, <1>15, <1>16, <1>17, <1>18, <1>19 DEF LabelInv, Phases

(* && or || writes the label it kept.                                      *)
LEMMA LogicalReturn == LabelInv /\ CodegenLogical => LabelInv'
<1> SUFFICES ASSUME LabelInv, CodegenLogical PROVE LabelInv'
  OBVIOUS
<1>0. PICK x, e : x = Len(frames) /\ e = Top.end
  OBVIOUS
<1> DEFINE w == LogicalCode(e)
<1>1. /\ frames # <<>> /\ phase = "body" /\ x \in Nat \ {0} /\ x \in 1..Len(frames)
      /\ frames[x] \in Calls /\ frames[x].end = e /\ e \in Nat /\ Awaits(x)
      /\ Return /\ UNCHANGED <<ast, labelCount, phase>>
  <2>1. frames # <<>> /\ phase = "body" /\ Node.kind \in LogicalKinds /\ Top.step = 2
        /\ Return /\ UNCHANGED <<ast, labelCount, phase>>
    BY DEF CodegenLogical, Running
  <2>2. x \in Nat \ {0} /\ x \in 1..Len(frames) /\ frames[x] \in Calls
    BY <1>0, <2>1 DEF LabelInv, GenTypes
  <2>3. frames[x].end = e /\ e \in Nat /\ Awaits(x)
    BY <1>0, <2>1, <2>2 DEF Top, Node, Awaits, Calls
  <2> QED BY <2>1, <2>2, <2>3
<1>2. /\ frames' \in Seq(Calls) /\ Len(frames') = x - 1
      /\ \A i \in 1..Len(frames') : i \in 1..Len(frames) /\ frames'[i] = frames[i]
  BY <1>0, <1>1, Returning DEF LabelInv, GenTypes, Return, Under
<1>3. \A f \in 1..Len(frames') : f # x /\ (Awaits(f)' <=> Awaits(f))
  BY <1>1, <1>2 DEF Awaits
<1>4. /\ w \in Seq(Instruction) /\ Unique(w)
      /\ \A n : Defines(w, n) <=> n = e
      /\ \A n : ~Dangling(w, n)
  <2> DEFINE head == <<Reg("pop", "rax"), Op("cmp_0")>>
             before == head \o Flag("setne")
             after == <<Reg("push", "rax")>>
             label == <<Num("label", e)>>
             pair == <<Num("label", e), Reg("push", "rax")>>
  <2>1. head \in Seq(Quiet) /\ after \in Seq(Quiet)
    <3>1. Reg("pop", "rax") \in Quiet /\ Op("cmp_0") \in Quiet /\ Reg("push", "rax") \in Quiet
      BY QuietInstructions DEF Silent, Operations, Branches, Registers
    <3> QED BY <3>1, Tuples
  <2>2. Flag("setne") \in Seq(Quiet)
    BY FlagQuiet DEF Silent, Operations, Branches
  <2>3. pair = label \o after
    <3>1. \A a, b \in {Num("label", e), Reg("push", "rax")} : <<a>> \o <<b>> = <<a, b>>
      BY Pair
    <3> QED BY <3>1
  <2> HIDE DEF head
  <2>4. before \in Seq(Quiet)
    BY <2>1, <2>2, Tuples
  <2> HIDE DEF before, after
  <2>5. label \in Seq(Instruction) /\ before \in Seq(Instruction) /\ after \in Seq(Instruction)
    <3>1. e \in Nat \cup {Main}
      BY <1>1
    <3>2. label \in Seq(Instruction)
      BY <3>1, JumpOrLabel
    <3> QED BY <2>1, <2>4, <3>2, QuietText
  <2>6. before \o pair = (before \o label) \o after
    <3> HIDE DEF label, pair
    <3> QED BY SMTT(30), <2>3, <2>5, ConcatAssociative
  <2>7. w = before \o pair
    BY DEF LogicalCode, before, head
  <2>8. /\ Unique(label)
        /\ \A n : (Defines(label, n) <=> n = e) /\ ~Dangling(label, n)
    <3>1. e \in Nat \cup {Main}
      BY <1>1
    <3> QED BY <3>1, JumpOrLabel
  <2>9. /\ Unique(before) /\ Unique(after)
        /\ \A n : /\ ~Defines(before, n) /\ ~Defines(after, n)
                  /\ ~Dangling(before, n) /\ ~Dangling(after, n)
    BY <2>1, <2>4, QuietText
  <2> DEFINE start == before \o label
  <2> HIDE DEF w, label, pair
  <2>10. start \in Seq(Instruction) /\ Unique(start)
    BY <2>5, <2>8, <2>9, ConcatUnique
  <2>11. \A n : Defines(start, n) <=> n = e
    BY <2>5, <2>8, <2>9, ConcatDefines
  <2>12. \A n : ~Dangling(start, n)
    BY <2>5, <2>8, <2>9, ConcatDangling
  <2>13. w = start \o after
    BY <2>6, <2>7
  <2> HIDE DEF start
  <2>14. w \in Seq(Instruction) /\ Unique(w)
    BY <2>5, <2>9, <2>10, <2>13, ConcatUnique
  <2>15. \A n : Defines(w, n) <=> n = e
    BY <2>5, <2>9, <2>10, <2>11, <2>13, ConcatDefines
  <2>16. \A n : ~Dangling(w, n)
    BY <2>5, <2>9, <2>10, <2>12, <2>13, ConcatDangling
  <2> QED BY <2>14, <2>15, <2>16
<1>5. code' = code \o w /\ code \in Seq(Instruction)
  BY <1>0 DEF CodegenLogical, Write, LabelInv, GenTypes
<1> HIDE DEF w
<1>6. code' \in Seq(Instruction)
  BY <1>4, <1>5
<1>7. \A n : Defines(code', n) <=> Defines(code, n) \/ n = e
  BY <1>4, <1>5, ConcatDefines
<1>8. \A n : Dangling(code', n) => Dangling(code, n) /\ n # e
  BY <1>4, <1>5, ConcatDangling
<1>9. /\ e < labelCount /\ ~Defines(code, e)
      /\ \A g \in 1..Len(frames) : Awaits(g) /\ frames[g].end = e => g = x
  BY <1>1 DEF LabelInv, PendingOnce
<1>10. Unique(code')
  BY <1>4, <1>5, <1>9, ConcatUnique DEF LabelInv
<1>11. GenTypes'
  BY <1>1, <1>2, <1>6 DEF LabelInv, GenTypes, Calls, Nodes
<1>12. FreshLabels'
  BY <1>1, <1>7, <1>9 DEF LabelInv, FreshLabels
<1>13. PendingOnce'
  BY <1>1, <1>2, <1>3, <1>7, <1>9 DEF LabelInv, PendingOnce
<1>14. \A n : Pending(n) /\ n # e => Pending(n)'
  <2>1. \A f \in 1..Len(frames) : f = x \/ f \in 1..Len(frames')
    BY <1>0, <1>1, <1>2
  <2> QED BY <1>1, <1>2, <1>3, <2>1 DEF Pending
<1>15. JumpsPending'
  BY <1>8, <1>14 DEF LabelInv, JumpsPending
<1> QED BY <1>1, <1>10, <1>11, <1>12, <1>13, <1>15 DEF LabelInv, Phases

LEMMA LabelNext == LabelInv /\ [Next]_vars => LabelInv'
<1> SUFFICES ASSUME LabelInv, [Next]_vars PROVE LabelInv'
  OBVIOUS
<1>1. CASE Open
  <2> DEFINE w == Header \o <<Num("label", Main)>>
  <2>1. /\ code = <<>> /\ frames' = <<Frame(Len(ast))>> /\ phase' = "body"
        /\ UNCHANGED <<ast, labelCount>>
        /\ code' = <<>> \o w
    BY <1>1 DEF Open, LabelInv, Phases, Write
  <2>2. Len(ast) \in Nodes
    BY Trees DEF LabelInv, GenTypes
  <2>3. /\ frames' \in Seq(Calls) /\ Len(frames') = 1 /\ frames'[1].step = 0
    <3>1. Frame(Len(ast)) \in Calls /\ Frame(Len(ast)).step = 0
      BY <2>2 DEF Frame, Calls
    <3> QED BY <2>1, <3>1
  <2>4. /\ w \in Seq(Instruction) /\ Unique(w)
        /\ \A n : Defines(w, n) <=> n = Main
        /\ \A n : ~Dangling(w, n)
    <3> DEFINE call == <<Num("call", Main)>>
               rest == <<Op("mov_rdi"), Op("exit")>>
               label == <<Num("label", Main)>>
    <3>1. rest \in Seq(Quiet)
      <4>1. Op("mov_rdi") \in Quiet /\ Op("exit") \in Quiet
        BY QuietInstructions DEF Silent, Operations, Branches
      <4> QED BY <4>1, Tuples
    <3>2. /\ call \in Seq(Instruction) /\ Unique(call)
          /\ \A n : ~Defines(call, n) /\ (Dangling(call, n) => n = Main)
      BY JumpOrLabel DEF Branches
    <3>3. /\ label \in Seq(Instruction) /\ Unique(label)
          /\ \A n : (Defines(label, n) <=> n = Main) /\ ~Dangling(label, n)
      BY JumpOrLabel
    <3>4. Header = call \o rest
      <4>1. \A a, b, c \in {Num("call", Main), Op("mov_rdi"), Op("exit")} :
                <<a>> \o <<b, c>> = <<a, b, c>>
        BY ConcatThree
      <4> QED BY <4>1 DEF Header
    <3> HIDE DEF call, rest, label
    <3>5. /\ call \o rest \in Seq(Instruction) /\ Unique(call \o rest)
          /\ \A n : ~Defines(call \o rest, n) /\ (Dangling(call \o rest, n) => n = Main)
      <4>1. rest \in Seq(Instruction) /\ Unique(rest)
            /\ \A n : ~Defines(rest, n) /\ ~Dangling(rest, n)
        BY <3>1, QuietText
      <4>2. call \o rest \in Seq(Instruction) /\ Unique(call \o rest)
        BY <3>2, <4>1, ConcatUnique
      <4>3. \A n : ~Defines(call \o rest, n)
        BY <3>2, <4>1, ConcatDefines
      <4>4. \A n : Dangling(call \o rest, n) => n = Main
        BY <3>2, <4>1, ConcatDangling
      <4> QED BY <4>2, <4>3, <4>4
    <3>6. Header \in Seq(Instruction) /\ Unique(Header)
          /\ \A n : ~Defines(Header, n) /\ (Dangling(Header, n) => n = Main)
      BY <3>4, <3>5
    <3>7. Header \o label \in Seq(Instruction) /\ Unique(Header \o label)
      BY <3>3, <3>6, ConcatUnique
    <3>8. \A n : Defines(Header \o label, n) <=> n = Main
      BY <3>3, <3>6, ConcatDefines
    <3>9. \A n : ~Dangling(Header \o label, n)
      BY <3>3, <3>6, ConcatDangling
    <3> QED BY <3>7, <3>8, <3>9 DEF label
  <2>5. code' = w
    <3> HIDE DEF w
    <3> QED BY <2>1, <2>4
  <2> HIDE DEF w
  <2>6. GenTypes'
    BY <2>1, <2>3, <2>4, <2>5 DEF LabelInv, GenTypes, Calls, Nodes
  <2>7. FreshLabels' /\ JumpsPending'
    BY <2>4, <2>5 DEF FreshLabels, JumpsPending, Main
  <2>8. \A f \in 1..Len(frames') : f = 1 /\ ~Awaits(f)'
    BY <2>3 DEF Awaits
  <2>9. PendingOnce'
    BY <2>8 DEF PendingOnce
  <2> QED BY <2>1, <2>4, <2>5, <2>6, <2>7, <2>9 DEF LabelInv, Phases
<1>2. CASE OpenFails
  <2>1. UNCHANGED <<ast, code, labelCount, frames>> /\ phase' = "crashed" /\ frames = <<>>
    BY <1>2 DEF OpenFails, LabelInv, Phases
  <2>2. PendingOnce' /\ JumpsPending'
    BY <2>1 DEF LabelInv, PendingOnce, JumpsPending, Pending, Awaits
  <2> QED BY <2>1, <2>2 DEF LabelInv, GenTypes, FreshLabels, Phases, Calls, Nodes
<1>3. CASE Finish
  <2> DEFINE w == <<Reg("pop", "rax"), Op("ret")>>
  <2>1. w \in Seq(Quiet)
    <3>1. Reg("pop", "rax") \in Quiet /\ Op("ret") \in Quiet
      BY QuietInstructions DEF Silent, Operations, Branches, Registers
    <3> QED BY <3>1, Tuples
  <2>2. /\ UNCHANGED <<ast, labelCount, frames>> /\ phase' = "done" /\ frames = <<>>
        /\ code' = code \o w /\ code \in Seq(Instruction)
    BY <1>3 DEF Finish, Write, LabelInv, GenTypes
  <2> HIDE DEF w
  <2>3. w \in Seq(Instruction)
    BY <2>1, QuietText
  <2>4. \A n : Defines(code', n) <=> Defines(code, n)
    BY <2>1, <2>2, <2>3, ConcatDefines, QuietText
  <2>5. \A n : Dangling(code', n) => Dangling(code, n)
    BY <2>1, <2>2, <2>3, ConcatDangling, QuietText
  <2>6. Unique(code')
    BY <2>1, <2>2, <2>3, ConcatUnique, QuietText DEF LabelInv
  <2>7. GenTypes' /\ FreshLabels'
    BY <2>2, <2>3, <2>4 DEF LabelInv, GenTypes, FreshLabels, Calls, Nodes
  <2>8. PendingOnce' /\ JumpsPending'
    BY <2>2, <2>4, <2>5 DEF LabelInv, PendingOnce, JumpsPending, Pending, Awaits
  <2> QED BY <2>2, <2>6, <2>7, <2>8 DEF LabelInv, Phases
<1>4. CASE CodegenConstant
  <2>1. /\ phase = "body" /\ frames # <<>> /\ Node.kind = "CONSTANT"
        /\ Write(<<Num("push_imm", Node.number)>>) /\ Return
        /\ UNCHANGED <<ast, labelCount, phase>>
    BY <1>4 DEF CodegenConstant, Running
  <2>2. Node.number \in Nat /\ ~Awaits(Len(frames))
    BY <2>1, Trees, TopNode, Kinds DEF Node, Top, Awaits, LabelInv, BinaryKinds, GenTypes
  <2>3. <<Num("push_imm", Node.number)>> \in Seq(Quiet)
    <3>1. Num("push_imm", Node.number) \in Quiet
      BY <2>2, QuietInstructions DEF Silent, Operations, Branches
    <3> QED BY <3>1, Tuples
  <2> QED BY <2>1, <2>2, <2>3, QuietReturn
<1>5. CASE CallLeft
  <2>1. /\ phase = "body" /\ frames # <<>> /\ Node.kind \in BinaryKinds /\ Top.step = 0
        /\ Call(1, 0, Node.left) /\ UNCHANGED <<ast, code, labelCount, phase>>
    BY <1>5 DEF CallLeft, Running
  <2>2. Node.left \in Nodes
    BY <2>1, Trees, TopNode DEF Node, LabelInv, GenTypes
  <2> QED BY <2>1, <2>2, QuietCall
<1>6. CASE CallRight
  <2>1. /\ phase = "body" /\ frames # <<>> /\ Node.kind \in UnaryKinds \cup PlainKinds
        /\ Call(2, 0, Node.right) /\ UNCHANGED <<ast, code, labelCount, phase>>
    BY <1>6 DEF CallRight, Running
  <2>2. Node.right \in Nodes /\ Node.kind \notin LogicalKinds
    BY <2>1, Trees, TopNode, Kinds DEF Node, LabelInv, GenTypes, BinaryKinds
  <2> QED BY <2>1, <2>2, QuietCall
<1>7. CASE TestLeft
  BY <1>7, LogicalCall
<1>8. CASE CodegenUnary
  <2>1. /\ phase = "body" /\ frames # <<>> /\ Node.kind \in UnaryKinds
        /\ Write(UnaryCode(Node.kind)) /\ Return /\ UNCHANGED <<ast, labelCount, phase>>
    BY <1>8 DEF CodegenUnary, Running
  <2>2. ~Awaits(Len(frames))
    BY <2>1, Kinds DEF Node, Top, Awaits, BinaryKinds
  <2> QED BY <2>1, <2>2, UnaryQuiet, QuietReturn
<1>9. CASE CodegenPlain
  <2>1. /\ phase = "body" /\ frames # <<>> /\ Node.kind \in PlainKinds
        /\ Write(PlainCode(Node.kind)) /\ Return /\ UNCHANGED <<ast, labelCount, phase>>
    BY <1>9 DEF CodegenPlain, Running
  <2>2. ~Awaits(Len(frames))
    BY <2>1, Kinds DEF Node, Top, Awaits
  <2> QED BY <2>1, <2>2, PlainQuiet, QuietReturn
<1>10. CASE CodegenLogical
  BY <1>10, LogicalReturn
<1>11. CASE UNCHANGED vars
  BY <1>11 DEF vars, LabelInv, GenTypes, FreshLabels, PendingOnce, JumpsPending, Pending,
               Awaits, Phases, Calls, Nodes
<1> QED BY <1>1, <1>2, <1>3, <1>4, <1>5, <1>6, <1>7, <1>8, <1>9, <1>10, <1>11
        DEF Next, Generate, Terminating

LEMMA LabelInvariant == Spec => []LabelInv
BY LabelInit, LabelNext, PTL DEF Spec
----------------------------------------------------------------------------
(* The instructions written are instructions, the labels counted numbers,  *)
(* and the calls that run stand at nodes of the tree.                      *)
THEOREM CodegenTypeOK == Spec => []TypeOK
<1>1. LabelInv => TypeOK
  <2> SUFFICES ASSUME LabelInv PROVE TypeOK
    OBVIOUS
  <2>1. ast # <<>>
    BY ProgramsAssumption DEF LabelInv, GenTypes
  <2>2. \A i \in 1..Len(code) : code[i] \in Instruction
    BY DEF LabelInv, GenTypes
  <2>3. \A i \in 1..Len(frames) : frames[i] \in Calls
    BY DEF LabelInv, GenTypes
  <2>4. \A i \in 1..Len(code) :
            /\ code[i].op \in Operations /\ code[i].reg \in Registers
            /\ code[i].n \in Nat \cup {Main}
    BY <2>2 DEF Instruction
  <2>5. \A i \in 1..Len(frames) :
            /\ frames[i].node \in 1..Len(ast) /\ frames[i].step \in 0..2
            /\ frames[i].end \in Nat
    BY <2>3 DEF Calls, Nodes
  <2> QED BY <2>1, <2>4, <2>5 DEF TypeOK, LabelInv, GenTypes
<1> QED BY <1>1, LabelInvariant, PTL

(* No label is defined twice, for every expression tree.                   *)
THEOREM CodegenLabels == Spec => []LabelsUnique
<1>1. LabelInv => LabelsUnique
  BY DEF LabelInv, Unique, LabelsUnique, IsLabel
<1> QED BY <1>1, LabelInvariant, PTL

(* Every jump of a finished program goes forward to a label of it.         *)
THEOREM CodegenJumps == Spec => []JumpsGoForward
<1>1. LabelInv => JumpsGoForward
  <2> SUFFICES ASSUME LabelInv, phase = "done", NEW i \in 1..Len(code), IsJump(i)
               PROVE  \E j \in (i + 1)..Len(code) : IsLabel(j) /\ code[j].n = code[i].n
    BY DEF JumpsGoForward
  <2>1. code[i] \in Instruction
    BY DEF LabelInv, GenTypes
  <2>2. code[i].n \in Nat \cup {Main}
    BY <2>1 DEF Instruction
  <2>3. ~Pending(code[i].n)
    BY DEF Pending, LabelInv, Phases
  <2>4. ~Dangling(code, code[i].n)
    BY <2>2, <2>3 DEF LabelInv, JumpsPending
  <2> QED BY <2>4 DEF Dangling, IsJump, IsLabel
<1> QED BY <1>1, LabelInvariant, PTL
----------------------------------------------------------------------------
(* The depth of the stack along a text: pushes less pops before place k.   *)
Pushes == {"push", "push_imm"}
Count(w, a, k, ops) == Cardinality({j \in a..(k - 1) : w[j].op \in ops})
Gain(w, a, k) == Count(w, a, k, Pushes) - Count(w, a, k, {"pop"})
Total(w) == Gain(w, 1, Len(w) + 1)
Mark(x) == x.op \in Branches \cup {"label"}

(* A text changes the depth by `total`, and has its jumps and labels where *)
(* the change so far is g.                                                 *)
Turns(w, total, g) ==
    /\ w \in Seq(Instruction)
    /\ Total(w) = total
    /\ \A i \in 1..Len(w) : Mark(w[i]) => Gain(w, 1, i) = g

LEMMA CountFinite ==
    ASSUME NEW w, NEW a \in Int, NEW k \in Int, NEW ops
    PROVE  IsFiniteSet({j \in a..(k - 1) : w[j].op \in ops}) /\ Count(w, a, k, ops) \in Nat
<1>1. IsFiniteSet(a..(k - 1))
  BY FS_Interval
<1>2. {j \in a..(k - 1) : w[j].op \in ops} \in SUBSET (a..(k - 1))
  OBVIOUS
<1>3. IsFiniteSet({j \in a..(k - 1) : w[j].op \in ops})
  BY <1>1, <1>2, FS_Subset
<1> QED BY <1>3, FS_CardinalityType DEF Count

(* What is written behind a text does not change the counts in it, and is  *)
(* counted on from there.                                                  *)
LEMMA CountBefore ==
    ASSUME NEW c \in Seq(Instruction), NEW w \in Seq(Instruction), NEW ops,
           NEW a \in Nat \ {0}, NEW k \in 1..(Len(c) + 1)
    PROVE  Count(c \o w, a, k, ops) = Count(c, a, k, ops)
<1> DEFINE d == c \o w
<1>1. Len(c) \in Nat /\ \A i \in 1..Len(c) : d[i] = c[i]
  BY Concat
<1> HIDE DEF d
<1>2. \A j \in a..(k - 1) : j \in 1..Len(c)
  BY <1>1
<1>3. {j \in a..(k - 1) : d[j].op \in ops} = {j \in a..(k - 1) : c[j].op \in ops}
  BY <1>1, <1>2
<1> QED BY <1>3 DEF Count, d

LEMMA CountConcat ==
    ASSUME NEW c \in Seq(Instruction), NEW w \in Seq(Instruction), NEW ops,
           NEW a \in Nat \ {0}
    PROVE  a <= Len(c) + 1 =>
               \A k \in 1..(Len(w) + 1) :
                   Count(c \o w, a, Len(c) + k, ops)
                   = Count(c, a, Len(c) + 1, ops) + Count(w, 1, k, ops)
<1> DEFINE d == c \o w
<1>1. /\ Len(c) \in Nat /\ Len(w) \in Nat
      /\ \A i \in 1..Len(c) : d[i] = c[i]
      /\ \A i \in 1..Len(w) : d[Len(c) + i] = w[i]
  BY Concat
<1> HIDE DEF d
<1>3. ASSUME a <= Len(c) + 1, NEW k \in 1..(Len(w) + 1)
      PROVE  Count(d, a, Len(c) + k, ops) = Count(c, a, Len(c) + 1, ops) + Count(w, 1, k, ops)
  <2> DEFINE X == {j \in a..(Len(c) + k - 1) : d[j].op \in ops}
             Y == {j \in a..(Len(c) + 1 - 1) : d[j].op \in ops}
             Z == {j \in 1..(k - 1) : w[j].op \in ops}
             T == {j \in (Len(c) + 1)..(Len(c) + k - 1) : d[j].op \in ops}
             f == [j \in Z |-> Len(c) + j]
  <2> DEFINE e == Len(c) + 1
  <2>0. e \in Int /\ a \in Int /\ k \in Int /\ 1 \in Int
    BY <1>1
  <2>1. /\ IsFiniteSet(Y) /\ Cardinality(Y) = Count(d, a, Len(c) + 1, ops)
        /\ Cardinality(Y) \in Nat
    <3>1. IsFiniteSet({j \in a..(e - 1) : d[j].op \in ops}) /\ Count(d, a, e, ops) \in Nat
      <4> HIDE DEF e
      <4> QED BY <2>0, CountFinite
    <3> QED BY <3>1 DEF Count
  <2>2. IsFiniteSet(Z) /\ Cardinality(Z) = Count(w, 1, k, ops) /\ Cardinality(Z) \in Nat
    <3>1. IsFiniteSet({j \in 1..(k - 1) : w[j].op \in ops}) /\ Count(w, 1, k, ops) \in Nat
      BY <2>0, CountFinite
    <3> QED BY <3>1 DEF Count
  <2>3. Cardinality(X) = Count(d, a, Len(c) + k, ops)
    BY DEF Count
  <2>4. X = Y \cup T /\ Y \cap T = {}
    <3>1. \A j \in Int : j \in a..(Len(c) + k - 1)
              <=> j \in a..(Len(c) + 1 - 1) \/ j \in (Len(c) + 1)..(Len(c) + k - 1)
      BY <1>1, <1>3
    <3>2. \A j \in Int : ~(j \in a..(Len(c) + 1 - 1) /\ j \in (Len(c) + 1)..(Len(c) + k - 1))
      BY <1>1
    <3> QED BY <3>1, <3>2
  <2>5. \A j \in Z : Len(c) + j \in T
    <3>1. \A j \in 1..(k - 1) : /\ j \in 1..Len(w)
                                /\ Len(c) + j \in (Len(c) + 1)..(Len(c) + k - 1)
      BY <1>1
    <3> QED BY <1>1, <3>1
  <2>6. \A j \in T : j - Len(c) \in Z /\ Len(c) + (j - Len(c)) = j
    <3>1. \A j \in (Len(c) + 1)..(Len(c) + k - 1) :
              /\ j - Len(c) \in 1..(k - 1) /\ j - Len(c) \in 1..Len(w)
              /\ Len(c) + (j - Len(c)) = j
      BY <1>1
    <3> QED BY <1>1, <3>1
  <2>7. f \in Bijection(Z, T)
    <3>1. \A j \in Z : j \in Int
      OBVIOUS
    <3>2. f \in [Z -> T]
      BY <2>5
    <3>3. \A i, j \in Z : f[i] = f[j] => i = j
      BY <1>1, <3>1
    <3>4. \A j \in T : \E i \in Z : f[i] = j
      BY <2>6
    <3> HIDE DEF f, Z, T
    <3>5. f \in Injection(Z, T)
      BY <3>2, <3>3 DEF Injection, IsInjective
    <3>6. f \in Surjection(Z, T)
      BY <3>2, <3>4 DEF Surjection
    <3> QED BY <3>5, <3>6 DEF Bijection
  <2> HIDE DEF X, Y, Z, T, f
  <2>8. IsFiniteSet(T) /\ Cardinality(T) = Cardinality(Z)
    BY <2>2, <2>7, FS_Bijection DEF ExistsBijection
  <2>9. Cardinality(X) = Cardinality(Y) + Cardinality(Z)
    <3>1. Cardinality(Y \cup T) = Cardinality(Y) + Cardinality(T) - Cardinality(Y \cap T)
      BY <2>1, <2>8, FS_Union
    <3>2. Cardinality(Y \cap T) = 0
      BY <2>4, FS_EmptySet
    <3> QED BY <2>1, <2>2, <2>4, <2>8, <3>1, <3>2
  <2>10. Count(d, a, Len(c) + 1, ops) = Count(c, a, Len(c) + 1, ops)
    <3>1. e \in 1..(Len(c) + 1)
      BY <1>1
    <3> HIDE DEF e
    <3>2. Count(d, a, e, ops) = Count(c, a, e, ops)
      BY <3>1, CountBefore DEF d
    <3> QED BY <3>2 DEF e
  <2> QED BY <2>1, <2>2, <2>3, <2>9, <2>10
<1> QED BY <1>3 DEF d

LEMMA GainConcat ==
    ASSUME NEW c \in Seq(Instruction), NEW w \in Seq(Instruction), NEW a \in Nat \ {0}
    PROVE  /\ \A k \in 1..(Len(c) + 1) : Gain(c \o w, a, k) = Gain(c, a, k)
           /\ a <= Len(c) + 1 =>
                  \A k \in 1..(Len(w) + 1) :
                      Gain(c \o w, a, Len(c) + k) = Gain(c, a, Len(c) + 1) + Gain(w, 1, k)
           /\ \A k \in Int : Gain(c, a, k) \in Int
<1>1. Len(c) \in Nat /\ Len(w) \in Nat
  OBVIOUS
<1>2. ASSUME NEW v, NEW b \in Int, NEW k \in Int
      PROVE  Count(v, b, k, Pushes) \in Nat /\ Count(v, b, k, {"pop"}) \in Nat
  BY CountFinite
<1>3. ASSUME a <= Len(c) + 1, NEW k \in 1..(Len(w) + 1)
      PROVE  Gain(c \o w, a, Len(c) + k) = Gain(c, a, Len(c) + 1) + Gain(w, 1, k)
  <2>1. ASSUME NEW ops
        PROVE  Count(c \o w, a, Len(c) + k, ops)
               = Count(c, a, Len(c) + 1, ops) + Count(w, 1, k, ops)
    BY <1>3, CountConcat
  <2>2. Len(c) + 1 \in Int /\ k \in Int /\ a \in Int /\ 1 \in Int
    BY <1>1
  <2>3. /\ Count(c, a, Len(c) + 1, Pushes) \in Nat /\ Count(c, a, Len(c) + 1, {"pop"}) \in Nat
        /\ Count(w, 1, k, Pushes) \in Nat /\ Count(w, 1, k, {"pop"}) \in Nat
    BY <1>2, <2>2
  <2>4. /\ Count(c \o w, a, Len(c) + k, Pushes)
           = Count(c, a, Len(c) + 1, Pushes) + Count(w, 1, k, Pushes)
        /\ Count(c \o w, a, Len(c) + k, {"pop"})
           = Count(c, a, Len(c) + 1, {"pop"}) + Count(w, 1, k, {"pop"})
    BY <2>1
  <2> QED BY <2>3, <2>4 DEF Gain
<1>4. ASSUME NEW k \in 1..(Len(c) + 1) PROVE Gain(c \o w, a, k) = Gain(c, a, k)
  <2>1. ASSUME NEW ops PROVE Count(c \o w, a, k, ops) = Count(c, a, k, ops)
    BY CountBefore
  <2> QED BY <2>1 DEF Gain
<1>5. ASSUME NEW k \in Int PROVE Gain(c, a, k) \in Int
  BY <1>2 DEF Gain
<1> QED BY <1>3, <1>4, <1>5

LEMMA TurnsConcat ==
    ASSUME NEW t \in Int, NEW u \in Int, NEW g \in Int, NEW v, NEW w,
           Turns(v, t, g), Turns(w, u, g - t)
    PROVE  Turns(v \o w, t + u, g)
<1> DEFINE d == v \o w
<1>1. /\ v \in Seq(Instruction) /\ w \in Seq(Instruction) /\ d \in Seq(Instruction)
      /\ Len(v) \in Nat /\ Len(w) \in Nat /\ Len(d) = Len(v) + Len(w)
      /\ \A i \in 1..Len(v) : d[i] = v[i]
      /\ \A i \in (Len(v) + 1)..(Len(v) + Len(w)) :
             i - Len(v) \in 1..Len(w) /\ d[i] = w[i - Len(v)]
  BY Concat DEF Turns
<1>2. /\ \A k \in 1..(Len(v) + 1) : Gain(d, 1, k) = Gain(v, 1, k)
      /\ \A k \in 1..(Len(w) + 1) : Gain(d, 1, Len(v) + k) = t + Gain(w, 1, k)
  <2>1. 1 <= Len(v) + 1
    BY <1>1
  <2>2. Gain(v, 1, Len(v) + 1) = t
    BY DEF Turns, Total
  <2>3. 1 \in Nat \ {0}
    OBVIOUS
  <2> QED BY ZenonT(40), <1>1, <2>1, <2>2, <2>3, GainConcat
<1> HIDE DEF d
<1>3. Total(d) = t + u
  <2>1. Len(w) + 1 \in 1..(Len(w) + 1) /\ Len(v) + (Len(w) + 1) = Len(d) + 1
    BY <1>1
  <2>2. Gain(d, 1, Len(v) + (Len(w) + 1)) = t + Gain(w, 1, Len(w) + 1)
    BY <1>2, <2>1
  <2> QED BY <2>1, <2>2 DEF Turns, Total
<1>4. ASSUME NEW i \in 1..Len(d), Mark(d[i]) PROVE Gain(d, 1, i) = g
  <2>1. CASE i \in 1..Len(v)
    <3>1. i \in 1..(Len(v) + 1)
      BY <1>1, <2>1
    <3> QED BY <1>1, <1>2, <1>4, <2>1, <3>1 DEF Turns
  <2>2. CASE i \in (Len(v) + 1)..(Len(v) + Len(w))
    <3>1. /\ i - Len(v) \in 1..(Len(w) + 1) /\ Len(v) + (i - Len(v)) = i
          /\ i - Len(v) \in 1..Len(w) /\ d[i] = w[i - Len(v)]
      BY <1>1, <2>2
    <3>2. Gain(d, 1, Len(v) + (i - Len(v))) = t + Gain(w, 1, i - Len(v))
      BY <1>2, <3>1
    <3>3. Gain(w, 1, i - Len(v)) = g - t
      BY <1>4, <3>1 DEF Turns
    <3> QED BY <3>1, <3>2, <3>3
  <2> QED BY <1>1, <2>1, <2>2
<1> QED BY <1>1, <1>3, <1>4 DEF Turns, d

Effect(x) == IF x.op \in Pushes THEN 1 ELSE IF x.op = "pop" THEN -1 ELSE 0
LEMMA TurnsOne ==
    ASSUME NEW x \in Instruction, NEW g \in Int, Mark(x) => g = 0
    PROVE  Turns(<<x>>, Effect(x), g)
<1> DEFINE w == <<x>>
<1>1. w \in Seq(Instruction) /\ Len(w) = 1 /\ w[1] = x
  OBVIOUS
<1> HIDE DEF w
<1>2. \A ops : Count(w, 1, 1, ops) = 0
  <2>1. \A ops : {j \in 1..(1 - 1) : w[j].op \in ops} = {}
    OBVIOUS
  <2> QED BY <2>1, FS_EmptySet DEF Count
<1>3. \A ops : Count(w, 1, 2, ops) = IF x.op \in ops THEN 1 ELSE 0
  <2>1. ASSUME NEW ops, x.op \in ops PROVE Count(w, 1, 2, ops) = 1
    <3>1. {j \in 1..(2 - 1) : w[j].op \in ops} = {1}
      BY <1>1, <2>1
    <3> QED BY <3>1, FS_Singleton DEF Count
  <2>2. ASSUME NEW ops, x.op \notin ops PROVE Count(w, 1, 2, ops) = 0
    <3>1. {j \in 1..(2 - 1) : w[j].op \in ops} = {}
      BY <1>1, <2>2
    <3> QED BY <3>1, FS_EmptySet DEF Count
  <2> QED BY <2>1, <2>2
<1>4. Gain(w, 1, 1) = 0 /\ Gain(w, 1, 2) = Effect(x)
  <2>1. x.op \in Pushes => x.op # "pop"
    BY DEF Pushes
  <2>2. Gain(w, 1, 1) = 0
    BY <1>2 DEF Gain
  <2>3. Gain(w, 1, 2) = Effect(x)
    BY <1>3, <2>1 DEF Gain, Effect
  <2> QED BY <2>2, <2>3
<1>5. \A i \in 1..Len(w) : i = 1
  BY <1>1
<1>6. Total(w) = Effect(x)
  BY <1>1, <1>4 DEF Total
<1> QED BY <1>1, <1>4, <1>5, <1>6 DEF Turns, w

(* Instructions without a label; those among them that leave the stack.    *)
Steady == Silent \ (Pushes \cup {"pop"})

LEMMA QuietTurns ==
    /\ \A x \in Quiet, g \in Int : Turns(<<x>>, Effect(x), g) /\ Effect(x) \in Int
    /\ \A x, y \in Quiet, g \in Int : Turns(<<x, y>>, Effect(x) + Effect(y), g)
    /\ \A x, y, z \in Quiet, g \in Int :
           Turns(<<x, y, z>>, Effect(x) + (Effect(y) + Effect(z)), g)
<1>1. ASSUME NEW x \in Quiet, NEW g \in Int
      PROVE  Turns(<<x>>, Effect(x), g) /\ Effect(x) \in Int
  <2>1. x \in Instruction /\ ~Mark(x)
    BY DEF Quiet, Mark
  <2> QED BY <2>1, TurnsOne DEF Effect
<1>2. ASSUME NEW x \in Quiet, NEW y \in Quiet, NEW g \in Int
      PROVE  Turns(<<x, y>>, Effect(x) + Effect(y), g)
  <2>1. <<x>> \o <<y>> = <<x, y>>
    BY Pair
  <2>2. /\ Effect(x) \in Int /\ Effect(y) \in Int /\ g - Effect(x) \in Int
        /\ Turns(<<x>>, Effect(x), g) /\ Turns(<<y>>, Effect(y), g - Effect(x))
    BY <1>1
  <2> QED BY <2>1, <2>2, TurnsConcat
<1>3. ASSUME NEW x \in Quiet, NEW y \in Quiet, NEW z \in Quiet, NEW g \in Int
      PROVE  Turns(<<x, y, z>>, Effect(x) + (Effect(y) + Effect(z)), g)
  <2>1. <<x>> \o <<y, z>> = <<x, y, z>>
    BY ConcatThree
  <2>2. Effect(x) \in Int /\ Effect(y) \in Int /\ Effect(z) \in Int /\ Turns(<<x>>, Effect(x), g)
    BY <1>1
  <2>3. Effect(y) + Effect(z) \in Int /\ g - Effect(x) \in Int
    BY <2>2
  <2>4. Turns(<<y, z>>, Effect(y) + Effect(z), g - Effect(x))
    BY <1>2, <2>3
  <2> QED BY <2>1, <2>2, <2>3, <2>4, TurnsConcat
<1> QED BY <1>1, <1>2, <1>3

LEMMA PairTurns ==
    ASSUME NEW x \in Quiet, NEW y \in Quiet, NEW a \in Int, NEW b \in Int, NEW g \in Int,
           Effect(x) = a, Effect(y) = b
    PROVE  Turns(<<x, y>>, a + b, g)
BY QuietTurns

LEMMA SingleTurns ==
    ASSUME NEW x \in Quiet, NEW a \in Int, NEW g \in Int, Effect(x) = a
    PROVE  Turns(<<x>>, a, g)
BY QuietTurns

(* What the instructions used below do to the stack.                       *)
LEMMA Effects ==
    /\ \A r \in Registers : /\ Reg("pop", r) \in Quiet /\ Effect(Reg("pop", r)) = -1
                              /\ Reg("push", r) \in Quiet /\ Effect(Reg("push", r)) = 1
    /\ \A op \in Steady : Op(op) \in Quiet /\ Effect(Op(op)) = 0
    /\ \A n \in Nat : Num("push_imm", n) \in Quiet /\ Effect(Num("push_imm", n)) = 1
<1>1. \A r \in Registers : Reg("pop", r) \in Quiet /\ Reg("push", r) \in Quiet
  BY QuietInstructions DEF Silent, Operations, Branches
<1>2. \A r \in Registers : Effect(Reg("pop", r)) = -1 /\ Effect(Reg("push", r)) = 1
  BY DEF Effect, Reg, Pushes
<1>3. ASSUME NEW op \in Steady PROVE Op(op) \in Quiet /\ Effect(Op(op)) = 0
  <2>1. op \in Silent /\ op \notin Pushes /\ op # "pop"
    BY DEF Steady
  <2>2. Op(op) \in Quiet
    BY <2>1, QuietInstructions
  <2>3. Op(op).op = op
    BY DEF Op, Num
  <2> QED BY <2>1, <2>2, <2>3 DEF Effect
<1>4. \A n \in Nat : Num("push_imm", n) \in Quiet
  BY QuietInstructions DEF Silent, Operations, Branches
<1>5. \A n \in Nat : Effect(Num("push_imm", n)) = 1
  BY DEF Effect, Num, Pushes
<1> QED BY <1>1, <1>2, <1>3, <1>4, <1>5

LEMMA SteadyOps ==
    /\ {"neg", "not", "add", "sub", "imul", "and", "xor", "or", "shl", "sar", "cqo", "idiv",
        "cmp_0", "cmp_rdi", "movzx", "mov_1", "ret",
        "setl", "setle", "setg", "setge", "sete", "setne"} \subseteq Steady
    /\ \A k \in DOMAIN Arithmetic : Arithmetic[k] \in Steady
    /\ \A k \in DOMAIN Shift : Shift[k] \in Steady
    /\ \A k \in DOMAIN Condition : Condition[k] \in Steady
<1>1. {"neg", "not", "add", "sub", "imul", "and", "xor", "or", "shl", "sar", "cqo", "idiv",
       "cmp_0", "cmp_rdi", "movzx", "mov_1", "ret",
       "setl", "setle", "setg", "setge", "sete", "setne"} \subseteq Steady
  BY DEF Steady, Silent, Operations, Branches, Pushes
<1>2. \A k \in DOMAIN Arithmetic :
          Arithmetic[k] \in {"add", "sub", "imul", "and", "xor", "or"}
  BY DEF Arithmetic
<1>3. \A k \in DOMAIN Shift : Shift[k] \in {"shl", "sar"}
  BY DEF Shift
<1>4. \A k \in DOMAIN Condition :
          Condition[k] \in {"setl", "setle", "setg", "setge", "sete", "setne"}
  BY DEF Condition
<1> QED BY <1>1, <1>2, <1>3, <1>4

LEMMA FlagTurns ==
    ASSUME NEW test \in Steady, NEW g \in Int
    PROVE  Turns(Flag(test), 0, g)
<1>1. "movzx" \in Steady
  BY SteadyOps
<1>2. /\ Op(test) \in Quiet /\ Op("movzx") \in Quiet
      /\ Effect(Op(test)) = 0 /\ Effect(Op("movzx")) = 0
  BY <1>1, Effects
<1>3. 0 \in Int /\ 0 + 0 = 0
  OBVIOUS
<1>4. Turns(Flag(test), 0 + 0, g)
  BY <1>2, <1>3, PairTurns DEF Flag
<1> QED BY <1>3, <1>4

(* A unary operator replaces a value.                                      *)
LEMMA UnaryTurns ==
    ASSUME NEW kind \in UnaryKinds, NEW g \in Int
    PROVE  Turns(UnaryCode(kind), 0, g)
<1> DEFINE pop == Reg("pop", "rax")  push == Reg("push", "rax")
<1>1. pop \in Quiet /\ push \in Quiet /\ Effect(pop) = -1 /\ Effect(push) = 1
  BY Effects DEF Registers
<1>2. \A op \in {"neg", "not", "cmp_0"} : Op(op) \in Quiet /\ Effect(Op(op)) = 0
  BY Effects, SteadyOps
<1> HIDE DEF pop, push
<1>3. ASSUME NEW h \in Int
      PROVE  Turns(<<pop>>, -1, h) /\ Turns(<<push>>, 1, h)
  BY <1>1, QuietTurns
<1>4. ASSUME NEW middle, \A h \in Int : Turns(middle, 0, h)
      PROVE  Turns(<<pop>> \o middle \o <<push>>, 0, g)
  <2>1. -1 \in Int /\ 0 \in Int /\ 1 \in Int /\ g - (-1) \in Int /\ g \in Int
    OBVIOUS
  <2>2. Turns(<<pop>> \o middle, -1 + 0, g)
    BY <1>3, <1>4, <2>1, TurnsConcat
  <2>3. -1 + 0 = -1 /\ -1 + 1 = 0
    OBVIOUS
  <2> QED BY <1>3, <2>1, <2>2, <2>3, TurnsConcat
<1>5. ASSUME NEW h \in Int
      PROVE  /\ Turns(<<Op("neg")>>, 0, h) /\ Turns(<<Op("not")>>, 0, h)
             /\ Turns(<<Op("cmp_0")>>, 0, h) /\ Turns(Flag("sete"), 0, h)
  <2>1. "sete" \in Steady
    BY SteadyOps
  <2>2. Turns(Flag("sete"), 0, h)
    BY <2>1, FlagTurns
  <2>3. \A op \in {"neg", "not", "cmp_0"} : Turns(<<Op(op)>>, Effect(Op(op)), h)
    BY <1>2, QuietTurns
  <2> QED BY <1>2, <2>2, <2>3
<1>6. CASE kind = "ARITHMETIC_NEGATION"
  <2>1. UnaryCode(kind) = <<pop>> \o <<Op("neg")>> \o <<push>>
    BY <1>6 DEF UnaryCode, pop, push
  <2> QED BY <1>4, <1>5, <2>1
<1>7. CASE kind = "BITWISE_NEGATION"
  <2>1. UnaryCode(kind) = <<pop>> \o <<Op("not")>> \o <<push>>
    BY <1>7 DEF UnaryCode, pop, push
  <2> QED BY <1>4, <1>5, <2>1
<1>8. CASE kind = "LOGICAL_NEGATION"
  <2>1. UnaryCode(kind) = <<pop>> \o (<<Op("cmp_0")>> \o Flag("sete")) \o <<push>>
    BY <1>8 DEF UnaryCode, pop, push
  <2>2. ASSUME NEW h \in Int PROVE Turns(<<Op("cmp_0")>> \o Flag("sete"), 0, h)
    <3>1. 0 \in Int /\ h - 0 \in Int /\ 0 + 0 = 0
      OBVIOUS
    <3> QED BY <1>5, <3>1, TurnsConcat
  <2> QED BY <1>4, <2>1, <2>2
<1> QED BY <1>6, <1>7, <1>8 DEF UnaryKinds

(* A binary operator takes two values and leaves one.                      *)
LEMMA PlainTurns ==
    ASSUME NEW kind \in PlainKinds, NEW g \in Int
    PROVE  Turns(PlainCode(kind), -1, g)
<1>1. \A r \in Registers : /\ Reg("pop", r) \in Quiet /\ Effect(Reg("pop", r)) = -1
                             /\ Reg("push", r) \in Quiet /\ Effect(Reg("push", r)) = 1
  BY Effects
<1>2. \A op \in Steady : Op(op) \in Quiet /\ Effect(Op(op)) = 0
  BY Effects
<1>3. "rax" \in Registers /\ "rdi" \in Registers /\ "rcx" \in Registers /\ "rdx" \in Registers
  BY DEF Registers
<1>4. ASSUME NEW r \in Registers, NEW h \in Int PROVE Turns(PopBoth(r), -2, h)
  <2>1. Turns(PopBoth(r), Effect(Reg("pop", r)) + Effect(Reg("pop", "rax")), h)
    BY <1>1, <1>3, QuietTurns DEF PopBoth
  <2>2. Effect(Reg("pop", r)) + Effect(Reg("pop", "rax")) = -2
    BY <1>1, <1>3
  <2> QED BY <2>1, <2>2
<1>5. ASSUME NEW r \in Registers, NEW rest, \A h \in Int : Turns(rest, 1, h)
      PROVE  Turns(PopBoth(r) \o rest, -1, g)
  <2>1. -2 \in Int /\ 1 \in Int /\ g - (-2) \in Int /\ -2 + 1 = -1
    OBVIOUS
  <2> QED BY <1>4, <1>5, <2>1, TurnsConcat
<1>6. ASSUME NEW op \in Steady, NEW h \in Int PROVE Turns(<<Op(op), Reg("push", "rax")>>, 1, h)
  <2>1. Turns(<<Op(op), Reg("push", "rax")>>, Effect(Op(op)) + Effect(Reg("push", "rax")), h)
    BY <1>1, <1>2, <1>3, QuietTurns
  <2>2. Effect(Op(op)) + Effect(Reg("push", "rax")) = 1
    BY <1>1, <1>2, <1>3
  <2> QED BY <2>1, <2>2
<1>7. ASSUME NEW r \in Registers, NEW h \in Int
      PROVE  Turns(<<Op("cqo"), Op("idiv"), Reg("push", r)>>, 1, h)
  <2>1. "cqo" \in Steady /\ "idiv" \in Steady
    BY SteadyOps
  <2>2. Turns(<<Op("cqo"), Op("idiv"), Reg("push", r)>>,
              Effect(Op("cqo")) + (Effect(Op("idiv")) + Effect(Reg("push", r))), h)
    BY SMTT(30), <1>1, <1>2, <2>1, QuietTurns
  <2>3. Effect(Op("cqo")) + (Effect(Op("idiv")) + Effect(Reg("push", r))) = 1
    BY SMTT(30), <1>1, <1>2, <2>1
  <2> QED BY <2>2, <2>3
<1>8. CASE kind \in DOMAIN Arithmetic
  <2>1. PlainCode(kind) = PopBoth("rdi") \o <<Op(Arithmetic[kind]), Reg("push", "rax")>>
    BY SMTT(30), <1>8 DEF PlainCode, Arithmetic, Shift, Condition
  <2>2. Arithmetic[kind] \in Steady
    BY SMTT(30), <1>8, SteadyOps
  <2> QED BY SMTT(30), <1>3, <1>5, <1>6, <2>1, <2>2
<1>9. CASE kind \in DOMAIN Shift
  <2>1. PlainCode(kind) = PopBoth("rcx") \o <<Op(Shift[kind]), Reg("push", "rax")>>
    BY SMTT(30), <1>9 DEF PlainCode, Arithmetic, Shift, Condition
  <2>2. Shift[kind] \in Steady
    BY SMTT(30), <1>9, SteadyOps
  <2> QED BY <1>3, <1>5, <1>6, <2>1, <2>2
<1>10. CASE kind \in DOMAIN Condition
  <2> DEFINE compare == <<Op("cmp_rdi")>>
             both == PopBoth("rdi") \o compare
             set == Flag(Condition[kind])
             push == <<Reg("push", "rax")>>
  <2>1. PlainCode(kind) = both \o set \o push
    BY <1>10 DEF PlainCode, Arithmetic, Shift, Condition
  <2>2. "cmp_rdi" \in Steady /\ Condition[kind] \in Steady
    BY <1>10, SteadyOps
  <2>3. ASSUME NEW h \in Int
        PROVE  Turns(compare, 0, h) /\ Turns(set, 0, h) /\ Turns(push, 1, h)
    <3>1. Turns(set, 0, h)
      BY <2>2, FlagTurns
    <3>2. /\ Turns(compare, Effect(Op("cmp_rdi")), h)
          /\ Turns(push, Effect(Reg("push", "rax")), h)
      BY <1>1, <1>2, <1>3, <2>2, QuietTurns
    <3> QED BY <1>1, <1>2, <1>3, <2>2, <3>1, <3>2
  <2> HIDE DEF compare, set, push
  <2>4. -2 \in Int /\ 0 \in Int /\ 1 \in Int /\ g - (-2) \in Int /\ -2 + 0 = -2 /\ -2 + 1 = -1
    OBVIOUS
  <2>5. Turns(both, -2, g)
    BY <1>3, <1>4, <2>3, <2>4, TurnsConcat
  <2> HIDE DEF both
  <2>6. Turns(both \o set, -2, g)
    BY <2>3, <2>4, <2>5, TurnsConcat
  <2>7. Turns(both \o set \o push, -1, g)
    BY <2>3, <2>4, <2>6, TurnsConcat
  <2> QED BY SMTT(30), <2>1, <2>7
<1>11. CASE kind = "DIVISION"
  <2>1. PlainCode(kind) = PopBoth("rdi") \o <<Op("cqo"), Op("idiv"), Reg("push", "rax")>>
    BY <1>11 DEF PlainCode, Arithmetic, Shift, Condition
  <2> QED BY <1>3, <1>5, <1>7, <2>1
<1>12. CASE kind = "MODULUS"
  <2>1. PlainCode(kind) = PopBoth("rdi") \o <<Op("cqo"), Op("idiv"), Reg("push", "rdx")>>
    BY <1>12 DEF PlainCode, Arithmetic, Shift, Condition
  <2> QED BY <1>3, <1>5, <1>7, <2>1
<1> QED BY <1>8, <1>9, <1>10, <1>11, <1>12 DEF PlainKinds

LEMMA MarkTurns ==
    ASSUME NEW op \in Branches \cup {"label"}, NEW n \in Nat \cup {Main}
    PROVE  Turns(<<Num(op, n)>>, 0, 0)
<1>1. /\ Num(op, n) \in Instruction /\ Num(op, n).op = op
  BY DEF Num, Instruction, Operations, Registers
<1>2. op \notin Pushes /\ op # "pop"
  BY DEF Branches, Pushes
<1>3. Effect(Num(op, n)) = 0
  BY <1>1, <1>2 DEF Effect
<1> QED BY <1>1, <1>3, TurnsOne

(* && and || take the left value before they jump or go on.                *)
LEMMA TestTurns ==
    ASSUME NEW kind \in LogicalKinds, NEW on \in Nat, NEW end \in Nat
    PROVE  Turns(TestCode(kind, on, end), -1, -1)
<1> DEFINE head == <<Reg("pop", "rax"), Op("cmp_0")>>
           jne == <<Num("jne", on)>>
           je == <<Num("je", on)>>
           one == <<Op("mov_1")>>
           jmp == <<Num("jmp", end)>>
           label == <<Num("label", on)>>
           middle == IF kind = "LOGICAL_AND" THEN jne ELSE je \o one
           tail == jmp \o label
<1>1. "rax" \in Registers /\ "cmp_0" \in Steady /\ "mov_1" \in Steady
  BY SteadyOps DEF Registers
<1>2. Turns(head, -1, -1)
  <2>1. /\ Reg("pop", "rax") \in Quiet /\ Effect(Reg("pop", "rax")) = -1
        /\ Op("cmp_0") \in Quiet /\ Effect(Op("cmp_0")) = 0
    BY <1>1, Effects
  <2>2. -1 \in Int /\ 0 \in Int /\ -1 + 0 = -1
    OBVIOUS
  <2>3. Turns(head, -1 + 0, -1)
    BY <2>1, <2>2, PairTurns
  <2> QED BY <2>2, <2>3
<1>3. Turns(one, 0, 0)
  <2>1. Op("mov_1") \in Quiet /\ Effect(Op("mov_1")) = 0
    BY <1>1, Effects
  <2>2. 0 \in Int
    OBVIOUS
  <2> QED BY <2>1, <2>2, SingleTurns
<1>4. Turns(jne, 0, 0) /\ Turns(je, 0, 0) /\ Turns(jmp, 0, 0) /\ Turns(label, 0, 0)
  BY MarkTurns DEF Branches
<1>5. je \o one = <<Num("je", on), Op("mov_1")>> /\ tail = <<Num("jmp", end), Num("label", on)>>
  <2>1. \A a, b \in {Num("je", on), Op("mov_1"), Num("jmp", end), Num("label", on)} :
            <<a>> \o <<b>> = <<a, b>>
    BY Pair
  <2> QED BY <2>1
<1>6. TestCode(kind, on, end) = head \o middle \o tail
  BY <1>5 DEF TestCode
<1>7. 0 \in Int /\ -1 \in Int /\ 0 + 0 = 0 /\ 0 - 0 = 0 /\ -1 - (-1) = 0 /\ -1 + 0 = -1
  OBVIOUS
<1> HIDE DEF head, jne, je, one, jmp, label
<1>8. Turns(middle, 0, 0) /\ Turns(tail, 0, 0)
  BY <1>3, <1>4, <1>7, TurnsConcat
<1> HIDE DEF middle, tail
<1>9. Turns(head \o middle, -1, -1)
  BY <1>2, <1>7, <1>8, TurnsConcat
<1>10. Turns(head \o middle \o tail, -1, -1)
  BY <1>7, <1>8, <1>9, TurnsConcat
<1> QED BY <1>6, <1>10

(* Their end is reached with both values taken; one is pushed there.       *)
LEMMA LogicalTurns ==
    ASSUME NEW end \in Nat
    PROVE  Turns(LogicalCode(end), 0, -1)
<1> DEFINE head == <<Reg("pop", "rax"), Op("cmp_0")>>
           set == Flag("setne")
           label == <<Num("label", end)>>
           push == <<Reg("push", "rax")>>
           pair == label \o push
<1>1. "rax" \in Registers /\ "cmp_0" \in Steady /\ "setne" \in Steady
  BY SteadyOps DEF Registers
<1>2. /\ Reg("pop", "rax") \in Quiet /\ Effect(Reg("pop", "rax")) = -1
      /\ Reg("push", "rax") \in Quiet /\ Effect(Reg("push", "rax")) = 1
      /\ Op("cmp_0") \in Quiet /\ Effect(Op("cmp_0")) = 0
  BY <1>1, Effects
<1>3. Turns(head, -1, -1)
  <2>1. -1 \in Int /\ 0 \in Int /\ -1 + 0 = -1
    OBVIOUS
  <2>2. Turns(head, -1 + 0, -1)
    BY <1>2, <2>1, PairTurns
  <2> QED BY <2>1, <2>2
<1>4. Turns(set, 0, 0)
  <2>1. 0 \in Int
    OBVIOUS
  <2> QED BY <1>1, <2>1, FlagTurns
<1>5. Turns(push, 1, 0)
  <2>1. 0 \in Int /\ 1 \in Int
    OBVIOUS
  <2> QED BY <1>2, <2>1, SingleTurns
<1>6. Turns(label, 0, 0)
  BY MarkTurns
<1>7. pair = <<Num("label", end), Reg("push", "rax")>>
  <2>1. \A a, b \in {Num("label", end), Reg("push", "rax")} : <<a>> \o <<b>> = <<a, b>>
    BY Pair
  <2> QED BY <2>1
<1>8. LogicalCode(end) = head \o set \o pair
  BY <1>7 DEF LogicalCode
<1>9. 0 \in Int /\ 1 \in Int /\ -1 \in Int /\ 0 - 0 = 0 /\ -1 - (-1) = 0 /\ -1 + 0 = -1
      /\ 0 + 1 = 1 /\ -1 + 1 = 0
  OBVIOUS
<1> HIDE DEF head, set, label, push
<1>10. Turns(pair, 1, 0)
  BY <1>5, <1>6, <1>9, TurnsConcat
<1> HIDE DEF pair
<1>11. Turns(head \o set, -1, -1)
  BY <1>3, <1>4, <1>9, TurnsConcat
<1>12. Turns(head \o set \o pair, 0, -1)
  BY <1>9, <1>10, <1>11, TurnsConcat
<1> QED BY <1>8, <1>12
----------------------------------------------------------------------------
(* Where jumps lead: the numbers a text marks, at which depth a number is  *)
(* marked, and that every number is at one depth.                          *)
Uses(w, N) == \A i \in 1..Len(w) : Mark(w[i]) => w[i].n \in N
Landing(c, n, g) == \A i \in 4..Len(c) : Mark(c[i]) /\ c[i].n = n => Gain(c, 4, i) = g
SameDepth(c) ==
    \A i, j \in 4..Len(c) :
        Mark(c[i]) /\ Mark(c[j]) /\ c[i].n = c[j].n => Gain(c, 4, i) = Gain(c, 4, j)
Numbered(c, m) == \A i \in 4..Len(c) : Mark(c[i]) => c[i].n < m

LEMMA UsesConcat ==
    ASSUME NEW v \in Seq(Instruction), NEW w \in Seq(Instruction), NEW N, Uses(v, N), Uses(w, N)
    PROVE  Uses(v \o w, N)
<1> DEFINE d == v \o w
<1>1. /\ Len(v) \in Nat /\ Len(w) \in Nat /\ Len(d) = Len(v) + Len(w)
      /\ \A i \in 1..Len(v) : d[i] = v[i]
      /\ \A i \in (Len(v) + 1)..(Len(v) + Len(w)) :
             i - Len(v) \in 1..Len(w) /\ d[i] = w[i - Len(v)]
  BY Concat
<1> HIDE DEF d
<1>2. \A i \in 1..Len(d) : i \in 1..Len(v) \/ i \in (Len(v) + 1)..(Len(v) + Len(w))
  BY <1>1
<1>3. Uses(d, N)
  BY <1>1, <1>2 DEF Uses
<1> QED BY <1>3 DEF d

LEMMA UsesOne ==
    ASSUME NEW x \in Instruction, NEW N, Mark(x) => x.n \in N
    PROVE  Uses(<<x>>, N)
<1> DEFINE w == <<x>>
<1>1. Len(w) = 1 /\ w[1] = x
  OBVIOUS
<1> HIDE DEF w
<1>2. \A i \in 1..Len(w) : i = 1
  BY <1>1
<1>3. Uses(w, N)
  BY <1>1, <1>2 DEF Uses
<1> QED BY <1>3 DEF w

LEMMA UsesQuiet ==
    ASSUME NEW w \in Seq(Quiet), NEW N
    PROVE  Uses(w, N)
<1>1. \A i \in 1..Len(w) : w[i] \in Quiet
  OBVIOUS
<1> QED BY <1>1 DEF Uses, Quiet, Mark

LEMMA UsesMark ==
    ASSUME NEW op \in Branches \cup {"label"}, NEW n \in Nat \cup {Main}, NEW N, n \in N
    PROVE  Uses(<<Num(op, n)>>, N)
<1>1. Num(op, n) \in Instruction /\ Num(op, n).n = n
  BY DEF Num, Instruction, Operations, Registers
<1> QED BY <1>1, UsesOne

(* What is written where the depth is D marks its numbers at D + g, and    *)
(* leaves the depth of every other number as it is.                        *)
LEMMA Writing ==
    ASSUME NEW c \in Seq(Instruction), Len(c) >= 4, NEW w, NEW t \in Int, NEW g \in Int,
           Turns(w, t, g), NEW N, Uses(w, N), SameDepth(c),
           NEW D, D = Gain(c, 4, Len(c) + 1), \A n \in N : Landing(c, n, D + g)
    PROVE  /\ D \in Int
           /\ Len(c \o w) >= 4
           /\ Gain(c \o w, 4, Len(c \o w) + 1) = D + t
           /\ SameDepth(c \o w)
           /\ \A n \in N : Landing(c \o w, n, D + g)
           /\ \A n, h : n \notin N /\ Landing(c, n, h) => Landing(c \o w, n, h)
           /\ \A m : Numbered(c, m) /\ (\A n \in N : n < m) => Numbered(c \o w, m)
<1> DEFINE d == c \o w
<1>1. /\ w \in Seq(Instruction) /\ Len(c) \in Nat /\ Len(w) \in Nat
      /\ Len(d) = Len(c) + Len(w)
      /\ \A i \in 1..Len(c) : d[i] = c[i]
      /\ \A i \in (Len(c) + 1)..(Len(c) + Len(w)) :
             i - Len(c) \in 1..Len(w) /\ d[i] = w[i - Len(c)]
  BY Concat DEF Turns
<1>2. 4 \in Nat \ {0} /\ 4 <= Len(c) + 1 /\ Len(c) + 1 \in Int
  BY <1>1
<1>3. /\ \A k \in 1..(Len(c) + 1) : Gain(d, 4, k) = Gain(c, 4, k)
      /\ \A k \in 1..(Len(w) + 1) : Gain(d, 4, Len(c) + k) = D + Gain(w, 1, k)
      /\ D \in Int
  BY ZenonT(40), <1>1, <1>2, GainConcat
<1> HIDE DEF d
<1>4. Gain(d, 4, Len(d) + 1) = D + t
  <2>1. Len(w) + 1 \in 1..(Len(w) + 1) /\ Len(c) + (Len(w) + 1) = Len(d) + 1
    BY <1>1
  <2>2. Gain(d, 4, Len(c) + (Len(w) + 1)) = D + Gain(w, 1, Len(w) + 1)
    BY <1>3, <2>1
  <2> QED BY <2>1, <2>2 DEF Turns, Total
<1>5. ASSUME NEW i \in 4..Len(c) PROVE d[i] = c[i] /\ Gain(d, 4, i) = Gain(c, 4, i)
  <2>1. i \in 1..Len(c) /\ i \in 1..(Len(c) + 1)
    OBVIOUS
  <2> QED BY <1>1, <1>3, <2>1
<1>6. ASSUME NEW i \in (Len(c) + 1)..Len(d), Mark(d[i])
      PROVE  Gain(d, 4, i) = D + g /\ d[i].n \in N
  <2>1. PICK k : k = i - Len(c)
    OBVIOUS
  <2>2. k \in 1..Len(w) /\ k \in 1..(Len(w) + 1) /\ Len(c) + k = i /\ d[i] = w[k]
    <3>1. Len(c) \in Nat /\ Len(w) \in Nat /\ i \in (Len(c) + 1)..(Len(c) + Len(w))
      BY <1>1
    <3>2. k \in 1..Len(w) /\ k \in 1..(Len(w) + 1) /\ Len(c) + k = i
      BY <2>1, <3>1
    <3> QED BY <1>1, <2>1, <3>1, <3>2
  <2>3. Gain(w, 1, k) = g /\ w[k].n \in N
    BY <1>6, <2>2 DEF Turns, Uses
  <2> QED BY <1>3, <2>2, <2>3
<1>7. \A i \in 4..Len(d) : i \in 4..Len(c) \/ i \in (Len(c) + 1)..Len(d)
  BY <1>1
<1>8. \A n \in N : Landing(d, n, D + g)
  BY <1>5, <1>6, <1>7 DEF Landing
<1>9. \A n, h : n \notin N /\ Landing(c, n, h) => Landing(d, n, h)
  BY <1>5, <1>6, <1>7 DEF Landing
<1>10. SameDepth(d)
  <2> SUFFICES ASSUME NEW i \in 4..Len(d), NEW j \in 4..Len(d),
                      Mark(d[i]), Mark(d[j]), d[i].n = d[j].n
               PROVE  Gain(d, 4, i) = Gain(d, 4, j)
    BY DEF SameDepth
  <2>1. CASE d[i].n \in N
    BY <1>8, <2>1 DEF Landing
  <2>2. CASE d[i].n \notin N
    <3>1. i \in 4..Len(c) /\ j \in 4..Len(c)
      BY <1>6, <1>7, <2>2
    <3> QED BY <1>5, <3>1 DEF SameDepth
  <2> QED BY <2>1, <2>2
<1>11. \A m : Numbered(c, m) /\ (\A n \in N : n < m) => Numbered(d, m)
  BY <1>5, <1>6, <1>7 DEF Numbered
<1>12. Len(d) >= 4
  BY <1>1
<1> QED BY <1>3, <1>4, <1>8, <1>9, <1>10, <1>11, <1>12 DEF d

LEMMA TestUses ==
    ASSUME NEW kind \in LogicalKinds, NEW on \in Nat, NEW end \in Nat
    PROVE  Uses(TestCode(kind, on, end), {on, end})
<1> DEFINE head == <<Reg("pop", "rax"), Op("cmp_0")>>
           jne == <<Num("jne", on)>>
           je == <<Num("je", on)>>
           one == <<Op("mov_1")>>
           jmp == <<Num("jmp", end)>>
           label == <<Num("label", on)>>
           middle == IF kind = "LOGICAL_AND" THEN jne ELSE je \o one
           tail == jmp \o label
           N == {on, end}
           Good(w) == w \in Seq(Instruction) /\ Uses(w, N)
<1>1. Good(head) /\ Good(one)
  <2>1. Reg("pop", "rax") \in Quiet /\ Op("cmp_0") \in Quiet /\ Op("mov_1") \in Quiet
    BY QuietInstructions DEF Silent, Operations, Branches, Registers
  <2>2. head \in Seq(Quiet) /\ one \in Seq(Quiet)
    BY <2>1, Tuples
  <2> QED BY <2>2, QuietText, UsesQuiet
<1>2. Good(jne) /\ Good(je) /\ Good(jmp) /\ Good(label)
  BY JumpOrLabel, UsesMark DEF Branches
<1>3. je \o one = <<Num("je", on), Op("mov_1")>> /\ tail = <<Num("jmp", end), Num("label", on)>>
  <2>1. \A a, b \in {Num("je", on), Op("mov_1"), Num("jmp", end), Num("label", on)} :
            <<a>> \o <<b>> = <<a, b>>
    BY Pair
  <2> QED BY <2>1
<1>4. TestCode(kind, on, end) = head \o middle \o tail
  BY <1>3 DEF TestCode
<1> HIDE DEF head, jne, je, one, jmp, label, N
<1>5. ASSUME NEW v, NEW w, Good(v), Good(w) PROVE Good(v \o w)
  <2>1. v \o w \in Seq(Instruction)
    BY <1>5
  <2> QED BY <1>5, <2>1, UsesConcat
<1>6. Good(middle) /\ Good(tail)
  BY <1>1, <1>2, <1>5
<1> HIDE DEF middle, tail, Good
<1>7. Good(head \o middle \o tail)
  BY <1>1, <1>5, <1>6
<1> QED BY <1>4, <1>7 DEF Good, N

LEMMA LogicalUses ==
    ASSUME NEW end \in Nat
    PROVE  Uses(LogicalCode(end), {end})
<1> DEFINE head == <<Reg("pop", "rax"), Op("cmp_0")>>
           set == Flag("setne")
           label == <<Num("label", end)>>
           push == <<Reg("push", "rax")>>
           pair == label \o push
           N == {end}
           Good(w) == w \in Seq(Instruction) /\ Uses(w, N)
<1>1. Good(head) /\ Good(set) /\ Good(push)
  <2>1. Reg("pop", "rax") \in Quiet /\ Op("cmp_0") \in Quiet /\ Reg("push", "rax") \in Quiet
    BY QuietInstructions DEF Silent, Operations, Branches, Registers
  <2>2. head \in Seq(Quiet) /\ push \in Seq(Quiet)
    BY <2>1, Tuples
  <2>3. set \in Seq(Quiet)
    BY FlagQuiet DEF Silent, Operations, Branches
  <2> QED BY <2>2, <2>3, QuietText, UsesQuiet
<1>2. Good(label)
  BY JumpOrLabel, UsesMark
<1>3. pair = <<Num("label", end), Reg("push", "rax")>>
  <2>1. \A a, b \in {Num("label", end), Reg("push", "rax")} : <<a>> \o <<b>> = <<a, b>>
    BY Pair
  <2> QED BY <2>1
<1>4. LogicalCode(end) = head \o set \o pair
  BY <1>3 DEF LogicalCode
<1> HIDE DEF head, set, label, push, N
<1>5. ASSUME NEW v, NEW w, Good(v), Good(w) PROVE Good(v \o w)
  <2>1. v \o w \in Seq(Instruction)
    BY <1>5
  <2> QED BY <1>5, <2>1, UsesConcat
<1>6. Good(pair)
  BY <1>1, <1>2, <1>5
<1> HIDE DEF pair, Good
<1>7. Good(head \o set \o pair)
  BY <1>1, <1>5, <1>6
<1> QED BY <1>4, <1>7 DEF Good, N
----------------------------------------------------------------------------
(* The invariant of the depth: the running calls have on the stack what    *)
(* Waiting and Ready count, all calls but the innermost have begun, and a  *)
(* label that a call of && or || holds is jumped to from the depth below   *)
(* that call only.                                                         *)

Waits(f) == frames[f].step = 2 /\ ast[frames[f].node].kind \in PlainKinds
Waiters  == {f \in 1..Len(frames) : Waits(f)}
Width(W, f) == Cardinality({i \in 1..(f - 1) : i \in W})
Below(f) == Width(Waiters, f)
Depth    == Gain(code, 4, Len(code) + 1)

Reached ==
    /\ phase = "body" => Len(code) >= 4 /\ Depth = Below(Len(frames)) + Ready
    /\ phase = "done" => Depth = 0
Begun    == \A f \in 1..(Len(frames) - 1) : frames[f].step > 0
EndDepth == \A f \in 1..Len(frames) : Awaits(f) => Landing(code, frames[f].end, Below(f))

DepthInv == Reached /\ Begun /\ EndDepth /\ Numbered(code, labelCount) /\ SameDepth(code)

LEMMA WidthStep ==
    ASSUME NEW W, NEW f \in Nat
    PROVE  /\ Width(W, f) \in Nat
           /\ f # 0 => Width(W, f + 1) = Width(W, f) + (IF f \in W THEN 1 ELSE 0)
           /\ f \in {0, 1} => Width(W, f) = 0
<1> DEFINE B == {i \in 1..(f - 1) : i \in W}
           D == {i \in 1..(f + 1 - 1) : i \in W}
<1>1. IsFiniteSet(1..(f - 1)) /\ B \in SUBSET (1..(f - 1))
  BY FS_Interval
<1>2. IsFiniteSet(B) /\ Cardinality(B) \in Nat
  <2> HIDE DEF B
  <2> QED BY <1>1, FS_Subset, FS_CardinalityType
<1>3. ASSUME f # 0 PROVE Cardinality(D) = Cardinality(B) + (IF f \in W THEN 1 ELSE 0)
  <2>1. CASE f \in W
    <3>1. D = B \cup {f} /\ f \notin B
      BY <1>3, <2>1
    <3> HIDE DEF B, D
    <3> QED BY <1>2, <2>1, <3>1, FS_AddElement
  <2>2. CASE f \notin W
    <3>1. D = B
      BY <2>2
    <3> HIDE DEF B, D
    <3> QED BY <1>2, <2>2, <3>1
  <2> QED BY <2>1, <2>2
<1>4. ASSUME f \in {0, 1} PROVE Cardinality(B) = 0
  <2>1. B = {}
    BY <1>4
  <2> HIDE DEF B
  <2> QED BY <2>1, FS_EmptySet
<1> QED BY <1>2, <1>3, <1>4 DEF Width

LEMMA WidthSame ==
    ASSUME NEW V, NEW W, NEW f \in Nat, \A i \in 1..(f - 1) : i \in V <=> i \in W
    PROVE  Width(V, f) = Width(W, f)
<1>1. {i \in 1..(f - 1) : i \in V} = {i \in 1..(f - 1) : i \in W}
  OBVIOUS
<1> QED BY <1>1 DEF Width

(* A call that writes w at its return has one value on the stack then.     *)
LEMMA DepthReturn ==
    ASSUME LabelInv, DepthInv, phase = "body", frames # <<>>,
           NEW t \in Int, NEW g \in Int, NEW w, Turns(w, t, g), Ready + t = 1,
           NEW N, Uses(w, N),
           \A n \in N : n < labelCount /\ Landing(code, n, Depth + g),
           \A f \in 1..(Len(frames) - 1) : Awaits(f) => frames[f].end \notin N,
           Write(w), Return, UNCHANGED <<ast, labelCount, phase>>
    PROVE  DepthInv'
<1>0. PICK x : x = Len(frames)
  OBVIOUS
<1>1. /\ frames' \in Seq(Calls) /\ x \in Nat \ {0} /\ Len(frames') = x - 1
      /\ \A i \in 1..(x - 1) : i \in 1..Len(frames) /\ frames'[i] = frames[i]
  BY <1>0, Returning DEF LabelInv, GenTypes, Return, Under
<1>2. code' = code \o w /\ code \in Seq(Instruction) /\ Len(code) >= 4 /\ SameDepth(code)
      /\ Numbered(code, labelCount) /\ Depth = Below(x) + Ready /\ labelCount' = labelCount
  BY <1>0 DEF Write, LabelInv, GenTypes, DepthInv, Reached
<1>3. /\ Depth \in Int /\ Len(code') >= 4 /\ Depth' = Depth + t /\ SameDepth(code')
      /\ \A n, h : n \notin N /\ Landing(code, n, h) => Landing(code', n, h)
      /\ Numbered(code', labelCount)
  BY <1>2, Writing DEF Depth
<1>4. \A f \in 1..(x - 1) : (Waits(f)' <=> Waits(f)) /\ (Awaits(f)' <=> Awaits(f))
  BY <1>1 DEF Waits, Awaits
<1>5. ASSUME NEW f \in Nat, f <= x PROVE Below(f)' = Below(f) /\ Below(f) \in Nat
  <2>1. \A i \in 1..(f - 1) : i \in Waiters <=> i \in Waiters'
    BY <1>0, <1>1, <1>4, <1>5 DEF Waiters
  <2>2. Width(Waiters', f) = Width(Waiters, f)
    BY <2>1, WidthSame
  <2>3. Width(Waiters, f) \in Nat
    BY WidthStep
  <2> QED BY <2>2, <2>3 DEF Below
<1>6. Begun'
  BY <1>1 DEF DepthInv, Begun
<1>7. EndDepth'
  <2> SUFFICES ASSUME NEW f \in 1..(x - 1), Awaits(f)
               PROVE  Landing(code', frames'[f].end, Below(f)')
    BY <1>1, <1>4 DEF EndDepth
  <2>1. f \in 1..Len(frames) /\ f \in 1..(Len(frames) - 1) /\ f \in Nat /\ f <= x
    BY <1>0, <1>1
  <2>2. Landing(code, frames[f].end, Below(f)) /\ frames[f].end \notin N
    BY <2>1 DEF DepthInv, EndDepth
  <2> QED BY <1>1, <1>3, <1>5, <2>1, <2>2
<1>8. Depth' = Below(x)' + 1
  <2>1. Below(x) \in Nat /\ Below(x)' = Below(x)
    BY <1>1, <1>5
  <2>2. Ready \in Int
    BY DEF Ready
  <2> QED BY <1>2, <1>3, <2>1, <2>2
<1>9. Depth' = Below(x - 1)' + Ready'
  <2>1. CASE x = 1
    <3>1. frames' = <<>> /\ Ready' = 1
      BY <1>1, <2>1 DEF Ready
    <3>2. Below(x)' = 0 /\ Below(x - 1)' = 0
      <4>1. Width(Waiters', 1) = 0 /\ Width(Waiters', 0) = 0
        BY WidthStep
      <4> QED BY <2>1, <4>1 DEF Below
    <3> QED BY <1>8, <3>1, <3>2
  <2>2. CASE x > 1
    <3>1. PICK y : y = x - 1
      OBVIOUS
    <3>2. y \in Nat /\ y # 0 /\ y + 1 = x /\ y \in 1..(Len(frames) - 1) /\ y = Len(frames')
          /\ y <= x
      BY <1>0, <1>1, <2>2, <3>1
    <3>3. frames' # <<>>
      BY <3>2
    <3>4. frames[y].step > 0 /\ frames'[y] = frames[y]
      BY <1>0, <1>1, <3>2 DEF DepthInv, Begun
    <3>5. Ready' = IF Waits(y)' THEN 2 ELSE 1
      BY <3>2, <3>3, <3>4 DEF Ready, Top, Node, Waits
    <3>6. Below(y + 1)' = Below(y)' + (IF Waits(y)' THEN 1 ELSE 0)
      <4>1. y \in Waiters' <=> Waits(y)'
        BY <3>2 DEF Waiters
      <4>2. Width(Waiters', y + 1) = Width(Waiters', y) + (IF y \in Waiters' THEN 1 ELSE 0)
        BY <3>2, WidthStep
      <4> QED BY <4>1, <4>2 DEF Below
    <3>7. Below(y)' \in Nat
      BY <1>5, <3>2
    <3> QED BY <1>8, <3>1, <3>2, <3>5, <3>6, <3>7
  <2> QED BY <1>1, <2>1, <2>2
<1>10. Reached'
  BY <1>1, <1>3, <1>9 DEF Reached
<1> QED BY <1>2, <1>3, <1>6, <1>7, <1>10 DEF DepthInv

(* A call begins another one, having written w.                            *)
LEMMA DepthCall ==
    ASSUME LabelInv, DepthInv, phase = "body", frames # <<>>,
           NEW t \in Int, NEW g \in Int, NEW w, Turns(w, t, g),
           NEW N, Uses(w, N),
           NEW step \in 1..2, NEW end \in Nat, NEW child \in Nodes, Call(step, end, child),
           Ready + t = IF step = 2 /\ Node.kind \in PlainKinds THEN 1 ELSE 0,
           \A n \in N : n < labelCount' /\ Landing(code, n, Depth + g),
           \A f \in 1..(Len(frames) - 1) : Awaits(f) => frames[f].end \notin N,
           step = 2 /\ Node.kind \in LogicalKinds => end \in N /\ Ready + g = 0,
           labelCount \in Nat, labelCount' \in Nat, labelCount <= labelCount',
           Write(w), UNCHANGED <<ast, phase>>
    PROVE  DepthInv'
<1>0. PICK x : x = Len(frames)
  OBVIOUS
<1>1. /\ frames' \in Seq(Calls) /\ x \in Nat \ {0} /\ Len(frames') = x + 1
      /\ \A i \in 1..(x - 1) : frames'[i] = frames[i]
      /\ frames'[x].node = frames[x].node /\ frames'[x].step = step /\ frames'[x].end = end
      /\ frames'[x + 1].step = 0
  <2>1. step \in 0..2 /\ GenTypes
    BY DEF LabelInv
  <2> QED BY <1>0, <2>1, Calling
<1>2. code' = code \o w /\ code \in Seq(Instruction) /\ Len(code) >= 4 /\ SameDepth(code)
      /\ Numbered(code, labelCount) /\ Depth = Below(x) + Ready
  BY <1>0 DEF Write, LabelInv, GenTypes, DepthInv, Reached
<1>3. Numbered(code, labelCount')
  <2>1. \A i \in 4..Len(code) : code[i].n \in Int
    <3>1. \A i \in 1..Len(code) : code[i] \in Instruction
      BY <1>2
    <3>2. \A i \in 4..Len(code) : i \in 1..Len(code)
      OBVIOUS
    <3> QED BY <3>1, <3>2 DEF Instruction, Main
  <2> QED BY SMTT(30), <1>2, <2>1 DEF Numbered
<1>4. /\ Depth \in Int /\ Len(code') >= 4 /\ Depth' = Depth + t /\ SameDepth(code')
      /\ \A n \in N : Landing(code', n, Depth + g)
      /\ \A n, h : n \notin N /\ Landing(code, n, h) => Landing(code', n, h)
      /\ Numbered(code', labelCount')
  BY <1>2, <1>3, Writing DEF Depth
<1>5. \A f \in 1..(x - 1) : (Waits(f)' <=> Waits(f)) /\ (Awaits(f)' <=> Awaits(f))
  BY <1>1 DEF Waits, Awaits
<1>6. ASSUME NEW f \in Nat, f <= x PROVE Below(f)' = Below(f) /\ Below(f) \in Nat
  <2>1. \A i \in 1..(f - 1) : i \in Waiters <=> i \in Waiters'
    BY <1>0, <1>1, <1>5, <1>6 DEF Waiters
  <2>2. Width(Waiters', f) = Width(Waiters, f)
    BY <2>1, WidthSame
  <2>3. Width(Waiters, f) \in Nat
    BY WidthStep
  <2> QED BY <2>2, <2>3 DEF Below
<1>7. /\ Waits(x)' <=> step = 2 /\ Node.kind \in PlainKinds
      /\ Awaits(x)' <=> step = 2 /\ Node.kind \in LogicalKinds
      /\ ~Awaits(x + 1)'
  BY <1>0, <1>1 DEF Waits, Awaits, Node, Top
<1>8. Begun'
  <2>1. \A f \in 1..(Len(frames') - 1) : f = x \/ f \in 1..(x - 1)
    BY <1>1
  <2> QED BY SMTT(30), <1>0, <1>1, <2>1 DEF DepthInv, Begun
<1>9. Below(x) \in Nat /\ Below(x)' = Below(x) /\ Ready \in Int
  BY <1>1, <1>6 DEF Ready
<1>10. EndDepth'
  <2> SUFFICES ASSUME NEW f \in 1..(x + 1), Awaits(f)'
               PROVE  Landing(code', frames'[f].end, Below(f)')
    BY <1>1 DEF EndDepth
  <2>1. CASE f \in 1..(x - 1)
    <3>1. f \in 1..Len(frames) /\ f \in 1..(Len(frames) - 1) /\ f \in Nat /\ f <= x
      BY <1>0, <1>1, <2>1
    <3>2. Landing(code, frames[f].end, Below(f)) /\ frames[f].end \notin N
      BY <1>5, <2>1, <3>1 DEF DepthInv, EndDepth
    <3> QED BY <1>1, <1>4, <1>6, <2>1, <3>1, <3>2
  <2>2. CASE f = x
    <3>1. end \in N /\ Ready + g = 0 /\ frames'[f].end = end
      BY <1>1, <1>7, <2>2
    <3>2. Depth + g = Below(x)'
      <4>1. Depth = Below(x)' + Ready /\ Below(x)' \in Nat
        BY <1>2, <1>9
      <4> QED BY <1>9, <3>1, <4>1
    <3> QED BY <1>4, <2>2, <3>1, <3>2
  <2> QED BY <1>1, <1>7, <2>1, <2>2
<1>11. Below(x + 1)' = Below(x)' + (IF Waits(x)' THEN 1 ELSE 0)
  <2>1. x \in Waiters' <=> Waits(x)'
    BY <1>1 DEF Waiters
  <2>2. Width(Waiters', x + 1) = Width(Waiters', x) + (IF x \in Waiters' THEN 1 ELSE 0)
    BY <1>1, WidthStep
  <2> QED BY <2>1, <2>2 DEF Below
<1>12. Ready' = 0
  <2>1. frames' # <<>> /\ Len(frames') = x + 1
    BY <1>1
  <2> QED BY <1>1, <2>1 DEF Ready, Top
<1>13. Reached'
  <2>1. Depth' = Below(x)' + (Ready + t)
    BY SMTT(30), <1>2, <1>4, <1>9
  <2>2. Ready + t = IF Waits(x)' THEN 1 ELSE 0
    BY <1>7
  <2>3. Depth' = Below(x + 1)'
    BY <1>11, <2>1, <2>2
  <2>4. Below(x + 1)' = (Below(Len(frames)) + Ready)'
    <3>1. Below(x + 1)' \in Nat
      <4>1. \A f \in Nat : Width(Waiters', f) \in Nat
        BY WidthStep
      <4> QED BY <1>1, <4>1 DEF Below
    <3> QED BY <1>1, <1>12, <3>1
  <2> QED BY <1>4, <2>3, <2>4 DEF Reached
<1> QED BY <1>4, <1>8, <1>10, <1>13 DEF DepthInv

LEMMA DepthInit == Init => DepthInv
<1> SUFFICES ASSUME Init PROVE DepthInv
  OBVIOUS
<1>1. code = <<>> /\ frames = <<>> /\ phase = "open"
  BY DEF Init
<1>2. /\ \A i \in 4..Len(code) : FALSE
      /\ \A i \in 1..Len(frames) : FALSE
      /\ \A i \in 1..(Len(frames) - 1) : FALSE
  BY <1>1
<1> QED BY <1>1, <1>2 DEF DepthInv, Reached, Begun, EndDepth, Numbered, SameDepth

(* The header and the label of the function: the counting begins here.     *)
LEMMA DepthOpen == LabelInv /\ Open => DepthInv'
<1> SUFFICES ASSUME LabelInv, Open PROVE DepthInv'
  OBVIOUS
<1> DEFINE label == <<Num("label", Main)>>
           w == Header \o label
<1>1. /\ code = <<>> /\ frames' = <<Frame(Len(ast))>> /\ phase' = "body"
      /\ labelCount' = labelCount /\ labelCount \in Nat /\ code' = <<>> \o w
  BY DEF Open, LabelInv, GenTypes, Phases, Write
<1>2. /\ Header \in Seq(Instruction) /\ Len(Header) = 3
      /\ label \in Seq(Instruction) /\ Len(label) = 1 /\ label[1] = Num("label", Main)
  <2>1. Num("call", Main) \in Instruction /\ Num("label", Main) \in Instruction
    BY DEF Num, Instruction, Operations, Branches, Registers
  <2>2. Op("mov_rdi") \in Instruction /\ Op("exit") \in Instruction
    BY DEF Op, Num, Instruction, Operations, Branches, Registers
  <2>3. ASSUME NEW a \in Instruction, NEW b \in Instruction, NEW c \in Instruction
        PROVE  /\ <<a, b, c>> \in Seq(Instruction) /\ Len(<<a, b, c>>) = 3
               /\ <<a>> \in Seq(Instruction) /\ Len(<<a>>) = 1 /\ <<a>>[1] = a
    <3> HIDE DEF Instruction
    <3> QED OBVIOUS
  <2> QED BY <2>1, <2>2, <2>3 DEF Header
<1> HIDE DEF label
<1>3. /\ w \in Seq(Instruction) /\ Len(w) = 4
      /\ w[4].op = "label" /\ w[4].n = Main
  <2>0. Header \in Seq(Instruction) /\ label \in Seq(Instruction)
    BY <1>2
  <2>1. /\ w \in Seq(Instruction) /\ Len(w) = Len(Header) + Len(label)
        /\ \A i \in 1..Len(label) : w[Len(Header) + i] = label[i]
    BY <2>0, Concat
  <2>2. 1 \in 1..Len(label) /\ Len(Header) + 1 = 4 /\ Len(Header) + Len(label) = 4
    BY <1>2
  <2>3. w[4] = Num("label", Main)
    BY <1>2, <2>1, <2>2
  <2>4. Num("label", Main).op = "label" /\ Num("label", Main).n = Main
    BY DEF Num
  <2> HIDE DEF w
  <2> QED BY <2>1, <2>2, <2>3, <2>4
<1> HIDE DEF w
<1>4. code' = w
  BY <1>1, <1>3
<1>5. /\ \A i \in 4..Len(code') : i = 4
      /\ 4 \in 4..Len(code')
      /\ Len(code') + 1 = 5
  <2>1. Len(code') = 4
    BY <1>3, <1>4
  <2> QED BY <2>1
<1>6. Depth' = 0
  <2>1. \A ops : "label" \notin ops => {j \in 4..(5 - 1) : w[j].op \in ops} = {}
    BY <1>3
  <2>2. Count(w, 4, 5, Pushes) = 0 /\ Count(w, 4, 5, {"pop"}) = 0
    BY <2>1, FS_EmptySet DEF Count, Pushes
  <2> QED BY <1>4, <1>5, <2>2 DEF Depth, Gain
<1>7. Len(frames') = 1 /\ frames' # <<>> /\ frames'[1].step = 0
  BY <1>1 DEF Frame
<1>8. Ready' = 0 /\ Below(Len(frames))' = 0
  <2>1. Width(Waiters', 1) = 0
    BY WidthStep
  <2>2. Ready' = 0
    BY <1>7 DEF Ready, Top
  <2> QED BY <1>7, <2>1, <2>2 DEF Below
<1>9. Reached'
  <2>1. Len(code') >= 4 /\ phase' # "done"
    <3>1. Len(code') = 4
      BY <1>3, <1>4
    <3>2. phase' = "body"
      BY <1>1
    <3> QED BY <3>1, <3>2
  <2>2. Depth' = (Below(Len(frames)) + Ready)'
    BY <1>6, <1>8
  <2> QED BY <2>1, <2>2 DEF Reached
<1>10. Begun' /\ EndDepth'
  BY <1>7 DEF Begun, EndDepth, Awaits
<1>11. Numbered(code', labelCount')
  <2>1. Main < labelCount'
    BY <1>1 DEF Main
  <2> QED BY <1>3, <1>4, <1>5, <2>1 DEF Numbered
<1>12. SameDepth(code')
  BY <1>5 DEF SameDepth
<1> QED BY <1>9, <1>10, <1>11, <1>12 DEF DepthInv

(* The value of the expression is popped.                                  *)
LEMMA DepthFinish == LabelInv /\ DepthInv /\ Finish => DepthInv'
<1> SUFFICES ASSUME LabelInv, DepthInv, Finish PROVE DepthInv'
  OBVIOUS
<1> DEFINE w == <<Reg("pop", "rax"), Op("ret")>>
<1>1. /\ phase = "body" /\ frames = <<>> /\ code' = code \o w /\ code \in Seq(Instruction)
      /\ phase' = "done" /\ UNCHANGED <<ast, labelCount, frames>>
  BY DEF Finish, Write, LabelInv, GenTypes
<1>2. /\ Reg("pop", "rax") \in Quiet /\ Effect(Reg("pop", "rax")) = -1
      /\ Op("ret") \in Quiet /\ Effect(Op("ret")) = 0
  BY Effects, SteadyOps DEF Registers
<1>3. -1 \in Int /\ 0 \in Int /\ -1 + 0 = -1
  OBVIOUS
<1>4. Turns(w, -1, 0)
  <2>1. Turns(w, -1 + 0, 0)
    BY <1>2, <1>3, PairTurns
  <2> QED BY <1>3, <2>1
<1>5. Uses(w, {})
  <2>1. w \in Seq(Quiet)
    BY <1>2, Tuples
  <2> QED BY <2>1, UsesQuiet
<1> HIDE DEF w
<1>6. Depth = 1 /\ Len(code) >= 4 /\ SameDepth(code) /\ Numbered(code, labelCount)
  <2>1. Ready = 1 /\ Len(frames) = 0
    BY <1>1 DEF Ready
  <2>2. Below(Len(frames)) = 0
    BY <2>1, WidthStep DEF Below
  <2> QED BY <1>1, <2>1, <2>2 DEF DepthInv, Reached
<1>7. Depth' = Depth + (-1) /\ SameDepth(code') /\ Numbered(code', labelCount)
  BY <1>1, <1>3, <1>4, <1>5, <1>6, Writing DEF Depth
<1>8. \A f \in 1..Len(frames') : FALSE
  BY <1>1
<1>9. Begun' /\ EndDepth'
  BY <1>1, <1>8 DEF Begun, EndDepth
<1>10. Reached'
  BY <1>1, <1>6, <1>7 DEF Reached
<1> QED BY <1>1, <1>7, <1>9, <1>10 DEF DepthInv

LEMMA DepthNext == LabelInv /\ DepthInv /\ [Next]_vars => DepthInv'
<1> SUFFICES ASSUME LabelInv, DepthInv, [Next]_vars PROVE DepthInv'
  OBVIOUS
<1>0. /\ 0 \in Int /\ 1 \in Int /\ -1 \in Int /\ 0 \in Nat
      /\ 0 + 0 = 0 /\ 1 + 0 = 1 /\ 1 + (-1) = 0 /\ 2 + (-1) = 1 /\ 0 + 1 = 1
      /\ 1 \in 1..2 /\ 2 \in 1..2
  OBVIOUS
<1>1. CASE Open
  BY <1>1, DepthOpen
<1>2. CASE OpenFails
  <2>1. /\ UNCHANGED <<ast, code, labelCount, frames>> /\ phase' = "crashed"
        /\ frames = <<>> /\ code = <<>>
    BY <1>2 DEF OpenFails, LabelInv, Phases
  <2>2. /\ \A i \in 4..Len(code') : FALSE
        /\ \A i \in 1..Len(frames') : FALSE
        /\ \A i \in 1..(Len(frames') - 1) : FALSE
    BY <2>1
  <2> QED BY <2>1, <2>2 DEF DepthInv, Reached, Begun, EndDepth, Numbered, SameDepth
<1>3. CASE Finish
  BY <1>3, DepthFinish
<1>4. CASE CodegenConstant
  <2> DEFINE w == <<Num("push_imm", Node.number)>>
  <2>1. /\ phase = "body" /\ frames # <<>> /\ Node.kind = "CONSTANT" /\ Top.step = 0
        /\ Write(w) /\ Return /\ UNCHANGED <<ast, labelCount, phase>>
    BY <1>4 DEF CodegenConstant, Running
  <2>2. Node.number \in Nat
    BY <2>1, Trees, TopNode DEF Node, Top, LabelInv, GenTypes
  <2>3. /\ Num("push_imm", Node.number) \in Quiet
        /\ Effect(Num("push_imm", Node.number)) = 1
    BY <2>2, Effects
  <2>4. Turns(w, 1, 0)
    BY <1>0, <2>3, SingleTurns
  <2>5. Uses(w, {})
    <3>1. w \in Seq(Quiet)
      BY <2>3, Tuples
    <3> QED BY <3>1, UsesQuiet
  <2>6. Ready + 1 = 1
    <3>1. Ready = 0
      <4>1. frames # <<>> /\ Top.step = 0
        BY <2>1
      <4> QED BY <4>1 DEF Ready
    <3> QED BY <1>0, <3>1
  <2> HIDE DEF w
  <2> QED BY <1>0, <2>1, <2>4, <2>5, <2>6, DepthReturn
<1>5. ASSUME CallLeft \/ CallRight PROVE DepthInv'
  <2>1. PICK step, child :
            /\ step \in 1..2 /\ child \in Nodes /\ Call(step, 0, child)
            /\ Ready + 0 = IF step = 2 /\ Node.kind \in PlainKinds THEN 1 ELSE 0
            /\ ~(step = 2 /\ Node.kind \in LogicalKinds)
    <3>1. CASE CallLeft
      <4>1. /\ frames # <<>> /\ Node.kind \in BinaryKinds /\ Top.step = 0
            /\ Call(1, 0, Node.left)
        BY <3>1 DEF CallLeft, Running
      <4>2. Node.left \in Nodes
        BY <4>1, Trees, TopNode DEF Node, LabelInv, GenTypes
      <4>3. Ready = 0
        BY <4>1 DEF Ready
      <4> QED BY <1>0, <4>1, <4>2, <4>3
    <3>2. CASE CallRight
      <4>1. /\ frames # <<>> /\ Call(2, 0, Node.right)
            /\ \/ Node.kind \in UnaryKinds /\ Top.step = 0
               \/ Node.kind \in PlainKinds /\ Top.step = 1
        BY <3>2 DEF CallRight, Running
      <4>2. /\ Node.right \in Nodes /\ Node.kind \notin LogicalKinds
            /\ Node.kind \in UnaryKinds => Node.kind \notin PlainKinds
        BY <4>1, Trees, TopNode, Kinds DEF Node, LabelInv, GenTypes, BinaryKinds
      <4>3. Ready = IF Node.kind \in PlainKinds THEN 1 ELSE 0
        BY <4>1, <4>2 DEF Ready
      <4> QED BY <1>0, <4>1, <4>2, <4>3
    <3> QED BY <1>5, <3>1, <3>2
  <2>2. /\ phase = "body" /\ frames # <<>> /\ UNCHANGED <<ast, code, labelCount, phase>>
        /\ labelCount \in Nat /\ code \in Seq(Instruction)
    BY <1>5 DEF CallLeft, CallRight, Running, LabelInv, GenTypes
  <2> DEFINE w == <<>>
  <2>3. Write(w)
    BY <2>2 DEF Write
  <2>4. w \in Seq(Quiet) /\ \A i \in 1..Len(w) : FALSE
    OBVIOUS
  <2>5. Turns(w, 0, 0) /\ Uses(w, {})
    <3>1. w \in Seq(Instruction) /\ Len(w) + 1 = 1
      OBVIOUS
    <3>2. \A ops : {j \in 1..(1 - 1) : w[j].op \in ops} = {}
      OBVIOUS
    <3> HIDE DEF w
    <3>3. Total(w) = 0
      <4>1. \A ops : Count(w, 1, 1, ops) = 0
        BY <3>2, FS_EmptySet DEF Count
      <4> QED BY <3>1, <4>1 DEF Total, Gain
    <3> QED BY <2>4, <3>1, <3>3 DEF Turns, Uses
  <2> HIDE DEF w
  <2>6. labelCount' \in Nat /\ labelCount <= labelCount' /\ UNCHANGED <<ast, phase>>
    BY <2>2
  <2> QED BY <1>0, <2>1, <2>2, <2>3, <2>5, <2>6, DepthCall
<1>6. CASE TestLeft
  <2> DEFINE w == TestCode(Node.kind, labelCount, labelCount + 1)
             N == {labelCount, labelCount + 1}
  <2>1. /\ phase = "body" /\ frames # <<>> /\ Node.kind \in LogicalKinds /\ Top.step = 1
        /\ Write(w) /\ labelCount' = labelCount + 2 /\ Call(2, labelCount + 1, Node.right)
        /\ UNCHANGED <<ast, phase>> /\ labelCount \in Nat
    BY <1>6 DEF TestLeft, Running, LabelInv, GenTypes
  <2>2. Node.right \in Nodes /\ Node.kind \notin PlainKinds
    BY <2>1, Trees, TopNode, Kinds DEF Node, LabelInv, GenTypes, BinaryKinds
  <2>3. Turns(w, -1, -1) /\ Uses(w, N)
    BY <2>1, TestTurns, TestUses
  <2>4. /\ labelCount + 1 \in Nat /\ labelCount' \in Nat /\ labelCount <= labelCount'
        /\ \A n \in N : n < labelCount'
        /\ labelCount + 1 \in N
    BY <2>1
  <2>5. Ready + (-1) = 0
    BY <1>0, <2>1, <2>2 DEF Ready
  <2>6. ASSUME NEW n \in N PROVE Landing(code, n, Depth + (-1))
    <3>1. \A i \in 4..Len(code) : Mark(code[i]) => code[i].n < labelCount
      BY DEF DepthInv, Numbered
    <3>2. \A i \in 4..Len(code) : Mark(code[i]) => code[i].n # n
      BY <2>1, <3>1
    <3> QED BY <3>2 DEF Landing
  <2>7. \A f \in 1..(Len(frames) - 1) : Awaits(f) => frames[f].end \notin N
    <3>1. \A f \in 1..(Len(frames) - 1) : f \in 1..Len(frames) /\ frames[f] \in Calls
      BY DEF LabelInv, GenTypes
    <3>2. \A f \in 1..(Len(frames) - 1) : Awaits(f) => frames[f].end < labelCount
      BY <3>1 DEF LabelInv, PendingOnce
    <3> QED BY <2>1, <3>1, <3>2 DEF Calls
  <2> HIDE DEF w, N
  <2> QED BY <1>0, <2>1, <2>2, <2>3, <2>4, <2>5, <2>6, <2>7, DepthCall
<1>7. CASE CodegenUnary
  <2> DEFINE w == UnaryCode(Node.kind)
  <2>1. /\ phase = "body" /\ frames # <<>> /\ Node.kind \in UnaryKinds /\ Top.step = 2
        /\ Write(w) /\ Return /\ UNCHANGED <<ast, labelCount, phase>>
    BY <1>7 DEF CodegenUnary, Running
  <2>2. Turns(w, 0, 0) /\ Uses(w, {})
    BY <1>0, <2>1, UnaryTurns, UnaryQuiet, UsesQuiet
  <2>3. Ready + 0 = 1
    BY <1>0, <2>1, Kinds DEF Ready, BinaryKinds
  <2> HIDE DEF w
  <2> QED BY <1>0, <2>1, <2>2, <2>3, DepthReturn
<1>8. CASE CodegenPlain
  <2> DEFINE w == PlainCode(Node.kind)
  <2>1. /\ phase = "body" /\ frames # <<>> /\ Node.kind \in PlainKinds /\ Top.step = 2
        /\ Write(w) /\ Return /\ UNCHANGED <<ast, labelCount, phase>>
    BY <1>8 DEF CodegenPlain, Running
  <2>2. Turns(w, -1, 0) /\ Uses(w, {})
    BY <1>0, <2>1, PlainTurns, PlainQuiet, UsesQuiet
  <2>3. Ready + (-1) = 1
    BY <1>0, <2>1 DEF Ready
  <2> HIDE DEF w
  <2> QED BY <1>0, <2>1, <2>2, <2>3, DepthReturn
<1>9. CASE CodegenLogical
  <2> DEFINE e == Top.end
             w == LogicalCode(e)
  <2>1. /\ phase = "body" /\ frames # <<>> /\ Node.kind \in LogicalKinds /\ Top.step = 2
        /\ Write(w) /\ Return /\ UNCHANGED <<ast, labelCount, phase>>
    BY <1>9 DEF CodegenLogical, Running
  <2>2. PICK x : x = Len(frames)
    OBVIOUS
  <2>3. /\ x \in Nat \ {0} /\ x \in 1..Len(frames) /\ frames[x] \in Calls
        /\ frames[x].end = e /\ Awaits(x) /\ e \in Nat
    <3>1. x \in Nat \ {0} /\ x \in 1..Len(frames) /\ frames[x] \in Calls
      BY <2>1, <2>2 DEF LabelInv, GenTypes
    <3>2. frames[x].end = e /\ Awaits(x)
      BY <2>1, <2>2 DEF Top, Node, Awaits
    <3> QED BY <3>1, <3>2 DEF Calls
  <2>4. Turns(w, 0, -1) /\ Uses(w, {e})
    BY <2>3, LogicalTurns, LogicalUses
  <2>5. Ready = 1
    BY <2>1, Kinds DEF Ready
  <2>6. /\ e < labelCount
        /\ \A f \in 1..Len(frames) : Awaits(f) /\ frames[f].end = e => x = f
    BY <2>3 DEF LabelInv, PendingOnce
  <2>7. Landing(code, e, Depth + (-1))
    <3>1. Landing(code, e, Below(x))
      BY <2>3 DEF DepthInv, EndDepth
    <3>2. Depth = Below(x) + 1
      BY <2>1, <2>2, <2>5 DEF DepthInv, Reached
    <3>3. Below(x) \in Nat
      BY <2>3, WidthStep DEF Below
    <3>4. Depth + (-1) = Below(x)
      BY <3>2, <3>3
    <3> QED BY <3>1, <3>4
  <2>8. \A f \in 1..(Len(frames) - 1) : Awaits(f) => frames[f].end \notin {e}
    <3>1. \A f \in 1..(x - 1) : f \in 1..x /\ f # x
      BY <2>3
    <3> QED BY <2>2, <2>6, <3>1
  <2>9. Ready + 0 = 1
    BY <2>5
  <2>10. \A n \in {e} : n < labelCount /\ Landing(code, n, Depth + (-1))
    BY <2>6, <2>7
  <2> HIDE DEF w, e
  <2> QED BY <1>0, <2>1, <2>4, <2>8, <2>9, <2>10, DepthReturn
<1>10. CASE UNCHANGED vars
  BY <1>10 DEF vars, DepthInv, Reached, Begun, EndDepth, Numbered, SameDepth, Landing, Awaits,
               Below, Waiters, Waits, Depth, Ready, Top, Node
<1> QED BY <1>1, <1>2, <1>3, <1>4, <1>5, <1>6, <1>7, <1>8, <1>9, <1>10
        DEF Next, Generate, Terminating

(* The stack is balanced: between two calls it holds what they wait for,   *)
(* every jump lands as deep as it left, and nothing is left at the end.    *)
THEOREM CodegenBalanced == Spec => []StackBalanced
<1>1. LabelInv /\ DepthInv => StackBalanced
  <2> SUFFICES ASSUME LabelInv, DepthInv PROVE StackBalanced
    OBVIOUS
  <2>1. \A k : Net(k) = Gain(code, 4, k)
    BY DEF Net, Places, Gain, Count, Pushes
  <2>2. Waiting = Below(Len(frames))
    <3>1. {i \in 1..(Len(frames) - 1) : frames[i].step = 2
                                       /\ ast[frames[i].node].kind \in PlainKinds}
          = {i \in 1..(Len(frames) - 1) : i \in Waiters}
      <4>1. \A i \in 1..(Len(frames) - 1) : i \in 1..Len(frames)
        BY DEF LabelInv, GenTypes
      <4> QED BY <4>1 DEF Waiters, Waits
    <3> QED BY <3>1 DEF Waiting, Below, Width
  <2>3. phase = "body" => Net(Len(code) + 1) = Waiting + Ready
    BY <2>1, <2>2 DEF DepthInv, Reached, Depth
  <2>4. phase = "done" => Net(Len(code) + 1) = 0
    BY <2>1 DEF DepthInv, Reached, Depth
  <2>5. \A i, j \in 4..Len(code) :
            IsJump(i) /\ IsLabel(j) /\ code[i].n = code[j].n => Net(i) = Net(j)
    BY <2>1 DEF DepthInv, SameDepth, IsJump, IsLabel, Mark
  <2> QED BY <2>3, <2>4, <2>5 DEF StackBalanced
<1>2. Spec => []DepthInv
  BY LabelInvariant, DepthInit, DepthNext, PTL DEF Spec
<1> QED BY <1>1, <1>2, LabelInvariant, PTL
----------------------------------------------------------------------------
(* The processor that runs the program: module Machine.                     *)

(* Powers of two. *)

(* Induction: a set of numbers that is not empty has a least one.          *)
LEMMA LeastNumber ==
  ASSUME NEW T \in SUBSET Nat, T # {}
  PROVE  \E n \in T : \A m \in T : n <= m
<1> DEFINE R == {ss \in Nat \X Nat : ss[1] < ss[2]}
<1>1. IsWellFoundedOn(R, Nat)
  BY NatLessThanWellFounded DEF OpToRel
<1> HIDE DEF R
<1>2. PICK n \in T : \A m \in T : ~(<<m, n>> \in R)
  BY <1>1, WFMin
<1>3. \A m \in T : ~(m < n)
  BY <1>2 DEF R
<1> QED BY <1>3

LEMMA Doubling ==
  ASSUME NEW n \in Nat
  PROVE  2 ^ n \in Nat \ {0} /\ 2 ^ (n + 1) = 2 * 2 ^ n
<1> DEFINE S == SUBSET (1..n)
           T == SUBSET (1..(n + 1))
           U == {X \cup {n + 1} : X \in S}
           f == [X \in S |-> X \cup {n + 1}]
<1>1. IsFiniteSet(1..n) /\ Cardinality(1..n) = n
  BY FS_Interval
<1>2. IsFiniteSet(1..(n + 1)) /\ Cardinality(1..(n + 1)) = n + 1
  BY FS_Interval
<1>3. IsFiniteSet(S) /\ Cardinality(S) = 2 ^ n
  BY <1>1, FS_SUBSET, Zenon
<1>4. IsFiniteSet(T) /\ Cardinality(T) = 2 ^ (n + 1)
  BY <1>2, FS_SUBSET, Zenon
<1>5. f \in Bijection(S, U)
  <2>1. n + 1 \notin 1..n
    OBVIOUS
  <2>2. ASSUME NEW X \in S, NEW Y \in S, X \cup {n + 1} = Y \cup {n + 1} PROVE X = Y
    BY <2>1, <2>2
  <2>3. f \in [S -> U]
    OBVIOUS
  <2>4. \A u \in U : \E X \in S : f[X] = u
    OBVIOUS
  <2>5. \A X, Y \in S : f[X] = f[Y] => X = Y
    BY <2>2
  <2> HIDE DEF f, S, U
  <2> QED BY <2>3, <2>4, <2>5, Fun_IsBij
<1>6. IsFiniteSet(U) /\ Cardinality(U) = Cardinality(S)
  <2>1. ExistsBijection(S, U)
    BY <1>5 DEF ExistsBijection
  <2> HIDE DEF f, S, U
  <2> QED BY <2>1, <1>3, FS_Bijection
<1>7. T = S \cup U
  <2>1. 1..(n + 1) = (1..n) \cup {n + 1}
    OBVIOUS
  <2>2. ASSUME NEW X \in T PROVE X \in S \cup U
    <3>1. CASE n + 1 \in X
      <4>1. X \ {n + 1} \in S
        BY <2>1, <2>2
      <4>2. X = (X \ {n + 1}) \cup {n + 1}
        BY <3>1
      <4> QED BY <4>1, <4>2
    <3>2. CASE n + 1 \notin X
      BY <2>1, <3>2
    <3> QED BY <3>1, <3>2
  <2>3. ASSUME NEW X \in S \cup U PROVE X \in T
    BY <2>1, <2>3
  <2> QED BY <2>2, <2>3
<1>8. S \cap U = {}
  <2>1. n + 1 \notin 1..n
    OBVIOUS
  <2> QED BY <2>1
<1>9. Cardinality(T) = Cardinality(S) + Cardinality(U)
  <2> HIDE DEF f, S, U, T
  <2>1. Cardinality(S \cup U) = Cardinality(S) + Cardinality(U) - Cardinality(S \cap U)
    BY <1>3, <1>6, FS_Union
  <2>2. Cardinality(S \cap U) = 0 /\ Cardinality(S) \in Nat /\ Cardinality(U) \in Nat
    BY <1>8, <1>3, <1>6, FS_EmptySet, FS_CardinalityType
  <2> QED BY <2>1, <2>2, <1>7
<1>10. 2 ^ n # 0
  <2>1. S # {}
    OBVIOUS
  <2> HIDE DEF S
  <2> QED BY <2>1, <1>3, FS_EmptySet
<1>11. 2 ^ n \in Nat
  <2> HIDE DEF S
  <2> QED BY <1>3, FS_CardinalityType
<1> QED
  <2> DEFINE s == Cardinality(S)  t == Cardinality(T)  u == Cardinality(U)
             p == 2 ^ n  q == 2 ^ (n + 1)
  <2> SUFFICES p \in Nat \ {0} /\ q = 2 * p
    OBVIOUS
  <2>1. s = p /\ t = q /\ u = s /\ t = s + u /\ p \in Nat /\ p # 0
    BY <1>3, <1>4, <1>6, <1>9, <1>10, <1>11
  <2> HIDE DEF s, t, u, p, q
  <2> QED BY <2>1

LEMMA PowerGrows ==
  ASSUME NEW m \in Nat, NEW n \in Nat, m <= n
  PROVE  2 ^ m <= 2 ^ n
<1> DEFINE T == {k \in Nat : m <= k /\ ~(2 ^ m <= 2 ^ k)}
<1> SUFFICES ASSUME T # {} PROVE FALSE
  OBVIOUS
<1>1. PICK k \in T : \A j \in T : k <= j
  BY LeastNumber
<1>2. k \in Nat /\ m <= k /\ ~(2 ^ m <= 2 ^ k)
  OBVIOUS
<1>3. k # m
  BY <1>2, Doubling
<1>4. PICK j \in Nat : j + 1 = k
  BY <1>2, <1>3
<1>5. m <= j /\ j \notin T
  BY <1>1, <1>2, <1>3, <1>4
<1>6. 2 ^ m <= 2 ^ j
  BY <1>5
<1>7. 2 ^ j \in Nat /\ 2 ^ k = 2 * 2 ^ j /\ 2 ^ m \in Nat
  BY <1>4, Doubling
<1> QED
  <2> DEFINE a == 2 ^ m  b == 2 ^ j  c == 2 ^ k
  <2>1. a <= b /\ b \in Nat /\ c = 2 * b /\ a \in Nat /\ ~(a <= c)
    BY <1>2, <1>6, <1>7
  <2> HIDE DEF a, b, c
  <2> QED BY <2>1

(* The halves a word of b bits is made of.                                 *)
LEMMA Half ==
  ASSUME NEW b \in Nat \ {0}
  PROVE  2 ^ (b - 1) \in Nat \ {0} /\ 2 ^ b = 2 * 2 ^ (b - 1)
<1>1. PICK a \in Nat : a + 1 = b
  OBVIOUS
<1>2. b - 1 = a
  BY <1>1
<1> QED BY <1>1, <1>2, Doubling

LEMMA Modulo ==
  ASSUME NEW x \in Int, NEW p \in Nat \ {0}
  PROVE  /\ x % p \in 0..(p - 1) /\ x \div p \in Int
         /\ x = p * (x \div p) + (x % p)
         /\ x \in 0..(p - 1) => x % p = x
OBVIOUS

(* Two's complement: what Signed returns fits, and what fits is itself.    *)
LEMMA SignedFits ==
  ASSUME NEW x \in Int, NEW b \in Nat \ {0}
  PROVE  /\ C!Signed(x, b) \in Int /\ C!Fits(C!Signed(x, b), b)
         /\ C!Fits(x, b) => C!Signed(x, b) = x
<1> DEFINE h == 2 ^ (b - 1)  p == 2 ^ b  y == (x + h) % p
<1>1. h \in Nat \ {0} /\ p = 2 * h
  BY Half
<1>2. C!Signed(x, b) = y - h /\ (\A z : C!Fits(z, b) <=> z \in (-h)..(h - 1))
  BY DEF C!Signed, C!Fits
<1>3. y \in 0..(p - 1) /\ (x + h \in 0..(p - 1) => y = x + h)
  <2> HIDE DEF h, p
  <2>1. p \in Nat \ {0} /\ x + h \in Int
    BY <1>1
  <2> DEFINE z == x + h
  <2> HIDE DEF z
  <2> QED BY <2>1, Modulo DEF z
<1> HIDE DEF h, p, y
<1> QED BY <1>1, <1>2, <1>3
----------------------------------------------------------------------------
(* What the texts of the generator consist of. *)

BodyOps  == Operations \ {"call", "ret", "exit", "mov_rdi"}
Sound(x) ==
    /\ x.op \in BodyOps
    /\ x.op \in {"push", "pop"} => x.reg # ""
    /\ Mark(x) => x.n \in Nat
Inner == {x \in Instruction : Sound(x) /\ x.op # "pop"}

(* A text of such instructions, none of which pops more than d values that *)
(* were there before and those the text has pushed itself.                 *)
Text(w, d) ==
    /\ w \in Seq(Instruction)
    /\ \A i \in 1..Len(w) : Sound(w[i]) /\ (w[i].op = "pop" => Gain(w, 1, i) + d >= 1)

LEMMA TextThen ==
  ASSUME NEW d \in Int, NEW v, NEW w, Text(v, d), w \in Seq(Inner)
  PROVE  Text(v \o w, d)
<1> DEFINE c == v \o w
<1>0. Inner \subseteq Instruction /\ w \in Seq(Instruction) /\ v \in Seq(Instruction)
  BY DEF Inner, Text
<1>1. /\ c \in Seq(Instruction) /\ Len(v) \in Nat /\ Len(c) = Len(v) + Len(w) /\ Len(w) \in Nat
      /\ \A i \in 1..Len(v) : c[i] = v[i]
      /\ \A i \in (Len(v) + 1)..(Len(v) + Len(w)) : i - Len(v) \in 1..Len(w) /\ c[i] = w[i - Len(v)]
  BY <1>0, Concat
<1>2. \A k \in 1..(Len(v) + 1) : Gain(c, 1, k) = Gain(v, 1, k)
  BY <1>0, GainConcat
<1>3. \A i \in 1..Len(w) : Sound(w[i]) /\ w[i].op # "pop"
  <2>1. \A i \in 1..Len(w) : w[i] \in Inner
    OBVIOUS
  <2> QED BY <2>1 DEF Inner
<1> HIDE DEF c
<1>4. ASSUME NEW i \in 1..Len(c) PROVE Sound(c[i]) /\ (c[i].op = "pop" => Gain(c, 1, i) + d >= 1)
  <2>1. CASE i \in 1..Len(v)
    <3>1. i \in 1..(Len(v) + 1)
      BY <1>1, <2>1
    <3>2. c[i] = v[i] /\ Gain(c, 1, i) = Gain(v, 1, i)
      BY <1>1, <1>2, <2>1, <3>1
    <3> QED BY <2>1, <3>2 DEF Text
  <2>2. CASE i \notin 1..Len(v)
    <3>1. i \in (Len(v) + 1)..(Len(v) + Len(w))
      BY <1>1, <2>2
    <3>2. i - Len(v) \in 1..Len(w) /\ c[i] = w[i - Len(v)]
      BY <1>1, <3>1
    <3> QED BY <1>3, <3>2
  <2> QED BY <2>1, <2>2
<1> QED BY <1>1, <1>4 DEF Text, c

Names == {"rax", "rdi", "rcx", "rdx"}

LEMMA InnerInstructions ==
  /\ \A op \in Steady \ {"ret", "exit", "mov_rdi"} : Op(op) \in Inner
  /\ \A r \in Names : Reg("push", r) \in Inner
  /\ \A n \in Nat : Num("push_imm", n) \in Inner
  /\ \A op \in {"jmp", "je", "jne", "label"}, n \in Nat : Num(op, n) \in Inner
<1>1. ASSUME NEW op \in Steady \ {"ret", "exit", "mov_rdi"} PROVE Op(op) \in Inner
  BY DEF Inner, Sound, Instruction, Op, Num, BodyOps, Steady, Silent, Branches,
         Operations, Registers, Pushes, Mark
<1>2. ASSUME NEW r \in Names PROVE Reg("push", r) \in Inner
  BY DEF Inner, Sound, Instruction, Reg, Names, BodyOps, Branches, Operations, Registers, Mark
<1>3. ASSUME NEW n \in Nat PROVE Num("push_imm", n) \in Inner
  BY DEF Inner, Sound, Instruction, Num, BodyOps, Branches, Operations, Registers, Mark
<1>4. ASSUME NEW op \in {"jmp", "je", "jne", "label"}, NEW n \in Nat PROVE Num(op, n) \in Inner
  BY DEF Inner, Sound, Instruction, Num, BodyOps, Branches, Operations, Registers, Mark
<1> QED BY <1>1, <1>2, <1>3, <1>4

LEMMA TextPop ==
  ASSUME NEW r \in Names
  PROVE  Text(<<Reg("pop", r)>>, 1)
<1> DEFINE w == <<Reg("pop", r)>>
<1>1. Reg("pop", r) \in Instruction /\ Sound(Reg("pop", r))
  BY DEF Sound, Instruction, Reg, Names, BodyOps, Branches, Operations, Registers, Mark
<1>2. w \in Seq(Instruction) /\ Len(w) = 1 /\ \A i \in 1..Len(w) : i = 1 /\ w[i] = Reg("pop", r)
  <2> HIDE DEF Instruction
  <2> QED BY <1>1
<1> HIDE DEF w
<1>3. \A ops : {j \in 1..(1 - 1) : w[j].op \in ops} = {}
  OBVIOUS
<1>4. Gain(w, 1, 1) = 0
  <2>1. \A ops : Count(w, 1, 1, ops) = 0
    BY <1>3, FS_EmptySet DEF Count
  <2> QED BY <2>1 DEF Gain
<1> QED BY <1>1, <1>2, <1>4 DEF Text, w

LEMMA TextPopBoth ==
  ASSUME NEW r \in Names
  PROVE  Text(PopBoth(r), 2)
<1> DEFINE w == <<Reg("pop", r), Reg("pop", "rax")>>
           v == <<Reg("pop", r)>>
           u == <<Reg("pop", "rax")>>
<1>0. "rax" \in Names
  BY DEF Names
<1>1. \A s \in Names : Reg("pop", s) \in Instruction /\ Sound(Reg("pop", s)) /\ Reg("pop", s).op = "pop"
  BY DEF Sound, Instruction, Reg, Names, BodyOps, Branches, Operations, Registers, Mark
<1>2. /\ w \in Seq(Instruction) /\ Len(w) = 2
      /\ \A i \in 1..Len(w) : (i = 1 \/ i = 2) /\ w[i] \in {Reg("pop", r), Reg("pop", "rax")}
      /\ w[1].op = "pop"
  <2> HIDE DEF Instruction
  <2> QED BY <1>0, <1>1
<1> HIDE DEF w
<1>3. /\ \A ops : {j \in 1..(1 - 1) : w[j].op \in ops} = {}
      /\ {j \in 1..(2 - 1) : w[j].op \in Pushes} = {}
      /\ {j \in 1..(2 - 1) : w[j].op \in {"pop"}} = {1}
  BY <1>2 DEF Pushes
<1>4. Gain(w, 1, 1) = 0 /\ Gain(w, 1, 2) = -1
  <2>1. \A ops : Count(w, 1, 1, ops) = 0
    BY <1>3, FS_EmptySet DEF Count
  <2>2. Count(w, 1, 2, Pushes) = 0 /\ Count(w, 1, 2, {"pop"}) = 1
    BY <1>3, FS_EmptySet, FS_Singleton DEF Count
  <2> QED BY <2>1, <2>2 DEF Gain
<1>5. \A i \in 1..Len(w) : Sound(w[i]) /\ Gain(w, 1, i) + 2 >= 1
  BY <1>0, <1>1, <1>2, <1>4
<1> QED BY <1>2, <1>5 DEF Text, w, PopBoth

LEMMA TextUnary ==
  ASSUME NEW kind \in UnaryKinds
  PROVE  Text(UnaryCode(kind), 1)
<1> DEFINE pop == <<Reg("pop", "rax")>>
           push == <<Reg("push", "rax")>>
<1>1. /\ Reg("push", "rax") \in Inner /\ Op("neg") \in Inner /\ Op("not") \in Inner
      /\ Op("cmp_0") \in Inner /\ Op("sete") \in Inner /\ Op("movzx") \in Inner
  BY InnerInstructions, SteadyOps DEF Names
<1>2. /\ push \in Seq(Inner) /\ <<Op("neg")>> \in Seq(Inner) /\ <<Op("not")>> \in Seq(Inner)
      /\ <<Op("cmp_0")>> \in Seq(Inner) /\ Flag("sete") \in Seq(Inner)
      /\ <<Op("cmp_0")>> \o Flag("sete") \in Seq(Inner)
  BY <1>1, Tuples DEF Flag
<1>3. Text(pop, 1)
  BY TextPop DEF Names
<1> HIDE DEF pop, push
<1>4. \A mid \in Seq(Inner) : Text((pop \o mid) \o push, 1)
  BY <1>2, <1>3, TextThen
<1>5. UnaryCode(kind) = pop \o (CASE kind = "ARITHMETIC_NEGATION" -> <<Op("neg")>>
          [] kind = "BITWISE_NEGATION" -> <<Op("not")>>
          [] kind = "LOGICAL_NEGATION" -> <<Op("cmp_0")>> \o Flag("sete")) \o push
  BY DEF UnaryCode, pop, push
<1>6. CASE kind = "ARITHMETIC_NEGATION"
  BY <1>2, <1>4, <1>5, <1>6
<1>7. CASE kind = "BITWISE_NEGATION"
  BY <1>2, <1>4, <1>5, <1>7
<1>8. CASE kind = "LOGICAL_NEGATION"
  BY <1>2, <1>4, <1>5, <1>8
<1> QED BY <1>6, <1>7, <1>8 DEF UnaryKinds

LEMMA TextPlain ==
  ASSUME NEW kind \in PlainKinds
  PROVE  Text(PlainCode(kind), 2)
<1>1. /\ Reg("push", "rax") \in Inner /\ Reg("push", "rdx") \in Inner
      /\ Op("cqo") \in Inner /\ Op("idiv") \in Inner /\ Op("cmp_rdi") \in Inner
      /\ Op("movzx") \in Inner
  BY InnerInstructions, SteadyOps DEF Names
<1>2. /\ \A k \in DOMAIN Arithmetic : Op(Arithmetic[k]) \in Inner
      /\ \A k \in DOMAIN Shift : Op(Shift[k]) \in Inner
      /\ \A k \in DOMAIN Condition : Op(Condition[k]) \in Inner
  <2>1. /\ \A k \in DOMAIN Arithmetic : Arithmetic[k] \in Steady \ {"ret", "exit", "mov_rdi"}
        /\ \A k \in DOMAIN Shift : Shift[k] \in Steady \ {"ret", "exit", "mov_rdi"}
        /\ \A k \in DOMAIN Condition : Condition[k] \in Steady \ {"ret", "exit", "mov_rdi"}
    BY SteadyOps DEF Arithmetic, Shift, Condition
  <2> QED BY <2>1, InnerInstructions
<1>3. Text(PopBoth("rdi"), 2) /\ Text(PopBoth("rcx"), 2)
  BY TextPopBoth DEF Names
<1>4. CASE kind \in DOMAIN Arithmetic
  <2>1. PlainCode(kind) = PopBoth("rdi") \o <<Op(Arithmetic[kind]), Reg("push", "rax")>>
    BY <1>4 DEF PlainCode, Arithmetic, Shift, Condition
  <2> DEFINE rest == <<Op(Arithmetic[kind]), Reg("push", "rax")>>
  <2>2. rest \in Seq(Inner)
    BY <1>1, <1>2, <1>4, Tuples
  <2> HIDE DEF rest
  <2>3. \A head : Text(head, 2) => Text(head \o rest, 2)
    BY <2>2, TextThen
  <2> QED BY <1>3, <2>1, <2>3, Zenon DEF rest
<1>5. CASE kind \in DOMAIN Shift
  <2>1. PlainCode(kind) = PopBoth("rcx") \o <<Op(Shift[kind]), Reg("push", "rax")>>
    BY <1>5 DEF PlainCode, Arithmetic, Shift, Condition
  <2> DEFINE rest == <<Op(Shift[kind]), Reg("push", "rax")>>
  <2>2. rest \in Seq(Inner)
    BY SMTT(30), <1>1, <1>2, <1>5, Tuples
  <2> HIDE DEF rest
  <2>3. \A head : Text(head, 2) => Text(head \o rest, 2)
    BY <2>2, TextThen
  <2> QED BY <1>3, <2>1, <2>3, ZenonT(40) DEF rest
<1>6. CASE kind \in DOMAIN Condition
  <2> DEFINE compare == <<Op("cmp_rdi")>>
             flag == Flag(Condition[kind])
             push == <<Reg("push", "rax")>>
  <2>1. PlainCode(kind) = PopBoth("rdi") \o compare \o flag \o push
    BY SMTT(30), <1>6 DEF PlainCode, Arithmetic, Shift, Condition
  <2>2. compare \in Seq(Inner) /\ flag \in Seq(Inner) /\ push \in Seq(Inner)
    BY SMTT(30), <1>1, <1>2, <1>6, Tuples DEF Flag
  <2> HIDE DEF compare, flag, push
  <2> QED BY SMTT(30), <1>3, <2>1, <2>2, TextThen
<1>7. CASE kind \in {"DIVISION", "MODULUS"}
  <2>1. PICK r \in {"rax", "rdx"} :
            PlainCode(kind) = PopBoth("rdi") \o <<Op("cqo"), Op("idiv"), Reg("push", r)>>
    BY <1>7 DEF PlainCode, Arithmetic, Shift, Condition
  <2> DEFINE rest == <<Op("cqo"), Op("idiv"), Reg("push", r)>>
  <2>2. rest \in Seq(Inner)
    BY <1>1, Tuples
  <2> HIDE DEF rest
  <2>3. \A head : Text(head, 2) => Text(head \o rest, 2)
    BY <2>2, TextThen
  <2> QED BY <1>3, <2>1, <2>3, ZenonT(40) DEF rest
<1> QED BY <1>4, <1>5, <1>6, <1>7 DEF PlainKinds

LEMMA TextTest ==
  ASSUME NEW kind \in LogicalKinds, NEW on \in Nat, NEW end \in Nat
  PROVE  Text(TestCode(kind, on, end), 1)
<1> DEFINE pop == <<Reg("pop", "rax")>>
           cmp == <<Op("cmp_0")>>
           middle == IF kind = "LOGICAL_AND" THEN <<Num("jne", on)>> ELSE <<Num("je", on), Op("mov_1")>>
           tail == <<Num("jmp", end), Num("label", on)>>
<1>1. /\ Op("cmp_0") \in Inner /\ Op("mov_1") \in Inner
      /\ \A op \in {"jmp", "je", "jne", "label"}, n \in Nat : Num(op, n) \in Inner
  BY InnerInstructions, SteadyOps
<1>2. cmp \in Seq(Inner) /\ middle \in Seq(Inner) /\ tail \in Seq(Inner)
  BY <1>1, Tuples
<1>3. Text(pop, 1)
  BY TextPop DEF Names
<1>4. pop \o cmp = <<Reg("pop", "rax"), Op("cmp_0")>>
  <2>1. \A a, b \in {Reg("pop", "rax"), Op("cmp_0")} : <<a>> \o <<b>> = <<a, b>>
    BY Pair
  <2> QED BY <2>1
<1>5. TestCode(kind, on, end) = (pop \o cmp) \o middle \o tail
  BY <1>4 DEF TestCode
<1> HIDE DEF pop, cmp, middle, tail
<1> QED BY <1>2, <1>3, <1>5, TextThen

LEMMA TextLogical ==
  ASSUME NEW end \in Nat
  PROVE  Text(LogicalCode(end), 1)
<1> DEFINE pop == <<Reg("pop", "rax")>>
           cmp == <<Op("cmp_0")>>
           tail == <<Num("label", end), Reg("push", "rax")>>
<1>1. /\ Op("cmp_0") \in Inner /\ Op("setne") \in Inner /\ Op("movzx") \in Inner
      /\ Num("label", end) \in Inner /\ Reg("push", "rax") \in Inner
  BY InnerInstructions, SteadyOps DEF Names
<1>2. cmp \in Seq(Inner) /\ Flag("setne") \in Seq(Inner) /\ tail \in Seq(Inner)
  BY <1>1, Tuples DEF Flag
<1>3. Text(pop, 1)
  BY TextPop DEF Names
<1>4. pop \o cmp = <<Reg("pop", "rax"), Op("cmp_0")>>
  <2>1. \A a, b \in {Reg("pop", "rax"), Op("cmp_0")} : <<a>> \o <<b>> = <<a, b>>
    BY Pair
  <2> QED BY <2>1
<1>5. LogicalCode(end) = (pop \o cmp) \o Flag("setne") \o tail
  BY <1>4 DEF LogicalCode
<1> HIDE DEF pop, cmp, tail
<1> QED BY <1>2, <1>3, <1>5, TextThen

(* The finished program: the header, main's label, the body, and ret.      *)
Prologue(c) ==
    /\ Len(c) >= 4
    /\ c[1] = Num("call", Main) /\ c[2] = Op("mov_rdi") /\ c[3] = Op("exit")
    /\ c[4] = Num("label", Main)
Body(c, last) ==
    \A i \in 5..last : Sound(c[i]) /\ (c[i].op = "pop" => Gain(c, 4, i) >= 1)
LayoutInv ==
    /\ phase \in {"body", "done"} => Prologue(code)
    /\ phase = "body" => Body(code, Len(code))
    /\ phase = "done" => Body(code, Len(code) - 1) /\ Len(code) >= 5
                         /\ code[Len(code)].op = "ret"

LEMMA LayoutWrite ==
  ASSUME NEW c \in Seq(Instruction), NEW w, NEW d \in Int, Text(w, d), Len(c) >= 4,
         Body(c, Len(c)), Gain(c, 4, Len(c) + 1) >= d
  PROVE  Body(c \o w, Len(c \o w)) /\ (Prologue(c) => Prologue(c \o w))
<1> DEFINE e == c \o w
<1>0. w \in Seq(Instruction)
  BY DEF Text
<1>1. /\ e \in Seq(Instruction) /\ Len(c) \in Nat /\ Len(e) = Len(c) + Len(w) /\ Len(w) \in Nat
      /\ \A i \in 1..Len(c) : e[i] = c[i]
      /\ \A i \in (Len(c) + 1)..(Len(c) + Len(w)) : i - Len(c) \in 1..Len(w) /\ e[i] = w[i - Len(c)]
  BY <1>0, Concat
<1>2. /\ \A k \in 1..(Len(c) + 1) : Gain(e, 4, k) = Gain(c, 4, k)
      /\ \A k \in 1..(Len(w) + 1) : Gain(e, 4, Len(c) + k) = Gain(c, 4, Len(c) + 1) + Gain(w, 1, k)
      /\ \A k \in Int : Gain(c, 4, k) \in Int /\ Gain(w, 1, k) \in Int
  <2>1. 4 <= Len(c) + 1 /\ 4 \in Nat \ {0} /\ 1 \in Nat \ {0}
    BY <1>1
  <2> QED BY ZenonT(40), <1>0, <2>1, GainConcat
<1> HIDE DEF e
<1>3. ASSUME NEW i \in 5..Len(e) PROVE Sound(e[i]) /\ (e[i].op = "pop" => Gain(e, 4, i) >= 1)
  <2>1. CASE i <= Len(c)
    <3>1. i \in 1..Len(c) /\ i \in 1..(Len(c) + 1) /\ i \in 5..Len(c)
      BY <1>1, <2>1
    <3>2. e[i] = c[i] /\ Gain(e, 4, i) = Gain(c, 4, i)
      BY <1>1, <1>2, <3>1
    <3> QED BY <3>1, <3>2 DEF Body
  <2>2. CASE i > Len(c)
    <3>1. i \in (Len(c) + 1)..(Len(c) + Len(w))
      BY <1>1, <2>2
    <3>2. PICK k : k = i - Len(c)
      OBVIOUS
    <3>3. k \in 1..Len(w) /\ k \in 1..(Len(w) + 1) /\ Len(c) + k = i /\ e[i] = w[k] /\ k \in Int
      BY <1>1, <3>1, <3>2
    <3>4. Gain(e, 4, i) = Gain(c, 4, Len(c) + 1) + Gain(w, 1, k)
      <4>1. Gain(e, 4, Len(c) + k) = Gain(c, 4, Len(c) + 1) + Gain(w, 1, k)
        BY <1>2, <3>3
      <4> QED BY <3>3, <4>1
    <3>5. Sound(w[k]) /\ (w[k].op = "pop" => Gain(w, 1, k) + d >= 1)
      BY <3>3 DEF Text
    <3>6. Gain(w, 1, k) \in Int /\ Gain(c, 4, Len(c) + 1) \in Int
      BY <1>1, <1>2, <3>3
    <3>7. Sound(e[i])
      BY <3>3, <3>5, Zenon
    <3>8. ASSUME e[i].op = "pop" PROVE Gain(e, 4, i) >= 1
      BY <3>3, <3>4, <3>5, <3>6, <3>8
    <3> QED BY <3>7, <3>8
  <2> QED BY <1>1, <2>1, <2>2
<1>4. ASSUME Prologue(c) PROVE Prologue(e)
  <2>1. 1 \in 1..Len(c) /\ 2 \in 1..Len(c) /\ 3 \in 1..Len(c) /\ 4 \in 1..Len(c) /\ Len(e) >= 4
    BY <1>1
  <2>2. e[1] = c[1] /\ e[2] = c[2] /\ e[3] = c[3] /\ e[4] = c[4]
    BY <1>1, <2>1
  <2> QED BY <1>4, <2>1, <2>2 DEF Prologue
<1> QED BY <1>3, <1>4 DEF Body, e

LEMMA DepthAtLeast ==
  LabelInv /\ DepthInv /\ phase = "body" => /\ Len(code) >= 4 /\ code \in Seq(Instruction)
                                            /\ Ready \in Nat /\ Depth \in Int /\ Depth >= Ready
<1> SUFFICES ASSUME LabelInv, DepthInv, phase = "body"
             PROVE  /\ Len(code) >= 4 /\ code \in Seq(Instruction)
                    /\ Ready \in Nat /\ Depth \in Int /\ Depth >= Ready
  OBVIOUS
<1>1. Len(code) >= 4 /\ Depth = Below(Len(frames)) + Ready
  BY DEF DepthInv, Reached
<1>2. Ready \in Nat
  BY DEF Ready
<1>3. Len(frames) \in Nat /\ code \in Seq(Instruction)
  BY DEF LabelInv, GenTypes
<1>4. Below(Len(frames)) \in Nat
  BY <1>3, WidthStep DEF Below
<1> QED BY <1>1, <1>2, <1>3, <1>4

LEMMA LayoutOpen == LabelInv /\ Open => LayoutInv'
<1> SUFFICES ASSUME LabelInv, Open PROVE LayoutInv'
  OBVIOUS
<1> DEFINE a == Num("call", Main)  b == Op("mov_rdi")  c == Op("exit")  d == Num("label", Main)
<1>1. code = <<>> /\ phase' = "body" /\ code' = <<>> \o (<<a, b, c>> \o <<d>>)
  BY DEF Open, LabelInv, Phases, Write, Header
<1> DEFINE S == {a, b, c, d}  v == <<a, b, c>>  u == <<d>>
<1>2. /\ v \in Seq(S) /\ Len(v) = 3 /\ v[1] = a /\ v[2] = b /\ v[3] = c
      /\ u \in Seq(S) /\ Len(u) = 1 /\ u[1] = d
  <2> HIDE DEF a, b, c, d
  <2> QED OBVIOUS
<1> HIDE DEF a, b, c, d, S, v, u
<1>3. Len(code') = 4 /\ code'[1] = a /\ code'[2] = b /\ code'[3] = c /\ code'[4] = d
  <2>1. code' = <<>> \o (v \o u)
    BY <1>1 DEF v, u
  <2>2. v \o u \in Seq(S) /\ <<>> \o (v \o u) = v \o u
    BY <1>2
  <2>3. /\ Len(v \o u) = Len(v) + Len(u)
        /\ \A i \in 1..Len(v) : (v \o u)[i] = v[i]
        /\ \A i \in 1..Len(u) : (v \o u)[Len(v) + i] = u[i]
    <3>1. v \in Seq(S) /\ u \in Seq(S)
      BY <1>2
    <3> QED BY <3>1, Concat
  <2>4. 1 \in 1..Len(v) /\ 2 \in 1..Len(v) /\ 3 \in 1..Len(v) /\ 1 \in 1..Len(u) /\ Len(v) + 1 = 4
    BY <1>2
  <2> DEFINE w == v \o u
  <2>5. Len(w) = 4 /\ w[1] = a /\ w[2] = b /\ w[3] = c /\ w[4] = d
    BY <1>2, <2>3, <2>4
  <2>6. code' = w
    BY <2>1, <2>2, Zenon
  <2> HIDE DEF w
  <2> QED BY <2>5, <2>6
<1>4. Prologue(code')
  BY <1>3 DEF Prologue, a, b, c, d
<1>5. \A i \in 5..Len(code') : FALSE
  BY <1>3
<1> QED BY <1>1, <1>4, <1>5 DEF LayoutInv, Body

(* What a call writes, pops no more than the values it has made itself.    *)
LEMMA LayoutText ==
  ASSUME LabelInv, DepthInv, LayoutInv, phase = "body", phase' = "body",
         NEW w, Write(w), NEW d \in Int, d <= Ready, Text(w, d)
  PROVE  LayoutInv'
<1>1. /\ code \in Seq(Instruction) /\ Len(code) >= 4 /\ Gain(code, 4, Len(code) + 1) >= d
      /\ Body(code, Len(code)) /\ Prologue(code) /\ code' = code \o w
  BY DepthAtLeast DEF LayoutInv, Depth, Write
<1>2. Body(code \o w, Len(code \o w)) /\ Prologue(code \o w)
  BY <1>1, LayoutWrite
<1> QED BY <1>1, <1>2 DEF LayoutInv

LEMMA LayoutFinish == LabelInv /\ DepthInv /\ LayoutInv /\ Finish => LayoutInv'
<1> SUFFICES ASSUME LabelInv, DepthInv, LayoutInv, Finish PROVE LayoutInv'
  OBVIOUS
<1> DEFINE pop == <<Reg("pop", "rax")>>
           ret == <<Op("ret")>>
           c == code \o pop
<1>1. phase = "body" /\ frames = <<>> /\ phase' = "done" /\ code' = code \o <<Reg("pop", "rax"), Op("ret")>>
  BY DEF Finish, Write
<1>2. Op("ret") \in Instruction /\ Reg("pop", "rax") \in Instruction /\ Op("ret").op = "ret"
  BY DEF Op, Num, Reg, Instruction, Operations, Registers
<1>3. /\ code \in Seq(Instruction) /\ Len(code) >= 4 /\ Gain(code, 4, Len(code) + 1) >= 1
      /\ Body(code, Len(code)) /\ Prologue(code)
  <2>1. Ready = 1
    BY <1>1 DEF Ready
  <2> QED BY <1>1, <2>1, DepthAtLeast DEF LayoutInv, Depth
<1>4. Text(pop, 1)
  BY TextPop DEF Names
<1>5. pop \in Seq(Instruction) /\ Len(pop) = 1 /\ ret \in Seq(Instruction) /\ Len(ret) = 1 /\ ret[1] = Op("ret")
  <2> HIDE DEF Instruction
  <2> QED BY <1>2
<1>6. pop \o ret = <<Reg("pop", "rax"), Op("ret")>>
  <2>1. \A a, b \in {Reg("pop", "rax"), Op("ret")} : <<a>> \o <<b>> = <<a, b>>
    BY Pair
  <2> QED BY <2>1
<1> HIDE DEF pop, ret
<1>7. code' = c \o ret
  <2>1. \A x, y, z \in Seq(Instruction) : x \o (y \o z) = (x \o y) \o z
    <3> HIDE DEF Instruction
    <3> QED OBVIOUS
  <2>2. code' = code \o (pop \o ret)
    BY <1>1, <1>6, Zenon
  <2> QED BY <1>3, <1>5, <2>1, <2>2
<1>8. c \in Seq(Instruction) /\ Body(c, Len(c)) /\ Prologue(c) /\ Len(c) = Len(code) + 1
  <2>1. 1 \in Int
    OBVIOUS
  <2>2. Body(code \o pop, Len(code \o pop)) /\ Prologue(code \o pop)
    BY <1>3, <1>4, <2>1, LayoutWrite
  <2>3. code \o pop \in Seq(Instruction) /\ Len(code \o pop) = Len(code) + Len(pop)
    BY <1>3, <1>5, Concat
  <2> QED BY <1>5, <2>2, <2>3
<1> HIDE DEF c
<1>9. /\ code' \in Seq(Instruction) /\ Len(code') = Len(c) + 1 /\ Len(c) >= 4 /\ Len(c) \in Nat
      /\ \A i \in 1..Len(c) : code'[i] = c[i]
      /\ code'[Len(c) + 1] = ret[1]
  <2>1. /\ c \o ret \in Seq(Instruction) /\ Len(c \o ret) = Len(c) + Len(ret)
        /\ \A i \in 1..Len(c) : (c \o ret)[i] = c[i]
        /\ \A i \in 1..Len(ret) : (c \o ret)[Len(c) + i] = ret[i]
    <3>1. c \in Seq(Instruction) /\ ret \in Seq(Instruction)
      BY <1>5, <1>8
    <3> QED BY <3>1, Concat
  <2>2. 1 \in 1..Len(ret)
    BY <1>5
  <2>3. Len(c) >= 4 /\ Len(c) \in Nat
    BY <1>3, <1>8
  <2> QED BY <1>5, <1>7, <2>1, <2>2, <2>3
<1>10. \A k \in 1..(Len(c) + 1) : Gain(code', 4, k) = Gain(c, 4, k)
  <2>1. \A k \in 1..(Len(c) + 1) : Gain(c \o ret, 4, k) = Gain(c, 4, k)
    BY <1>5, <1>8, GainConcat
  <2> QED BY <1>7, <2>1
<1>11. Len(code') - 1 = Len(c) /\ Len(code') >= 5 /\ code'[Len(code')].op = "ret"
  BY <1>2, <1>5, <1>9
<1>12. Body(code', Len(c))
  <2>1. \A i \in 5..Len(c) : i \in 1..Len(c) /\ i \in 1..(Len(c) + 1)
    BY <1>9
  <2>2. \A i \in 5..Len(c) : code'[i] = c[i] /\ Gain(code', 4, i) = Gain(c, 4, i)
    BY <1>9, <1>10, <2>1
  <2> QED BY <1>8, <2>2 DEF Body
<1>13. Prologue(code')
  <2>1. 1 \in 1..Len(c) /\ 2 \in 1..Len(c) /\ 3 \in 1..Len(c) /\ 4 \in 1..Len(c) /\ Len(code') >= 4
    BY <1>9
  <2>2. code'[1] = c[1] /\ code'[2] = c[2] /\ code'[3] = c[3] /\ code'[4] = c[4]
    BY <1>9, <2>1
  <2> QED BY <1>8, <2>1, <2>2 DEF Prologue
<1> QED BY <1>1, <1>11, <1>12, <1>13 DEF LayoutInv

LEMMA LayoutNext == LabelInv /\ DepthInv /\ LayoutInv /\ [Next]_vars => LayoutInv'
<1> SUFFICES ASSUME LabelInv, DepthInv, LayoutInv, [Next]_vars PROVE LayoutInv'
  OBVIOUS
<1>0. 1 \in Int /\ 2 \in Int /\ 0 \in Int
  OBVIOUS
<1>1. CASE Open
  BY <1>1, LayoutOpen
<1>2. CASE OpenFails \/ CallLeft \/ CallRight \/ UNCHANGED vars
  <2>1. code' = code /\ (phase' = phase \/ phase' = "crashed")
    BY <1>2 DEF OpenFails, CallLeft, CallRight, vars
  <2> QED BY <2>1 DEF LayoutInv
<1>3. CASE Finish
  BY <1>3, LayoutFinish
<1>4. CASE CodegenConstant
  <2> DEFINE w == <<Num("push_imm", Node.number)>>
  <2>1. /\ phase = "body" /\ frames # <<>> /\ Node.kind = "CONSTANT" /\ Top.step = 0
        /\ Write(w) /\ phase' = phase
    BY <1>4 DEF CodegenConstant, Running
  <2>2. Node.number \in Nat
    BY <2>1, Trees, TopNode DEF Node, Top, LabelInv, GenTypes
  <2>3. Num("push_imm", Node.number) \in Inner
    BY <2>2, InnerInstructions
  <2>4. w \in Seq(Inner) /\ Inner \subseteq Instruction
    BY <2>3, Tuples DEF Inner
  <2>5. Text(w, 0)
    <3>1. \A i \in 1..Len(w) : w[i] \in Inner
      BY <2>4
    <3>2. w \in Seq(Instruction)
      BY <2>4
    <3> HIDE DEF w
    <3>3. \A i \in 1..Len(w) : Sound(w[i]) /\ w[i].op # "pop"
      BY <3>1 DEF Inner
    <3> QED BY <3>2, <3>3 DEF Text
  <2>6. 0 <= Ready
    BY <2>1 DEF Ready
  <2> HIDE DEF w
  <2> QED BY <1>0, <2>1, <2>5, <2>6, LayoutText
<1>5. CASE TestLeft
  <2>1. /\ phase = "body" /\ frames # <<>> /\ Node.kind \in LogicalKinds /\ Top.step = 1
        /\ Write(TestCode(Node.kind, labelCount, labelCount + 1))
        /\ phase' = phase /\ labelCount \in Nat /\ labelCount + 1 \in Nat
    BY <1>5 DEF TestLeft, Running, LabelInv, GenTypes
  <2>2. 1 <= Ready
    BY <2>1, Kinds DEF Ready
  <2> QED BY <1>0, <2>1, <2>2, LayoutText, TextTest
<1>6. CASE CodegenUnary
  <2>1. /\ phase = "body" /\ frames # <<>> /\ Node.kind \in UnaryKinds /\ Top.step = 2
        /\ Write(UnaryCode(Node.kind)) /\ phase' = phase
    BY <1>6 DEF CodegenUnary, Running
  <2>2. 1 <= Ready
    BY <2>1 DEF Ready
  <2> QED BY <1>0, <2>1, <2>2, LayoutText, TextUnary
<1>7. CASE CodegenPlain
  <2>1. /\ phase = "body" /\ frames # <<>> /\ Node.kind \in PlainKinds /\ Top.step = 2
        /\ Write(PlainCode(Node.kind)) /\ phase' = phase
    BY <1>7 DEF CodegenPlain, Running
  <2>2. 2 <= Ready
    BY <2>1 DEF Ready
  <2> QED BY <1>0, <2>1, <2>2, LayoutText, TextPlain
<1>8. CASE CodegenLogical
  <2>1. /\ phase = "body" /\ frames # <<>> /\ Node.kind \in LogicalKinds /\ Top.step = 2
        /\ Write(LogicalCode(Top.end)) /\ phase' = phase
    BY <1>8 DEF CodegenLogical, Running
  <2>2. 1 <= Ready /\ Top.end \in Nat
    <3>1. Top \in Calls
      BY <2>1 DEF Top, LabelInv, GenTypes
    <3> QED BY <2>1, <3>1 DEF Ready, Calls
  <2> QED BY <1>0, <2>1, <2>2, LayoutText, TextLogical
<1> QED BY <1>1, <1>2, <1>3, <1>4, <1>5, <1>6, <1>7, <1>8 DEF Next, Generate, Terminating
----------------------------------------------------------------------------
(* The arithmetic of the processor. *)

Bits == [C!Pairs -> 0..1]

LEMMA Widths ==
  /\ WordBits \in Nat \ {0} /\ IntBits \in Nat \ {0} /\ ByteBits \in Nat \ {0}
  /\ IntBits <= WordBits
  /\ 2 ^ (WordBits - 1) \in Nat /\ 2 ^ (WordBits - 1) >= 2
  /\ 2 ^ (IntBits - 1) \in Nat /\ 2 ^ (IntBits - 1) <= 2 ^ (WordBits - 1)
  /\ 2 ^ ByteBits \in Nat \ {0} /\ 2 ^ ByteBits <= 2 ^ (WordBits - 1)
<1>1. /\ WordBits \in Nat /\ IntBits \in 2..WordBits /\ ByteBits \in 1..(WordBits - 1)
  BY WidthAssumption
<1>2. /\ WordBits - 1 \in Nat /\ IntBits - 1 \in Nat /\ ByteBits \in Nat
      /\ IntBits - 1 <= WordBits - 1 /\ ByteBits <= WordBits - 1 /\ 1 <= WordBits - 1
      /\ 1 \in Nat /\ 0 \in Nat /\ 0 + 1 = 1
  BY <1>1
<1>3. /\ 2 ^ (WordBits - 1) \in Nat /\ 2 ^ (IntBits - 1) \in Nat /\ 2 ^ ByteBits \in Nat \ {0}
  BY <1>2, Doubling
<1>4. 2 ^ (IntBits - 1) <= 2 ^ (WordBits - 1) /\ 2 ^ ByteBits <= 2 ^ (WordBits - 1)
      /\ 2 ^ 1 <= 2 ^ (WordBits - 1)
  BY <1>2, PowerGrows
<1>5. 2 ^ 1 = 2
  <2>1. 2 ^ (0 + 1) = 2 * 2 ^ 0
    BY <1>2, Doubling
  <2>2. 2 ^ 0 = 1
    OBVIOUS
  <2> QED BY <2>1, <2>2
<1> QED BY <1>1, <1>3, <1>4, <1>5

LEMMA FitsWord ==
  \A x : (C!Fits(x, WordBits) <=> x \in Words) /\ (C!Fits(x, IntBits) => x \in Words)
<1>1. Words = (-(2 ^ (WordBits - 1)))..(2 ^ (WordBits - 1) - 1)
  BY DEF Words
<1>2. \A x, b : C!Fits(x, b) <=> x \in (-(2 ^ (b - 1)))..(2 ^ (b - 1) - 1)
  BY DEF C!Fits
<1> DEFINE h == 2 ^ (WordBits - 1)  k == 2 ^ (IntBits - 1)
<1>3. h \in Nat /\ k \in Nat /\ k <= h
  BY Widths
<1>4. \A x : (C!Fits(x, WordBits) <=> x \in (-h)..(h - 1)) /\ (C!Fits(x, IntBits) <=> x \in (-k)..(k - 1))
  BY <1>2
<1>5. Words = (-h)..(h - 1)
  BY <1>1
<1> HIDE DEF h, k
<1> QED BY <1>3, <1>4, <1>5

LEMMA WordIn ==
  ASSUME NEW x \in Int
  PROVE  /\ Word(x) \in Words /\ Word(x) \in Int /\ (x \in Words => Word(x) = x)
         /\ Immediate(x) \in Words /\ (C!Fits(x, IntBits) => Immediate(x) = x)
<1>1. C!Fits(C!Signed(x, WordBits), WordBits) /\ (C!Fits(x, WordBits) => C!Signed(x, WordBits) = x)
      /\ C!Signed(x, WordBits) \in Int
  BY Widths, SignedFits
<1>2. C!Fits(C!Signed(x, IntBits), IntBits) /\ (C!Fits(x, IntBits) => C!Signed(x, IntBits) = x)
  BY Widths, SignedFits
<1> QED BY <1>1, <1>2, FitsWord DEF Word, Immediate

LEMMA LowIn ==
  ASSUME NEW x \in Int
  PROVE  /\ Low(x) \in 0..(2 ^ ByteBits - 1) /\ Low(x) \in Words /\ Low(x) \in Nat
         /\ x \in 0..(2 ^ ByteBits - 1) => Low(x) = x
<1> DEFINE p == 2 ^ ByteBits  h == 2 ^ (WordBits - 1)
<1>1. p \in Nat \ {0} /\ p <= h /\ h \in Nat
  BY Widths
<1>2. Words = (-h)..(h - 1) /\ Low(x) = x % p
  BY DEF Words, Low
<1> HIDE DEF p, h
<1>3. x % p \in 0..(p - 1) /\ (x \in 0..(p - 1) => x % p = x)
  BY <1>1, Modulo
<1>4. 0..(p - 1) \subseteq Words /\ 0..(p - 1) \subseteq Nat
  BY <1>1, <1>2
<1> QED BY <1>2, <1>3, <1>4 DEF p

(* The numbers BitByBit builds bit by bit.                                 *)
IsLow(g, f, x, y, b) ==
    g = [i \in 0..b |-> IF i = 0 THEN 0
                        ELSE g[i - 1] + f[<<C!Bit(x, i - 1), C!Bit(y, i - 1)>>] * 2 ^ (i - 1)]

LEMMA LowExists ==
  ASSUME NEW f, NEW x, NEW y, NEW b \in Nat
  PROVE  \E g : IsLow(g, f, x, y, b)
<1> DEFINE T == {n \in Nat : ~\E g : IsLow(g, f, x, y, n)}
           Term(i) == f[<<C!Bit(x, i), C!Bit(y, i)>>] * 2 ^ i
<1> SUFFICES ASSUME T # {} PROVE FALSE
  OBVIOUS
<1>0. \A g, n : IsLow(g, f, x, y, n) <=>
                    g = [i \in 0..n |-> IF i = 0 THEN 0 ELSE g[i - 1] + Term(i - 1)]
  BY DEF IsLow
<1> HIDE DEF Term
<1>1. PICK n \in T : \A m \in T : n <= m
  BY LeastNumber
<1>2. n \in Nat /\ ~\E g : IsLow(g, f, x, y, n)
  OBVIOUS
<1>3. CASE n = 0
  <2> DEFINE g == [m \in 0..n |-> 0]
  <2>1. \A m \in 0..n : m = 0
    BY <1>3
  <2>2. g = [m \in 0..n |-> IF m = 0 THEN 0 ELSE g[m - 1] + Term(m - 1)]
    BY <2>1
  <2> HIDE DEF g
  <2> QED BY <1>0, <1>2, <2>2
<1>4. CASE n > 0
  <2>1. n - 1 \in Nat /\ n - 1 \notin T
    BY <1>1, <1>2, <1>4
  <2>2. PICK h : IsLow(h, f, x, y, n - 1)
    BY <2>1
  <2>3. h = [i \in 0..(n - 1) |-> IF i = 0 THEN 0 ELSE h[i - 1] + Term(i - 1)]
    BY <1>0, <2>2
  <2> DEFINE g == [m \in 0..n |-> IF m = n THEN h[n - 1] + Term(n - 1) ELSE h[m]]
  <2>4. ASSUME NEW m \in 0..n
        PROVE  g[m] = IF m = 0 THEN 0 ELSE g[m - 1] + Term(m - 1)
    <3>1. CASE m = n
      <4>1. m - 1 \in 0..n /\ m - 1 # n /\ m # 0
        BY <1>2, <1>4, <3>1
      <4>2. g[m - 1] = h[m - 1]
        BY <4>1
      <4> QED BY <3>1, <4>1, <4>2
    <3>2. CASE m # n
      <4>1. m \in 0..(n - 1) /\ g[m] = h[m]
        BY <1>2, <3>2
      <4>2. h[m] = IF m = 0 THEN 0 ELSE h[m - 1] + Term(m - 1)
        BY <2>3, <4>1
      <4>3. m # 0 => m - 1 \in 0..n /\ m - 1 # n
        BY <1>2, <4>1
      <4>4. m # 0 => g[m - 1] = h[m - 1]
        BY <4>3
      <4> QED BY <4>1, <4>2, <4>4
    <3> QED BY <3>1, <3>2
  <2>5. g = [m \in 0..n |-> IF m = 0 THEN 0 ELSE g[m - 1] + Term(m - 1)]
    <3> DEFINE k == [m \in 0..n |-> IF m = 0 THEN 0 ELSE g[m - 1] + Term(m - 1)]
    <3>1. DOMAIN g = 0..n /\ DOMAIN k = 0..n /\ g = [m \in DOMAIN g |-> g[m]] /\ k = [m \in DOMAIN k |-> k[m]]
      OBVIOUS
    <3>2. \A m \in 0..n : k[m] = g[m]
      BY <2>4
    <3> HIDE DEF g, k
    <3>3. g = k
      BY <3>1, <3>2
    <3> QED BY <3>3 DEF k
  <2> HIDE DEF g
  <2> QED BY <1>0, <1>2, <2>5
<1> QED BY <1>2, <1>3, <1>4

LEMMA BitIn ==
  ASSUME NEW f \in Bits, NEW x \in Int, NEW y \in Int, NEW i \in Nat
  PROVE  /\ C!Bit(x, i) \in 0..1 /\ C!Bit(y, i) \in 0..1
         /\ f[<<C!Bit(x, i), C!Bit(y, i)>>] \in 0..1
<1>1. 2 ^ i \in Nat \ {0}
  BY Doubling
<1> DEFINE p == 2 ^ i
<1>2. C!Bit(x, i) = (x \div p) % 2 /\ C!Bit(y, i) = (y \div p) % 2
  BY DEF C!Bit
<1> HIDE DEF p
<1>3. x \div p \in Int /\ y \div p \in Int
  BY <1>1, Modulo DEF p
<1>4. C!Bit(x, i) \in 0..1 /\ C!Bit(y, i) \in 0..1
  BY <1>2, <1>3
<1> QED BY <1>4 DEF Bits, C!Pairs

LEMMA LowRange ==
  ASSUME NEW f \in Bits, NEW x \in Int, NEW y \in Int, NEW b \in Nat, NEW g, IsLow(g, f, x, y, b)
  PROVE  /\ g[0] = 0
         /\ \A i \in 1..b : g[i] = g[i - 1] + f[<<C!Bit(x, i - 1), C!Bit(y, i - 1)>>] * 2 ^ (i - 1)
         /\ \A i \in 0..b : g[i] \in Int
<1>1. /\ 0 \in 0..b /\ \A i \in 1..b : i \in 0..b /\ i # 0
  OBVIOUS
<1>2. g[0] = 0
  BY <1>1 DEF IsLow
<1>3. ASSUME NEW i \in 1..b
      PROVE  g[i] = g[i - 1] + f[<<C!Bit(x, i - 1), C!Bit(y, i - 1)>>] * 2 ^ (i - 1)
  BY <1>1 DEF IsLow
<1>4. ASSUME NEW i \in 0..b PROVE g[i] \in Int
  <2> DEFINE T == {n \in Nat : n <= b /\ g[n] \notin Int}
  <2> SUFFICES ASSUME T # {} PROVE FALSE
    OBVIOUS
  <2>1. PICK n \in T : \A m \in T : n <= m
    BY LeastNumber
  <2>2. n \in 1..b /\ n - 1 \in Nat /\ g[n] \notin Int
    BY <1>2
  <2>3. g[n - 1] \in Int
    BY <2>1, <2>2
  <2>4. f[<<C!Bit(x, n - 1), C!Bit(y, n - 1)>>] \in 0..1 /\ 2 ^ (n - 1) \in Nat
    BY <2>2, BitIn, Doubling
  <2> DEFINE t == f[<<C!Bit(x, n - 1), C!Bit(y, n - 1)>>]  p == 2 ^ (n - 1)
  <2>5. g[n] = g[n - 1] + t * p /\ t \in 0..1 /\ p \in Nat
    BY <1>3, <2>2, <2>4
  <2> HIDE DEF t, p
  <2>6. t * p \in Int
    BY <2>5
  <2> QED BY <2>2, <2>3, <2>5, <2>6
<1> QED BY <1>2, <1>3, <1>4

LEMMA BitByBitIs ==
  ASSUME NEW f, NEW x, NEW y, NEW b \in Nat
  PROVE  \E g : IsLow(g, f, x, y, b) /\ C!BitByBit(f, x, y, b) = C!Signed(g[b], b)
<1> DEFINE P(g) == IsLow(g, f, x, y, b)
<1>1. \E g : P(g)
  BY LowExists
<1>2. P(CHOOSE g : P(g))
  BY <1>1
<1>3. C!BitByBit(f, x, y, b) = C!Signed((CHOOSE g : P(g))[b], b)
  BY DEF C!BitByBit, IsLow
<1> QED BY <1>2, <1>3

LEMMA BitByBitIn ==
  ASSUME NEW f \in Bits, NEW x \in Int, NEW y \in Int
  PROVE  C!BitByBit(f, x, y, WordBits) \in Words
<1>1. WordBits \in Nat /\ WordBits \in 0..WordBits
  BY Widths
<1>2. PICK g : IsLow(g, f, x, y, WordBits)
               /\ C!BitByBit(f, x, y, WordBits) = C!Signed(g[WordBits], WordBits)
  BY <1>1, BitByBitIs
<1>3. g[WordBits] \in Int
  <2>1. \A i \in 0..WordBits : g[i] \in Int
    BY <1>1, <1>2, LowRange
  <2> QED BY <1>1, <2>1
<1>4. Word(g[WordBits]) \in Words
  BY <1>3, WordIn
<1> QED BY <1>2, <1>4 DEF Word

LEMMA BitOperators == C!AndBit \in Bits /\ C!OrBit \in Bits /\ C!XorBit \in Bits
<1>1. ASSUME NEW p \in C!Pairs
      PROVE  /\ p[1] * p[2] \in 0..1 /\ (IF p[1] + p[2] > 0 THEN 1 ELSE 0) \in 0..1
             /\ (p[1] + p[2]) % 2 \in 0..1
  <2>1. p[1] \in 0..1 /\ p[2] \in 0..1
    BY DEF C!Pairs
  <2>2. \A a, b \in 0..1 : a * b \in 0..1 /\ (a + b) % 2 \in 0..1
    OBVIOUS
  <2> QED BY <2>1, <2>2
<1>2. C!AndBit \in Bits
  BY <1>1 DEF C!AndBit, Bits
<1>3. C!OrBit \in Bits
  BY <1>1 DEF C!OrBit, Bits
<1>4. C!XorBit \in Bits
  BY <1>1 DEF C!XorBit, Bits
<1> QED BY <1>2, <1>3, <1>4

LEMMA WordsInt == Words \subseteq Int /\ {-1, 0, 1} \subseteq Words
<1> DEFINE h == 2 ^ (WordBits - 1)
<1>1. h \in Nat /\ h >= 2 /\ Words = (-h)..(h - 1)
  BY Widths DEF Words
<1> HIDE DEF h
<1> QED BY <1>1

LEMMA ComputeIn ==
  ASSUME NEW op \in {"add", "sub", "imul", "and", "or", "xor"}, NEW a \in Words, NEW b \in Words
  PROVE  Compute(op, a, b) \in Words
<1>1. a \in Int /\ b \in Int
  BY WordsInt
<1>2. a + b \in Int /\ a - b \in Int /\ a * b \in Int
  BY <1>1
<1>3. Word(a + b) \in Words /\ Word(a - b) \in Words /\ Word(a * b) \in Words
  BY <1>2, WordIn
<1>4. /\ C!BitByBit(C!AndBit, a, b, WordBits) \in Words
      /\ C!BitByBit(C!OrBit, a, b, WordBits) \in Words
      /\ C!BitByBit(C!XorBit, a, b, WordBits) \in Words
  BY <1>1, BitByBitIn, BitOperators
<1> QED BY <1>3, <1>4 DEF Compute

LEMMA ShiftedIn ==
  ASSUME NEW a \in Words, NEW c \in Nat
  PROVE  a \div 2 ^ c \in Words
<1> DEFINE h == 2 ^ (WordBits - 1)  p == 2 ^ c  q == a \div p  r == a % p
<1>1. h \in Nat /\ Words = (-h)..(h - 1)
  BY Widths DEF Words
<1>2. p \in Nat \ {0}
  BY Doubling
<1>3. a \in Int
  BY WordsInt
<1> HIDE DEF h, p
<1>4. r \in 0..(p - 1) /\ q \in Int /\ a = p * q + r
  BY <1>2, <1>3, Modulo
<1> HIDE DEF q, r
<1>5. q >= -h
  <2> SUFFICES ASSUME q <= -h - 1 PROVE FALSE
    BY <1>1, <1>4
  <2>1. p * q <= p * (-h - 1)
    BY <1>1, <1>2, <1>4
  <2>2. p * (-h - 1) = -(p * h) - p
    BY <1>1, <1>2
  <2>3. p * h >= h
    BY <1>1, <1>2
  <2>4. p * h \in Int /\ p * q \in Int
    BY <1>1, <1>2, <1>4
  <2> QED BY <1>1, <1>2, <1>3, <1>4, <2>1, <2>2, <2>3, <2>4
<1>6. q <= h - 1
  <2> SUFFICES ASSUME q >= h PROVE FALSE
    BY <1>1, <1>4
  <2>1. p * q >= p * h /\ p * h >= h
    BY <1>1, <1>2, <1>4
  <2>2. p * h \in Int /\ p * q \in Int
    BY <1>1, <1>2, <1>4
  <2> QED BY <1>1, <1>2, <1>3, <1>4, <2>1, <2>2
<1> QED BY <1>1, <1>4, <1>5, <1>6 DEF q, p

LEMMA Dividing ==
  ASSUME NEW x \in Int, NEW y \in Int, y # 0
  PROVE  /\ C!Quotient(x, y) \in Int /\ C!Remainder(x, y) \in Int
         /\ C!Remainder(x, y) > -C!Magnitude(y) /\ C!Remainder(x, y) < C!Magnitude(y)
         /\ C!Magnitude(y) \in Nat
<1> DEFINE m == C!Magnitude(x)  n == C!Magnitude(y)  q == m \div n  r == m % n
           s == C!Sign(x)  t == C!Sign(y)
<1>1. /\ m \in Nat /\ n \in Nat \ {0} /\ s \in {-1, 1} /\ t \in {-1, 1}
      /\ x = s * m /\ y = t * n
  BY DEF C!Magnitude, C!Sign
<1>2. C!Quotient(x, y) = s * t * q
  BY DEF C!Quotient
<1> HIDE DEF m, n, s, t
<1>3. r \in 0..(n - 1) /\ q \in Int /\ m = n * q + r
  BY <1>1, Modulo
<1> HIDE DEF q, r
<1>4. n * q \in Int
  BY <1>1, <1>3
<1>5. C!Remainder(x, y) = x - y * (s * t * q)
  BY <1>2 DEF C!Remainder
<1>6. y * (s * t * q) = s * (n * q)
  <2>1. CASE s = 1 /\ t = 1
    BY <1>1, <1>3, <1>4, <2>1
  <2>2. CASE s = 1 /\ t = -1
    BY <1>1, <1>3, <1>4, <2>2
  <2>3. CASE s = -1 /\ t = 1
    BY <1>1, <1>3, <1>4, <2>3
  <2>4. CASE s = -1 /\ t = -1
    BY <1>1, <1>3, <1>4, <2>4
  <2> QED BY <1>1, <2>1, <2>2, <2>3, <2>4
<1>7. C!Remainder(x, y) = s * r
  <2>1. x = s * (n * q) + s * r
    BY <1>1, <1>3, <1>4
  <2> QED BY <1>1, <1>3, <1>4, <1>5, <1>6, <2>1
<1>8. C!Quotient(x, y) \in Int
  BY <1>1, <1>2, <1>3
<1> QED BY <1>1, <1>3, <1>7, <1>8 DEF n

LEMMA RemainderIn ==
  ASSUME NEW x \in Int, NEW y \in Words, y # 0
  PROVE  C!Remainder(x, y) \in Words
<1> DEFINE h == 2 ^ (WordBits - 1)  r == C!Remainder(x, y)  n == C!Magnitude(y)
<1>1. h \in Nat /\ Words = (-h)..(h - 1)
  BY Widths DEF Words
<1>2. y \in Int
  BY WordsInt
<1>3. r \in Int /\ r > -n /\ r < n /\ n \in Nat
  BY <1>2, Dividing
<1>4. n = IF y < 0 THEN -y ELSE y
  BY DEF C!Magnitude
<1> HIDE DEF h, r, n
<1> QED BY <1>1, <1>2, <1>3, <1>4 DEF r
----------------------------------------------------------------------------
(* The finished program. *)

Static == LabelInv /\ DepthInv /\ LayoutInv

(* An instruction of the body moves the depth by its effect.               *)
LEMMA GainStep ==
  ASSUME NEW c \in Seq(Instruction), NEW i \in 4..Len(c), NEW k, k = i + 1
  PROVE  Gain(c, 4, k) = Gain(c, 4, i) + Effect(c[i]) /\ Gain(c, 4, i) \in Int
<1>0. i \in Int /\ k \in Int /\ 4 \in Int /\ Len(c) \in Nat
  OBVIOUS
<1>1. ASSUME NEW ops
      PROVE  /\ Count(c, 4, k, ops) = Count(c, 4, i, ops) + (IF c[i].op \in ops THEN 1 ELSE 0)
             /\ Count(c, 4, i, ops) \in Nat
  <2> DEFINE A == {j \in 4..(i - 1) : c[j].op \in ops}
             B == {j \in 4..(k - 1) : c[j].op \in ops}
  <2>1. IsFiniteSet(A) /\ Cardinality(A) \in Nat
    <3>1. /\ IsFiniteSet({j \in 4..(i - 1) : c[j].op \in ops})
          /\ Count(c, 4, i, ops) \in Nat
      BY <1>0, CountFinite
    <3> QED BY <3>1 DEF Count
  <2>5. Count(c, 4, i, ops) = Cardinality(A) /\ Count(c, 4, k, ops) = Cardinality(B)
    BY DEF Count
  <2>2. i \notin A
    BY <1>0
  <2>3. CASE c[i].op \in ops
    <3>1. B = A \cup {i}
      BY <1>0, <2>3
    <3>2. Cardinality(A \cup {i}) = Cardinality(A) + 1
      <4> HIDE DEF A
      <4> QED BY <2>1, <2>2, FS_AddElement
    <3> HIDE DEF A, B
    <3> QED BY <2>1, <2>3, <2>5, <3>1, <3>2
  <2>4. CASE c[i].op \notin ops
    <3>1. B = A
      BY <1>0, <2>4
    <3> HIDE DEF A, B
    <3> QED BY <2>1, <2>4, <2>5, <3>1
  <2> QED BY <2>3, <2>4
<1>2. "pop" \notin Pushes
  BY DEF Pushes
<1> QED BY <1>1, <1>2 DEF Gain, Effect

LEMMA GainStart == \A c : Gain(c, 4, 4) = 0
<1> SUFFICES ASSUME NEW c PROVE Gain(c, 4, 4) = 0
  OBVIOUS
<1>1. \A ops : {j \in 4..(4 - 1) : c[j].op \in ops} = {}
  OBVIOUS
<1>2. \A ops : Count(c, 4, 4, ops) = 0
  BY <1>1, FS_EmptySet DEF Count
<1> QED BY <1>2 DEF Gain

(* Where an instruction can stand.                                         *)
LEMMA Placing ==
  ASSUME Static, phase = "done", NEW i \in 1..Len(code)
  PROVE  /\ code \in Seq(Instruction) /\ Len(code) \in Nat /\ Len(code) >= 5
         /\ code[i].op = "call" => i = 1 /\ code[i].n = Main
         /\ code[i].op = "mov_rdi" => i = 2
         /\ code[i].op = "exit" => i = 3
         /\ code[i].op = "ret" <=> i = Len(code)
         /\ i = 1 => code[i].op = "call"
         /\ i = 2 => code[i].op = "mov_rdi"
         /\ i = 3 => code[i].op = "exit"
         /\ i = 4 => code[i].op = "label" /\ code[i].n = Main
         /\ i \in 5..(Len(code) - 1) => /\ Sound(code[i])
                                        /\ code[i].op = "pop" => Gain(code, 4, i) >= 1
<1>1. /\ Prologue(code) /\ Body(code, Len(code) - 1) /\ Len(code) >= 5
      /\ code[Len(code)].op = "ret" /\ code \in Seq(Instruction)
  BY DEF Static, LayoutInv, LabelInv, GenTypes
<1>2. /\ code[1].op = "call" /\ code[1].n = Main /\ code[2].op = "mov_rdi"
      /\ code[3].op = "exit" /\ code[4].op = "label" /\ code[4].n = Main
  <2>1. /\ code[1] = Num("call", Main) /\ code[2] = Op("mov_rdi") /\ code[3] = Op("exit")
        /\ code[4] = Num("label", Main)
    BY <1>1 DEF Prologue
  <2>2. \A x, y : Num(x, y).op = x /\ Num(x, y).n = y
    BY DEF Num
  <2>3. \A x : Op(x).op = x
    BY <2>2 DEF Op
  <2> QED BY <2>1, <2>2, <2>3
<1>3. \A k \in 5..(Len(code) - 1) :
          /\ Sound(code[k]) /\ (code[k].op = "pop" => Gain(code, 4, k) >= 1)
          /\ code[k].op \notin {"call", "mov_rdi", "exit", "ret"}
  BY <1>1 DEF Body, Sound, BodyOps
<1>4. Len(code) \in Nat /\ (i = 1 \/ i = 2 \/ i = 3 \/ i = 4 \/ i \in 5..(Len(code) - 1) \/ i = Len(code))
  BY <1>1
<1> QED BY <1>1, <1>2, <1>3, <1>4

LEMMA TargetIs ==
  ASSUME Static, phase = "done", NEW i \in 1..Len(code), code[i].op \in Branches
  PROVE  /\ Target(code[i].n) \in (i + 1)..Len(code)
         /\ code[Target(code[i].n)].op = "label" /\ code[Target(code[i].n)].n = code[i].n
         /\ i = 1 => Target(code[i].n) = 4
         /\ i >= 4 => Gain(code, 4, Target(code[i].n)) = Gain(code, 4, i)
<1> DEFINE n == code[i].n
           P(j) == j \in 1..Len(code) /\ code[j].op = "label" /\ code[j].n = n
<1>0. code \in Seq(Instruction) /\ Len(code) \in Nat /\ Len(code) >= 5
  BY Placing
<1>1. frames = <<>> /\ n \in Nat \cup {Main}
  <2>1. code[i] \in Instruction
    BY <1>0
  <2> QED BY <2>1 DEF Static, LabelInv, Phases, Instruction
<1>2. ~Dangling(code, n)
  <2>1. ~Pending(n)
    BY <1>1 DEF Pending
  <2> QED BY <1>1, <2>1 DEF Static, LabelInv, JumpsPending
<1>3. PICK j \in (i + 1)..Len(code) : code[j].op = "label" /\ code[j].n = n
  BY <1>2 DEF Dangling
<1>4. P(j)
  BY <1>3
<1>5. \A k : P(k) => k = j
  BY <1>4 DEF Static, LabelInv, Unique
<1>6. Target(n) = j
  <2>1. Target(n) = CHOOSE k \in 1..Len(code) : code[k].op = "label" /\ code[k].n = n
    BY DEF Target, IsLabel
  <2> QED BY <1>4, <1>5, <2>1
<1>7. ASSUME i = 1 PROVE j = 4
  <2>1. n = Main
    BY <1>7, Placing DEF Branches
  <2>2. 4 \in 1..Len(code)
    BY <1>0
  <2>3. P(4)
    BY <2>1, <2>2, Placing
  <2> QED BY <1>5, <2>3
<1>8. ASSUME i >= 4 PROVE Gain(code, 4, j) = Gain(code, 4, i)
  <2>1. i \in 4..Len(code) /\ j \in 4..Len(code)
    BY <1>0, <1>8
  <2> QED BY <1>3, <2>1 DEF Static, DepthInv, SameDepth, Mark
<1> QED BY <1>3, <1>6, <1>7, <1>8

LEMMA LastPlace ==
  ASSUME Static, phase = "done"
  PROVE  Gain(code, 4, Len(code)) = 0
<1>1. code \in Seq(Instruction) /\ Len(code) \in Nat /\ Len(code) >= 5 /\ code[Len(code)].op = "ret"
  BY DEF Static, LayoutInv, LabelInv, GenTypes
<1>2. Depth = 0
  BY DEF Static, DepthInv, Reached
<1>3. Effect(code[Len(code)]) = 0
  BY <1>1 DEF Effect, Pushes
<1> DEFINE i == Len(code)
<1>4. i \in 4..Len(code)
  BY <1>1
<1>5. Gain(code, 4, i + 1) = Gain(code, 4, i) + Effect(code[i]) /\ Gain(code, 4, i) \in Int
  BY <1>1, <1>4, GainStep
<1> QED BY <1>2, <1>3, <1>5 DEF Depth
----------------------------------------------------------------------------
(* What holds while the program runs. *)

(* At the place p of the finished program, s is the stack.                 *)
Held(p, s) ==
    /\ p \in 1..Len(code)
    /\ s \in Seq(Int)
    /\ p <= 3 => s = <<>>
    /\ p >= 4 => /\ Len(s) = 1 + Gain(code, 4, p) /\ Len(s) >= 1 /\ s[1] = 2
                 /\ \A i \in 2..Len(s) : s[i] \in Words

MachineInv ==
    /\ Static
    /\ state \in {"loaded", "running", "exited", "faulted"}
    /\ reg \in [Names -> Words]
    /\ compared \in Words \X Words
    /\ status \in 0..(2 ^ ByteBits - 1)
    /\ state = "loaded" => pc = 1 /\ stack = <<>>
    /\ state # "loaded" => phase = "done" /\ Held(pc, stack)

LEMMA MachineInitial == MachineInit => MachineInv
<1> SUFFICES ASSUME MachineInit PROVE MachineInv
  OBVIOUS
<1>0. /\ Init /\ state = "loaded" /\ pc = 1 /\ reg = [r \in {"rax", "rdi", "rcx", "rdx"} |-> 0]
      /\ compared = <<0, 0>> /\ stack = <<>> /\ status = 0
  BY DEF MachineInit
<1>1. LayoutInv
  BY <1>0 DEF Init, LayoutInv
<1>2. LabelInv /\ DepthInv
  BY <1>0, LabelInit, DepthInit
<1>3. 0 \in Words
  BY WordsInt
<1>4. 0 \in 0..(2 ^ ByteBits - 1)
  BY Widths
<1>5. reg \in [Names -> Words]
  BY <1>0, <1>3 DEF Names
<1>6. compared \in Words \X Words
  BY <1>0, <1>3
<1> QED BY <1>0, <1>1, <1>2, <1>4, <1>5, <1>6 DEF MachineInv, Static

(* An instruction that neither jumps nor returns leads to the next place.  *)
LEMMA Advance ==
  ASSUME Static, phase = "done", Held(pc, stack), NEW s \in Seq(Int),
         code[pc].op \notin {"call", "exit", "ret"},
         code[pc].op # "mov_rdi" => Len(s) = Len(stack) + Effect(code[pc]),
         code[pc].op = "mov_rdi" => s = stack,
         \A i \in 1..Len(s) : i <= Len(stack) => s[i] = stack[i],
         \A i \in 1..Len(s) : i > Len(stack) => s[i] \in Words
  PROVE  Held(pc + 1, s)
<1>0. /\ code \in Seq(Instruction) /\ Len(code) \in Nat /\ Len(code) >= 5 /\ pc \in 1..Len(code)
      /\ stack \in Seq(Int) /\ Len(stack) \in Nat /\ Len(s) \in Nat
      /\ 1 \in 1..Len(code)
  <2>1. pc \in 1..Len(code) /\ stack \in Seq(Int)
    BY DEF Held
  <2> QED BY <2>1, Placing
<1>1. CASE pc <= 3
  <2>1. pc = 1 \/ pc = 2 \/ pc = 3
    BY <1>0, <1>1
  <2>2. pc = 2 /\ code[pc].op = "mov_rdi"
    BY <1>0, <2>1, Placing
  <2>3. s = <<>>
    BY <2>2 DEF Held
  <2>4. pc + 1 \in 1..Len(code) /\ pc + 1 <= 3 /\ ~(pc + 1 >= 4)
    BY <1>0, <2>2
  <2> QED BY <2>3, <2>4 DEF Held
<1>2. CASE pc >= 4
  <2> DEFINE k == pc + 1
  <2>1. pc # Len(code) /\ code[pc].op # "mov_rdi"
    BY <1>0, <1>2, Placing
  <2>2. pc \in 4..Len(code) /\ k \in 1..Len(code) /\ ~(k <= 3)
    BY <1>0, <1>2, <2>1
  <2>3. Gain(code, 4, k) = Gain(code, 4, pc) + Effect(code[pc]) /\ Gain(code, 4, pc) \in Int
    BY <1>0, <2>2, GainStep
  <2>4. /\ Len(stack) = 1 + Gain(code, 4, pc) /\ Len(stack) >= 1 /\ stack[1] = 2
        /\ \A i \in 2..Len(stack) : stack[i] \in Words
    BY <1>2 DEF Held
  <2>5. Len(s) = Len(stack) + Effect(code[pc]) /\ Effect(code[pc]) \in Int
    BY <2>1 DEF Effect
  <2>6. Len(s) = 1 + Gain(code, 4, k)
    <3> HIDE DEF k
    <3> QED BY <1>0, <2>3, <2>4, <2>5
  <2>7. Len(s) >= 1
    <3>1. CASE code[pc].op = "pop"
      <4>1. pc \in 5..(Len(code) - 1)
        <5>1. pc # 4
          BY <1>0, <3>1, Placing
        <5> QED BY <1>0, <2>1, <2>2, <5>1
      <4>2. Gain(code, 4, pc) >= 1
        BY <1>0, <3>1, <4>1, Placing
      <4>3. Effect(code[pc]) >= -1
        BY <2>5 DEF Effect
      <4> QED BY SMTT(30), <1>0, <2>3, <2>4, <2>5, <4>2, <4>3
    <3>2. CASE code[pc].op # "pop"
      <4>1. Effect(code[pc]) >= 0
        BY <3>2 DEF Effect
      <4> QED BY <1>0, <2>4, <2>5, <4>1
    <3> QED BY <3>1, <3>2
  <2>8. s[1] = 2
    BY <1>0, <2>4, <2>7
  <2>9. ASSUME NEW i \in 2..Len(s) PROVE s[i] \in Words
    <3>1. i \in 1..Len(s) /\ (i <= Len(stack) \/ i > Len(stack)) /\ (i <= Len(stack) => i \in 2..Len(stack))
      BY <1>0
    <3> QED BY <2>4, <3>1
  <2> HIDE DEF k
  <2>10. Held(k, s)
    BY <2>2, <2>6, <2>7, <2>8, <2>9 DEF Held
  <2> QED BY <2>10 DEF k
<1> QED BY <1>0, <1>1, <1>2

(* A step of such an instruction, of what it does to the registers.        *)
LEMMA StaticNext == Static /\ [Next]_vars => Static'
BY LabelNext, DepthNext, LayoutNext DEF Static

(* A step of such an instruction, of what it does to the registers.        *)
LEMMA Stepped ==
  ASSUME MachineInv, state = "running", Step, NEW s \in Seq(Int), stack' = s,
         code[pc].op \notin {"call", "exit", "ret"},
         code[pc].op # "mov_rdi" => Len(s) = Len(stack) + Effect(code[pc]),
         code[pc].op = "mov_rdi" => s = stack,
         \A i \in 1..Len(s) : i <= Len(stack) => s[i] = stack[i],
         \A i \in 1..Len(s) : i > Len(stack) => s[i] \in Words,
         reg' \in [Names -> Words], compared' \in Words \X Words
  PROVE  MachineInv'
<1>1. Static /\ phase = "done" /\ Held(pc, stack) /\ status \in 0..(2 ^ ByteBits - 1)
  BY DEF MachineInv
<1>2. Held(pc + 1, s)
  BY <1>1, Advance
<1>3. /\ pc' = pc + 1 /\ UNCHANGED <<code, phase, state, status>> /\ UNCHANGED vars
  BY DEF Step, vars
<1>4. Held(pc, stack)'
  BY <1>2, <1>3 DEF Held
<1>5. Static'
  BY <1>1, <1>3, StaticNext
<1> QED BY <1>1, <1>3, <1>4, <1>5 DEF MachineInv

LEMMA SteppedStill ==
  ASSUME MachineInv, state = "running", Step, UNCHANGED stack,
         code[pc].op \notin {"call", "exit", "ret", "push", "push_imm", "pop"},
         reg' \in [Names -> Words], compared' \in Words \X Words
  PROVE  MachineInv'
<1>1. stack \in Seq(Int) /\ Len(stack) \in Nat
  BY DEF MachineInv, Held
<1>2. Effect(code[pc]) = 0
  BY DEF Effect, Pushes
<1> QED BY <1>1, <1>2, Stepped

LEMMA Typing ==
  ASSUME MachineInv
  PROVE  /\ reg \in [Names -> Words] /\ compared \in Words \X Words
         /\ \A r \in Names : reg[r] \in Words /\ reg[r] \in Int
         /\ {"rax", "rdi", "rcx", "rdx"} = Names
         /\ compared[1] \in Words /\ compared[2] \in Words
BY WordsInt DEF MachineInv, Names

LEMMA SetTyped ==
  ASSUME MachineInv, NEW r \in Names, NEW x \in Words, Set(r, x)
  PROVE  reg' \in [Names -> Words]
BY Typing DEF Set

LEMMA Where ==
  ASSUME MachineInv, state = "running"
  PROVE  /\ pc \in 1..Len(code) /\ code[pc] \in Instruction /\ code \in Seq(Instruction)
         /\ Len(code) \in Nat /\ stack \in Seq(Int) /\ Len(stack) \in Nat
         /\ Static /\ phase = "done" /\ Held(pc, stack)
         /\ code[pc].op \in {"push", "pop"} => code[pc].reg \in Names
         /\ code[pc].op = "push_imm" => code[pc].n \in Int
<1>1. Static /\ phase = "done" /\ Held(pc, stack)
  BY DEF MachineInv
<1>2. pc \in 1..Len(code) /\ stack \in Seq(Int)
  BY <1>1 DEF Held
<1>3. code \in Seq(Instruction) /\ Len(code) \in Nat
  BY <1>1, <1>2, Placing
<1>4. code[pc] \in Instruction
  BY <1>2, <1>3
<1>5. ASSUME code[pc].op \in {"push", "pop"} PROVE code[pc].reg \in Names
  <2>1. pc \in 5..(Len(code) - 1)
    BY <1>1, <1>2, <1>3, <1>5, Placing
  <2>2. Sound(code[pc])
    BY <1>1, <1>2, <2>1, Placing
  <2>3. code[pc].reg # ""
    BY <1>5, <2>2 DEF Sound
  <2> QED BY <1>4, <2>3 DEF Instruction, Registers, Names
<1>6. Main \in Int
  BY DEF Main
<1>7. code[pc].n \in Int
  BY <1>4, <1>6 DEF Instruction
<1> QED BY <1>1, <1>2, <1>3, <1>4, <1>5, <1>7

LEMMA PushStep == MachineInv /\ Push => MachineInv'
<1> SUFFICES ASSUME MachineInv, Push PROVE MachineInv'
  OBVIOUS
<1> DEFINE x == IF code[pc].op = "push" THEN reg[code[pc].reg] ELSE Immediate(code[pc].n)
<1>1. /\ state = "running" /\ code[pc].op \in {"push", "push_imm"} /\ stack' = Append(stack, x)
      /\ Step /\ UNCHANGED <<reg, compared>>
  BY DEF Push, At
<1>2. /\ stack \in Seq(Int) /\ Len(stack) \in Nat
      /\ code[pc].op = "push" => code[pc].reg \in Names
      /\ code[pc].op = "push_imm" => code[pc].n \in Int
  BY <1>1, Where
<1>3. x \in Words /\ x \in Int
  <2>1. CASE code[pc].op = "push"
    BY <1>2, <2>1, Typing
  <2>2. CASE code[pc].op # "push"
    BY <1>1, <1>2, <2>2, WordIn, WordsInt
  <2> QED BY <2>1, <2>2
<1> HIDE DEF x
<1>4. PICK s : s = Append(stack, x)
  OBVIOUS
<1>5. /\ s \in Seq(Int) /\ Len(s) = Len(stack) + 1
      /\ \A i \in 1..Len(s) : i <= Len(stack) => s[i] = stack[i]
      /\ \A i \in 1..Len(s) : i > Len(stack) => s[i] = x
  BY <1>2, <1>3, <1>4
<1>6. Effect(code[pc]) = 1
  BY <1>1 DEF Effect, Pushes
<1>7. code[pc].op \notin {"call", "exit", "ret", "mov_rdi"}
  BY <1>1
<1>8. reg' \in [Names -> Words] /\ compared' \in Words \X Words
  BY <1>1, Typing
<1> QED BY <1>1, <1>3, <1>4, <1>5, <1>6, <1>7, <1>8, Stepped

LEMMA PopStep == MachineInv /\ Pop => MachineInv'
<1> SUFFICES ASSUME MachineInv, Pop PROVE MachineInv'
  OBVIOUS
<1>1. /\ state = "running" /\ code[pc].op = "pop" /\ Set(code[pc].reg, stack[Len(stack)])
      /\ stack' = SubSeq(stack, 1, Len(stack) - 1)
      /\ Step /\ UNCHANGED compared
  BY DEF Pop, At
<1>2. /\ stack \in Seq(Int) /\ Len(stack) \in Nat /\ code[pc].reg \in Names
      /\ pc \in 1..Len(code) /\ Len(code) \in Nat
      /\ Static /\ phase = "done" /\ Held(pc, stack) /\ code \in Seq(Instruction)
  BY <1>1, Where
<1>3. pc \in 5..(Len(code) - 1)
  BY <1>1, <1>2, Placing
<1>4. Gain(code, 4, pc) >= 1
  BY <1>1, <1>2, <1>3, Placing
<1>5. Gain(code, 4, pc) \in Int
  BY <1>2, <1>3, GainStep
<1>6. Len(stack) >= 2 /\ \A i \in 2..Len(stack) : stack[i] \in Words
  BY SMTT(30), <1>2, <1>3, <1>4, <1>5 DEF Held
<1>7. stack[Len(stack)] \in Words
  BY <1>2, <1>6
<1>8. PICK s : s = SubSeq(stack, 1, Len(stack) - 1)
  OBVIOUS
<1>9. /\ s \in Seq(Int) /\ Len(s) = Len(stack) - 1
      /\ \A i \in 1..Len(s) : s[i] = stack[i] /\ ~(i > Len(stack))
  BY <1>2, <1>6, <1>8
<1>10. Effect(code[pc]) = -1
  BY <1>1 DEF Effect, Pushes
<1>11. reg' \in [Names -> Words] /\ compared' \in Words \X Words
  BY <1>1, <1>2, <1>7, SetTyped, Typing
<1>12. code[pc].op \notin {"call", "exit", "ret", "mov_rdi"} /\ Len(s) = Len(stack) + Effect(code[pc])
  BY <1>1, <1>2, <1>9, <1>10
<1> QED BY <1>1, <1>8, <1>9, <1>11, <1>12, Stepped

LEMMA RegisterSteps ==
  MachineInv /\ (Calculate \/ Negate \/ ShiftRax \/ SignExtend \/ SetByte \/ Move) => MachineInv'
<1> SUFFICES ASSUME MachineInv, Calculate \/ Negate \/ ShiftRax \/ SignExtend \/ SetByte \/ Move
             PROVE  MachineInv'
  OBVIOUS
<1>0. /\ \A r \in Names : reg[r] \in Words /\ reg[r] \in Int
      /\ "rax" \in Names /\ "rdi" \in Names /\ "rcx" \in Names /\ "rdx" \in Names
      /\ 0 \in Words /\ 1 \in Words /\ -1 \in Words
      /\ compared \in Words \X Words
  BY Typing, WordsInt
<1>1. /\ state = "running" /\ Step /\ UNCHANGED <<compared, stack>>
      /\ code[pc].op \notin {"call", "exit", "ret", "push", "push_imm", "pop"}
  BY DEF Calculate, Negate, ShiftRax, SignExtend, SetByte, Move, At
<1>2. \E r \in Names, x \in Words : Set(r, x)
  <2>1. CASE Calculate
    <3>1. code[pc].op \in {"add", "sub", "imul", "and", "or", "xor"}
          /\ Set("rax", Compute(code[pc].op, reg["rax"], reg["rdi"]))
      BY <2>1 DEF Calculate, At
    <3>2. Compute(code[pc].op, reg["rax"], reg["rdi"]) \in Words
      BY <1>0, <3>1, ComputeIn
    <3> QED BY <1>0, <3>1, <3>2
  <2>2. CASE Negate
    <3> DEFINE x == IF code[pc].op = "neg" THEN -reg["rax"] ELSE -reg["rax"] - 1
    <3>1. Set("rax", Word(x))
      BY <2>2 DEF Negate
    <3>2. reg["rax"] \in Int
      BY <1>0
    <3>3. x \in Int
      BY <3>2
    <3> HIDE DEF x
    <3> QED BY <1>0, <3>1, <3>3, WordIn
  <2>3. CASE ShiftRax
    <3> DEFINE k == Low(reg["rcx"]) % WordBits  a == reg["rax"]
    <3>1. Set("rax", IF code[pc].op = "shl" THEN Word(a * 2 ^ k) ELSE a \div 2 ^ k)
      BY <2>3 DEF ShiftRax
    <3>2. k \in Nat
      <4>1. Low(reg["rcx"]) \in Nat /\ WordBits \in Nat \ {0}
        BY <1>0, LowIn, Widths
      <4> DEFINE y == Low(reg["rcx"])
      <4> HIDE DEF y
      <4>2. y \in Int /\ WordBits \in Nat \ {0}
        BY <4>1 DEF y
      <4>3. y % WordBits \in 0..(WordBits - 1)
        BY <4>2, Modulo
      <4> QED BY <4>2, <4>3 DEF y
    <3>3. a \in Words /\ a \in Int
      BY <1>0
    <3> HIDE DEF k, a
    <3>4. 2 ^ k \in Int
      BY <3>2, Doubling
    <3>5. a * 2 ^ k \in Int
      BY <3>3, <3>4
    <3>6. Word(a * 2 ^ k) \in Words /\ a \div 2 ^ k \in Words
      BY <3>2, <3>3, <3>5, WordIn, ShiftedIn
    <3> QED BY <1>0, <3>1, <3>6
  <2>4. CASE SignExtend
    BY <1>0, <2>4 DEF SignExtend
  <2>5. CASE SetByte
    <3> DEFINE x == reg["rax"] - Low(reg["rax"])
                    + (IF Holds(code[pc].op, compared[1], compared[2]) THEN 1 ELSE 0)
    <3>1. Set("rax", Word(x))
      BY <2>5 DEF SetByte
    <3>2. reg["rax"] \in Int /\ Low(reg["rax"]) \in Int
      BY <1>0, LowIn
    <3>3. x \in Int
      BY <3>2
    <3> HIDE DEF x
    <3> QED BY <1>0, <3>1, <3>3, WordIn
  <2>6. CASE Move
    <3>1. Low(reg["rax"]) \in Words
      BY <1>0, LowIn
    <3> QED BY <1>0, <2>6, <3>1 DEF Move, At
  <2> QED BY <2>1, <2>2, <2>3, <2>4, <2>5, <2>6
<1>3. reg' \in [Names -> Words]
  BY <1>2, SetTyped
<1> QED BY <1>0, <1>1, <1>3, SteppedStill

LEMMA DivideStep == MachineInv /\ Divide => MachineInv'
<1> SUFFICES ASSUME MachineInv, Divide PROVE MachineInv'
  OBVIOUS
<1> DEFINE x == Dividend  y == reg["rdi"]  q == C!Quotient(x, y)  r == C!Remainder(x, y)
<1>1. /\ state = "running" /\ code[pc].op = "idiv" /\ y # 0 /\ C!Fits(q, WordBits)
      /\ reg' = [reg EXCEPT !["rax"] = q, !["rdx"] = r]
      /\ Step /\ UNCHANGED <<compared, stack>>
  BY DEF Divide, At, Divides
<1>2. /\ \A k \in Names : reg[k] \in Words /\ reg[k] \in Int
      /\ "rax" \in Names /\ "rdi" \in Names /\ "rcx" \in Names /\ "rdx" \in Names
      /\ reg \in [Names -> Words] /\ compared \in Words \X Words
  BY Typing
<1>3. x \in Int
  <2> DEFINE p == 2 ^ WordBits  a == reg["rax"]  d == reg["rdx"]
  <2>1. p \in Nat \ {0}
    BY Widths, Doubling
  <2>2. a \in Int /\ d \in Int
    BY <1>2
  <2>3. x = d * p + (a % p)
    BY DEF Dividend
  <2> HIDE DEF p, a, d
  <2>4. a % p \in 0..(p - 1)
    BY <2>1, <2>2, Modulo
  <2>5. d * p \in Int
    BY <2>1, <2>2
  <2> QED BY <2>1, <2>3, <2>4, <2>5
<1>4. q \in Words
  BY <1>1, FitsWord
<1>5. r \in Words
  <2>1. y \in Words
    BY <1>2
  <2> HIDE DEF x, y
  <2> QED BY <1>1, <1>3, <2>1, RemainderIn
<1> HIDE DEF q, r
<1>6. reg' \in [Names -> Words]
  BY <1>1, <1>2, <1>4, <1>5
<1> QED BY <1>1, <1>2, <1>6, SteppedStill

LEMMA OtherSteps == MachineInv /\ (Compare \/ PassLabel) => MachineInv'
<1> SUFFICES ASSUME MachineInv, Compare \/ PassLabel PROVE MachineInv'
  OBVIOUS
<1>1. /\ state = "running" /\ Step /\ UNCHANGED <<reg, stack>>
      /\ code[pc].op \notin {"call", "exit", "ret", "push", "push_imm", "pop"}
  BY DEF Compare, PassLabel, At
<1>2. /\ \A r \in Names : reg[r] \in Words
      /\ "rax" \in Names /\ "rdi" \in Names /\ 0 \in Words
      /\ compared \in Words \X Words /\ reg \in [Names -> Words]
  BY Typing, WordsInt
<1>3. compared' \in Words \X Words
  BY <1>2 DEF Compare, PassLabel
<1> QED BY <1>1, <1>2, <1>3, SteppedStill

LEMMA JumpStep == MachineInv /\ Jump => MachineInv'
<1> SUFFICES ASSUME MachineInv, Jump PROVE MachineInv'
  OBVIOUS
<1> DEFINE t == Target(code[pc].n)
<1>1. /\ state = "running" /\ code[pc].op \in {"jmp", "je", "jne"}
      /\ pc' = pc + 1 \/ pc' = t
      /\ UNCHANGED <<state, reg, compared, stack, status>> /\ UNCHANGED vars
  BY DEF Jump, At
<1>2. /\ pc \in 1..Len(code) /\ Len(code) \in Nat /\ Static /\ phase = "done" /\ Held(pc, stack)
      /\ stack \in Seq(Int) /\ Len(stack) \in Nat
  BY <1>1, Where
<1>3. Held(pc', stack)
  <2>1. CASE pc' = pc + 1
    <3>1. Effect(code[pc]) = 0
      BY <1>1 DEF Effect, Pushes
    <3>2. Held(pc + 1, stack)
      BY SMTT(30), <1>1, <1>2, <3>1, Advance
    <3> QED BY <2>1, <3>2
  <2>2. CASE pc' = t
    <3>1. code[pc].op \in Branches
      BY <1>1 DEF Branches
    <3>2. pc >= 4
      BY <1>1, <1>2, Placing
    <3>3. t \in (pc + 1)..Len(code) /\ Gain(code, 4, t) = Gain(code, 4, pc)
      BY <1>2, <3>1, <3>2, TargetIs
    <3> HIDE DEF t
    <3>4. t \in 1..Len(code) /\ t >= 4 /\ ~(t <= 3)
      BY <1>2, <3>2, <3>3
    <3> QED BY <1>2, <2>2, <3>2, <3>3, <3>4 DEF Held
  <2> QED BY <1>1, <2>1, <2>2
<1>4. Static'
  BY <1>1, <1>2, StaticNext
<1>5. Held(pc, stack)'
  BY <1>1, <1>3 DEF Held, vars
<1> QED BY <1>1, <1>4, <1>5 DEF MachineInv, vars

LEMMA CallStep == MachineInv /\ CallMain => MachineInv'
<1> SUFFICES ASSUME MachineInv, CallMain PROVE MachineInv'
  OBVIOUS
<1>1. /\ state = "running" /\ code[pc].op = "call"
      /\ stack' = Append(stack, pc + 1) /\ pc' = Target(code[pc].n)
      /\ UNCHANGED <<state, reg, compared, status>> /\ UNCHANGED vars
  BY DEF CallMain, At
<1>2. /\ pc \in 1..Len(code) /\ Len(code) \in Nat /\ Static /\ phase = "done" /\ Held(pc, stack)
  BY <1>1, Where
<1>3. pc = 1
  BY <1>1, <1>2, Placing
<1>4. code[pc].op \in Branches
  BY <1>1 DEF Branches
<1>5. pc' = 4 /\ 4 \in 1..Len(code)
  <2>1. Target(code[pc].n) = 4
    BY <1>2, <1>3, <1>4, TargetIs
  <2>2. Len(code) >= 5
    BY <1>2, Placing
  <2> QED BY <1>1, <1>2, <2>1, <2>2
<1>6. stack = <<>>
  BY <1>2, <1>3 DEF Held
<1>7. stack' = <<2>>
  <2>1. Append(<<>>, 1 + 1) = <<2>>
    OBVIOUS
  <2> QED BY <1>1, <1>3, <1>6, <2>1
<1>8. Gain(code, 4, 4) = 0
  BY GainStart
<1>9. Held(4, <<2>>)
  <2>1. PICK s : s = <<2>>
    OBVIOUS
  <2>2. s \in Seq(Int) /\ Len(s) = 1 /\ s[1] = 2
    BY <2>1
  <2>3. Held(4, s)
    BY <1>5, <1>8, <2>2 DEF Held
  <2> QED BY <2>1, <2>3
<1>10. Static'
  BY <1>1, <1>2, StaticNext
<1>11. Held(pc, stack)'
  <2>1. Held(pc', stack')
    BY <1>5, <1>7, <1>9
  <2> QED BY <1>1, <2>1 DEF Held, vars
<1> QED BY <1>1, <1>10, <1>11 DEF MachineInv, vars

(* What ret finds: main returns with the stack it was called with.         *)
LEMMA AtRet ==
  ASSUME MachineInv, state = "running", code[pc].op = "ret"
  PROVE  pc = Len(code) /\ Len(stack) = 1 /\ stack = <<2>>
<1>1. /\ pc \in 1..Len(code) /\ Len(code) \in Nat /\ Static /\ phase = "done" /\ Held(pc, stack)
      /\ stack \in Seq(Int) /\ Len(stack) \in Nat
  BY Where
<1>2. pc = Len(code) /\ Len(code) >= 5
  BY <1>1, Placing
<1>3. Gain(code, 4, pc) = 0
  BY <1>1, <1>2, LastPlace, Zenon
<1>4. Len(stack) = 1 /\ stack[1] = 2
  <2>1. pc >= 4
    BY <1>1, <1>2
  <2>2. Len(stack) = 1 + Gain(code, 4, pc) /\ stack[1] = 2
    BY <1>1, <2>1 DEF Held
  <2> QED BY <1>3, <2>2
<1> QED BY <1>1, <1>2, <1>4

LEMMA RetStep == MachineInv /\ Ret => MachineInv'
<1> SUFFICES ASSUME MachineInv, Ret PROVE MachineInv'
  OBVIOUS
<1>1. /\ state = "running" /\ code[pc].op = "ret"
      /\ pc' = stack[Len(stack)] /\ stack' = SubSeq(stack, 1, Len(stack) - 1)
      /\ UNCHANGED <<state, reg, compared, status>> /\ UNCHANGED vars
  BY DEF Ret, At
<1>2. /\ pc \in 1..Len(code) /\ Len(code) \in Nat /\ Static /\ phase = "done"
  BY <1>1, Where
<1>3. stack = <<2>> /\ Len(stack) = 1 /\ pc = Len(code)
  BY <1>1, AtRet
<1>4. pc' = 2
  BY <1>1, <1>3
<1>5. stack' = <<>>
  <2>1. SubSeq(<<2>>, 1, 1 - 1) = <<>>
    OBVIOUS
  <2> QED BY <1>1, <1>3, <2>1
<1>6. 2 \in 1..Len(code)
  <2>1. Len(code) >= 5
    BY <1>2, Placing
  <2> QED BY <1>2, <2>1
<1>7. Held(2, <<>>)
  BY <1>6 DEF Held
<1>8. Static'
  BY <1>1, <1>2, StaticNext
<1>9. Held(pc, stack)'
  <2>1. Held(pc', stack')
    BY <1>4, <1>5, <1>7
  <2> QED BY <1>1, <2>1 DEF Held, vars
<1> QED BY <1>1, <1>8, <1>9 DEF MachineInv, vars

LEMMA EndSteps == MachineInv /\ (Load \/ Exit \/ DivideError) => MachineInv'
<1> SUFFICES ASSUME MachineInv, Load \/ Exit \/ DivideError PROVE MachineInv'
  OBVIOUS
<1>1. /\ phase = "done" /\ state' \in {"running", "exited", "faulted"}
      /\ UNCHANGED <<pc, reg, compared, stack>> /\ UNCHANGED vars
  <2>1. CASE Load
    BY <2>1 DEF Load
  <2>2. CASE Exit \/ DivideError
    <3>1. state = "running"
      BY <2>2 DEF Exit, DivideError, At
    <3> QED BY <2>2, <3>1 DEF Exit, DivideError, MachineInv
  <2> QED BY <2>1, <2>2
<1>2. Static
  BY DEF MachineInv
<1>3. status' \in 0..(2 ^ ByteBits - 1)
  <2>1. "rdi" \in Names /\ reg["rdi"] \in Int
    BY Typing
  <2>2. Low(reg["rdi"]) \in 0..(2 ^ ByteBits - 1)
    BY <2>1, LowIn
  <2> QED BY <2>2 DEF Load, Exit, DivideError, MachineInv
<1>4. Held(pc, stack)
  <2>1. CASE state = "loaded"
    <3>1. pc = 1 /\ stack = <<>>
      BY <2>1 DEF MachineInv
    <3>2. code \in Seq(Instruction) /\ Len(code) >= 5
      BY <1>1, <1>2 DEF Static, LayoutInv, LabelInv, GenTypes
    <3>3. pc \in 1..Len(code)
      BY <3>1, <3>2
    <3> QED BY <3>1, <3>3 DEF Held
  <2>2. CASE state # "loaded"
    BY <2>2 DEF MachineInv
  <2> QED BY <2>1, <2>2
<1>5. Held(pc, stack)'
  BY <1>1, <1>4 DEF Held, vars
<1>6. Static'
  BY <1>1, <1>2, StaticNext
<1> QED BY <1>1, <1>3, <1>5, <1>6 DEF MachineInv, vars

LEMMA CompileStep == MachineInv /\ Compile => MachineInv'
<1> SUFFICES ASSUME MachineInv, Compile PROVE MachineInv'
  OBVIOUS
<1>1. Generate /\ UNCHANGED <<state, pc, reg, compared, stack, status>>
  BY DEF Compile, machineVars
<1>2. phase # "done"
  BY <1>1 DEF Generate, Open, OpenFails, Finish, CodegenConstant, CallLeft, CallRight, TestLeft,
              CodegenUnary, CodegenPlain, CodegenLogical, Running
<1>3. state = "loaded"
  BY <1>2 DEF MachineInv
<1>4. Static'
  <2>1. [Next]_vars
    BY <1>1 DEF Next
  <2> QED BY <2>1, StaticNext DEF MachineInv
<1> QED BY <1>1, <1>3, <1>4 DEF MachineInv

LEMMA MachineInvariant == MachineSpec => []MachineInv
<1>1. MachineInv /\ [MachineNext]_allVars => MachineInv'
  <2> SUFFICES ASSUME MachineInv, [MachineNext]_allVars PROVE MachineInv'
    OBVIOUS
  <2>1. CASE Compile
    BY <2>1, CompileStep
  <2>2. CASE Load
    BY <2>2, EndSteps
  <2>3. CASE Execute
    BY <2>3, PushStep, PopStep, RegisterSteps, DivideStep, OtherSteps, JumpStep, CallStep,
       RetStep, EndSteps DEF Execute
  <2>4. CASE UNCHANGED allVars
    <3>1. UNCHANGED vars /\ UNCHANGED <<state, pc, reg, compared, stack, status>>
      BY <2>4 DEF allVars, machineVars
    <3>2. Static'
      BY <3>1, StaticNext DEF MachineInv
    <3>3. Held(pc, stack) => Held(pc, stack)'
      BY <3>1 DEF Held, vars
    <3> QED BY <3>1, <3>2, <3>3 DEF MachineInv, vars
  <2> QED BY <2>1, <2>2, <2>3, <2>4 DEF MachineNext, Ended
<1> QED BY <1>1, MachineInitial, PTL DEF MachineSpec

(* The instruction executed is always one of the program; registers hold   *)
(* words; whichever way && and || branch, the stack is as deep as the text *)
(* says, and ret finds the return address of main (codegen_expr): for      *)
(* every program and every width of the processor.                         *)
THEOREM MachineSound == MachineSpec => []ExecutionSound
<1>1. MachineInv => ExecutionSound
  <2> SUFFICES ASSUME MachineInv PROVE ExecutionSound
    OBVIOUS
  <2>1. WellTyped
    <3>1. code \in Seq(Instruction) /\ Len(code) \in Nat
      BY DEF MachineInv, Static, LabelInv, GenTypes
    <3>2. pc \in 1..(Len(code) + 1) /\ (state = "running" => pc <= Len(code))
      BY <3>1 DEF MachineInv, Held
    <3>3. ASSUME NEW i \in 1..Len(stack) PROVE stack[i] \in Words \cup 1..Len(code)
      <4>1. CASE state = "loaded"
        BY <3>3, <4>1 DEF MachineInv
      <4>2. CASE state # "loaded"
        <5>1. Held(pc, stack) /\ phase = "done" /\ Static
          BY <4>2 DEF MachineInv
        <5>2. pc >= 4
          <6>1. ~(pc <= 3)
            BY <3>3, <5>1 DEF Held
          <6> QED BY <3>1, <5>1, <6>1 DEF Held
        <5>3. pc \in 1..Len(code) /\ stack \in Seq(Int) /\ stack[1] = 2
              /\ \A k \in 2..Len(stack) : stack[k] \in Words
          BY <5>1, <5>2 DEF Held
        <5>4. 2 \in 1..Len(code)
          BY <3>1, <5>2, <5>3
        <5> QED BY <3>3, <5>3, <5>4
      <4> QED BY <4>1, <4>2
    <3> QED BY <3>1, <3>2, <3>3, Typing DEF WellTyped, MachineInv
  <2>2. StackDiscipline
    <3> SUFFICES ASSUME state = "running"
                 PROVE  /\ pc >= 4 => stack # <<>> /\ stack[1] = 2 /\ Len(stack) = 1 + Net(pc)
                        /\ pc \in 1..3 => stack = <<>>
                        /\ At({"ret"}) => stack = <<2>>
      BY DEF StackDiscipline
    <3>1. Net(pc) = Gain(code, 4, pc)
      BY DEF Net, Places, Gain, Count, Pushes
    <3>2. Held(pc, stack)
      BY DEF MachineInv
    <3>3. At({"ret"}) => stack = <<2>>
      BY AtRet DEF At
    <3> QED BY <3>1, <3>2, <3>3 DEF Held
  <2> QED BY <2>1, <2>2 DEF ExecutionSound
<1> QED BY <1>1, MachineInvariant, PTL
----------------------------------------------------------------------------
(* What --dump-ast prints (AstPrinter).  A word of its text, its strings,  *)
(* and a call of expr_to_str.                                              *)
Marks    == {"number", "(", ")", "\n", "    ", "FUN INT", "main", "RETURN INT"}
TextWord == [name : STRING \cup Marks, number : Nat]
Chars    == Seq(TextWord)
AString  == Dump!Str(Chars)
ToStrCall == [node : 1..Len(tree), step : 0..2, s : AString]
Stages   == {"start", "expression", "function", "program", "print", "done"}

(* The text of each node: the way down its right operands.                 *)
IsSpine(t, f) == f = [i \in 1..Len(t) |-> Dump!Spelt(t[i], f[t[i].right])]
SpineOf(t) == CHOOSE f : IsSpine(t, f)

FirstLine == (Dump!Word("FUN INT") \o Dump!Word("main")) \o Dump!Word("\n")
Statement == Dump!Word("RETURN INT") \o SpineOf(tree)[Len(tree)]
Whole     == FirstLine \o ((Dump!Word("    ") \o Statement) \o Dump!Word("\n"))

(* The operand that call k has called for last.                            *)
Asked(k) ==
    IF calls[k].step = 1 THEN tree[calls[k].node].left ELSE tree[calls[k].node].right

InOrder(m) ==
    /\ m \in Dump!Memory /\ ~m.misused /\ IsFiniteSet(m.live)
    /\ \A p \in m.live : p # 0 /\ p < m.next

PrinterTyped ==
    /\ tree \in Dumped
    /\ InOrder(mem)
    /\ calls \in Seq(ToStrCall)
    /\ result \in AString /\ line \in AString /\ indentStr \in AString
    /\ stage \in Stages

(* A string the printer holds is allocated, or it is the empty one; and no *)
(* two of them are the same.                                               *)
Allocated(m, s) ==
    IF s.owner THEN s.ptr \in m.live /\ s.text # <<>> ELSE s = Dump!str_empty
Apart(s, t) == s.owner /\ t.owner => s.ptr # t.ptr
StringsHeld ==
    /\ Allocated(mem, result) /\ Allocated(mem, line) /\ Allocated(mem, indentStr)
    /\ Apart(result, line) /\ Apart(result, indentStr) /\ Apart(line, indentStr)
    /\ \A k \in 1..Len(calls) :
           /\ Allocated(mem, calls[k].s)
           /\ Apart(calls[k].s, result) /\ Apart(calls[k].s, line)
           /\ Apart(calls[k].s, indentStr)
    /\ \A j, k \in 1..Len(calls) : j < k => Apart(calls[j].s, calls[k].s)

OwnPtr(s) == IF s.owner THEN {s.ptr} ELSE {}
Owned(p) ==
    \/ p \in OwnPtr(result) \/ p \in OwnPtr(line) \/ p \in OwnPtr(indentStr)
    \/ \E k \in 1..Len(calls) : p \in OwnPtr(calls[k].s)
Lost == {p \in mem.live : ~Owned(p)}

(* The calls go down the tree; the ones that wait have called an operand.  *)
CallsNested ==
    /\ \A k \in 1..Len(calls) :
           /\ calls[k].step = 0 => k = Len(calls)
           /\ calls[k].step = 1 => Dump!IsBinary(tree[calls[k].node])
           /\ calls[k].step = 2 =>
                  /\ ~Dump!IsConstant(tree[calls[k].node])
                  /\ calls[k].s.owner /\ calls[k].s.text = Dump!Name(tree[calls[k].node])
           /\ calls[k].step # 2 => calls[k].s = Dump!str_empty
    /\ \A k \in 2..Len(calls) : calls[k].node = Asked(k - 1)
    /\ \A j, k \in 1..Len(calls) : j < k => calls[k].node < calls[j].node
    /\ calls # <<>> => calls[1].node = Len(tree)

(* What the strings hold at each stage.                                    *)
Texts ==
    /\ stage = "start" =>
           result = Dump!str_empty /\ line = Dump!str_empty /\ indentStr = Dump!str_empty
    /\ stage \in {"expression", "function"} =>
           /\ line.owner /\ line.text = FirstLine
           /\ indentStr.owner /\ indentStr.text = Dump!Word("    ")
    /\ stage = "expression" =>
           IF calls = <<>> THEN result.owner /\ result.text = SpineOf(tree)[Len(tree)]
           ELSE IF calls[Len(calls)].step = 0 THEN result = Dump!str_empty
           ELSE result.owner /\ result.text = SpineOf(tree)[Asked(Len(calls))]
    /\ stage # "expression" => calls = <<>>
    /\ stage = "function" => result.owner /\ result.text = Statement
    /\ stage \in {"program", "print", "done"} =>
           line = Dump!str_empty /\ indentStr = Dump!str_empty
    /\ stage \in {"program", "print"} => result.owner /\ result.text = Whole
    /\ stage = "done" => result = Dump!str_empty /\ dump = Whole

(* The operands of call k that have returned.                              *)
Returned(k) ==
    LET e == tree[calls[k].node] IN
    (IF calls[k].step = 2 /\ Dump!IsBinary(e) THEN {e.left} ELSE {})
    \cup (IF k = Len(calls) /\ calls[k].step # 0 THEN {Asked(k)} ELSE {})

(* D are the nodes whose call has returned: with their operands, and below *)
(* a node of D or below a call that runs.                                  *)
Finished(D) ==
    /\ D \subseteq 1..Len(tree)
    /\ \A d \in D : Dump!Operands(tree[d]) \subseteq D
    /\ \A d \in D :
           \/ \E e \in D : d \in Dump!Operands(tree[e])
           \/ \E k \in 1..Len(calls) : d \in Returned(k)
           \/ calls = <<>> /\ d = Len(tree)
    /\ \A k \in 1..Len(calls) : calls[k].node \notin D /\ Returned(k) \subseteq D
    /\ stage = "start" => D = {}
    /\ stage # "start" /\ calls = <<>> => Len(tree) \in D

(* The binary operators whose left operand the name has overwritten.       *)
Passed(D) ==
    {i \in 1..Len(tree) :
        /\ Dump!IsBinary(tree[i])
        /\ i \in D \/ \E k \in 1..Len(calls) : calls[k].step = 2 /\ calls[k].node = i}

DumpInv ==
    /\ PrinterTyped /\ StringsHeld /\ CallsNested /\ Texts
    /\ \E D \in SUBSET (1..Len(tree)) :
           Finished(D) /\ Cardinality(Lost) = Cardinality(Passed(D))

----------------------------------------------------------------------------
(* The memory, and what the operations on strings make of it.              *)
(* An operation that frees the texts of gone and allocates a new one.      *)
Made(m, r, gone, text) ==
    /\ InOrder(r.mem)
    /\ r.mem.live = (m.live \ gone) \cup {m.next} /\ r.mem.next = m.next + 1
    /\ r.str = [ptr |-> m.next, owner |-> TRUE, text |-> text]

LEMMA InMemory ==
    ASSUME NEW m, InOrder(m)
    PROVE  /\ m.live \subseteq Nat /\ m.next \in Nat /\ m.next > 0 /\ m.misused = FALSE
           /\ m.next \notin m.live
           /\ m = [live |-> m.live, next |-> m.next, misused |-> m.misused]
<1>1. m \in Dump!Memory
  BY DEF InOrder
<1>2. m.live \subseteq Nat /\ m.next \in Nat /\ m.next > 0
  BY <1>1 DEF Dump!Memory, Dump!NULL
<1>3. m.misused \in BOOLEAN /\ m = [live |-> m.live, next |-> m.next, misused |-> m.misused]
  BY <1>1 DEF Dump!Memory
<1> QED BY <1>2, <1>3 DEF InOrder

LEMMA LiveChanged ==
    ASSUME NEW m \in Dump!Memory, NEW l \in SUBSET Nat
    PROVE  LET r == [m EXCEPT !.live = l, !.misused = FALSE]
           IN  r \in Dump!Memory /\ r.live = l /\ r.next = m.next /\ ~r.misused
  BY DEF Dump!Memory

LEMMA NextChanged ==
    ASSUME NEW m \in Dump!Memory, NEW l \in SUBSET Nat, NEW n \in Nat \ {Dump!NULL}
    PROVE  LET r == [m EXCEPT !.live = l, !.next = n]
           IN  r \in Dump!Memory /\ r.live = l /\ r.next = n /\ r.misused = m.misused
  BY DEF Dump!Memory

(* A memory with the same next pointer and less allocated, or with one     *)
(* more text.                                                              *)
LEMMA LessAllocated ==
    ASSUME NEW m, InOrder(m), NEW gone
    PROVE  InOrder([m EXCEPT !.live = @ \ gone, !.misused = FALSE])
<1> DEFINE r == [m EXCEPT !.live = @ \ gone, !.misused = FALSE]
<1>1. m.live \ gone \in SUBSET Nat /\ IsFiniteSet(m.live \ gone)
  BY InMemory, FS_Difference DEF InOrder
<1>2. r = [m EXCEPT !.live = m.live \ gone, !.misused = FALSE]
  OBVIOUS
<1> HIDE DEF r
<1>3. /\ r \in Dump!Memory /\ r.live = m.live \ gone /\ r.next = m.next
      /\ ~r.misused
  BY <1>1, <1>2, LiveChanged DEF InOrder
<1>4. InOrder(r)
  BY <1>1, <1>3 DEF InOrder
<1> QED BY <1>4 DEF r

LEMMA Acquired ==
    ASSUME NEW m, InOrder(m), NEW text \in Chars, text # <<>>
    PROVE  Made(m, Dump!Acquire(m, text), {}, text)
<1> DEFINE r == [m EXCEPT !.live = @ \cup {m.next}, !.next = @ + 1]
           n == m.next
<1>1. /\ m.live \subseteq Nat /\ n \in Nat /\ n > 0 /\ m.misused = FALSE
      /\ m = [live |-> m.live, next |-> m.next, misused |-> m.misused]
  BY InMemory
<1>2. r = [m EXCEPT !.live = m.live \cup {n}, !.next = n + 1]
  OBVIOUS
<1>3. IsFiniteSet(m.live \cup {n})
  BY FS_AddElement DEF InOrder
<1>4. m.live \cup {n} \in SUBSET Nat /\ n + 1 \in Nat \ {Dump!NULL}
  BY <1>1 DEF Dump!NULL
<1>5. \A p \in m.live \cup {n} : p # 0 /\ p < n + 1
  <2>1. \A p \in m.live : p # 0 /\ p < n
    BY DEF InOrder
  <2> QED BY <1>1, <2>1
<1>6. /\ Dump!Acquire(m, text).mem = r
      /\ Dump!Acquire(m, text).str = [ptr |-> n, owner |-> TRUE, text |-> text]
  BY DEF Dump!Acquire
<1> HIDE DEF r, n
<1>7. /\ r \in Dump!Memory /\ r.live = m.live \cup {n} /\ r.next = n + 1
      /\ r.misused = FALSE
  BY <1>1, <1>2, <1>4, NextChanged DEF InOrder
<1>8. InOrder(r)
  BY <1>3, <1>5, <1>7 DEF InOrder
<1> QED BY <1>6, <1>7, <1>8 DEF Made, n

(* A part of a join may be read, and no earlier part frees it.             *)
Joinable(m, parts) ==
    /\ \A k \in 1..Len(parts) :
           parts[k] \in AString /\ Dump!Readable(m, parts[k])
    /\ \A j, k \in 1..Len(parts) : j < k /\ parts[j].owner => parts[j].ptr # parts[k].ptr

LEMMA TakenInOrder ==
    ASSUME NEW m, InOrder(m), NEW parts, Joinable(m, parts)
    PROVE  LET r == Dump!Taken(m, parts) IN
           InOrder(r) /\ r.next = m.next /\ r.live = m.live \ Dump!OwnedBy(parts)
<1> DEFINE bad == \/ m.misused
                  \/ \E k \in 1..Len(parts) : ~Dump!Readable(m, parts[k])
                  \/ \E j, k \in 1..Len(parts) :
                         j < k /\ parts[j].owner /\ parts[j].ptr = parts[k].ptr
           r == [m EXCEPT !.live = @ \ Dump!OwnedBy(parts), !.misused = FALSE]
<1>1. bad = FALSE
  BY InMemory DEF Joinable
<1>2. Dump!Taken(m, parts) = [m EXCEPT !.live = @ \ Dump!OwnedBy(parts), !.misused = bad]
  BY InMemory DEF Dump!Taken
<1> HIDE DEF bad
<1>3. Dump!Taken(m, parts) = r
  BY <1>1, <1>2
<1>4. InOrder(r)
  BY LessAllocated
<1>5. r.next = m.next /\ r.live = m.live \ Dump!OwnedBy(parts)
  BY InMemory
<1> HIDE DEF r
<1> QED BY <1>3, <1>4, <1>5

LEMMA StringParts ==
    ASSUME NEW s \in AString
    PROVE  s.ptr \in Nat /\ s.owner \in BOOLEAN /\ s.text \in Chars
  BY DEF AString, Dump!Str

LEMMA PairOwned ==
    ASSUME NEW a \in AString, NEW b \in AString
    PROVE  Dump!OwnedBy(<<a, b>>) = OwnPtr(a) \cup OwnPtr(b)
<1> DEFINE parts == <<a, b>>
<1>1. Len(parts) = 2 /\ parts[1] = a /\ parts[2] = b
  OBVIOUS
<1> HIDE DEF parts
<1>2. 1..2 = {1, 2}
  OBVIOUS
<1>3. Dump!OwnedBy(parts) = {parts[k].ptr : k \in {j \in {1, 2} : parts[j].owner}}
  BY <1>1, <1>2 DEF Dump!OwnedBy
<1>4. ASSUME NEW p
      PROVE  p \in Dump!OwnedBy(parts) <=> \E k \in {1, 2} : parts[k].owner /\ p = parts[k].ptr
  BY <1>3
<1>5. ASSUME NEW p
      PROVE  p \in Dump!OwnedBy(parts) <=> (a.owner /\ p = a.ptr) \/ (b.owner /\ p = b.ptr)
  BY <1>1, <1>4
<1>6. Dump!OwnedBy(parts) = OwnPtr(a) \cup OwnPtr(b)
  BY <1>5 DEF OwnPtr
<1> QED BY <1>6 DEF parts

LEMMA ThreeOwned ==
    ASSUME NEW a \in AString, NEW b \in AString, NEW c \in AString
    PROVE  Dump!OwnedBy(<<a, b, c>>) = OwnPtr(a) \cup OwnPtr(b) \cup OwnPtr(c)
<1> DEFINE parts == <<a, b, c>>
<1>1. Len(parts) = 3 /\ parts[1] = a /\ parts[2] = b /\ parts[3] = c
  OBVIOUS
<1> HIDE DEF parts
<1>2. 1..3 = {1, 2, 3}
  OBVIOUS
<1>3. Dump!OwnedBy(parts) = {parts[k].ptr : k \in {j \in {1, 2, 3} : parts[j].owner}}
  BY <1>1, <1>2 DEF Dump!OwnedBy
<1>4. ASSUME NEW p
      PROVE  p \in Dump!OwnedBy(parts)
             <=> \E k \in {1, 2, 3} : parts[k].owner /\ p = parts[k].ptr
  BY <1>3
<1>5. ASSUME NEW p
      PROVE  p \in Dump!OwnedBy(parts)
             <=> (a.owner /\ p = a.ptr) \/ (b.owner /\ p = b.ptr) \/ (c.owner /\ p = c.ptr)
  BY <1>1, <1>4
<1>6. Dump!OwnedBy(parts) = OwnPtr(a) \cup OwnPtr(b) \cup OwnPtr(c)
  BY <1>5 DEF OwnPtr
<1> QED BY <1>6 DEF parts

(* A join frees what its parts own and makes one text.                     *)
LEMMA AcquiredAfter ==
    ASSUME NEW m, InOrder(m), NEW parts, Joinable(m, parts), NEW text \in Chars, text # <<>>
    PROVE  Made(m, Dump!Acquire(Dump!Taken(m, parts), text), Dump!OwnedBy(parts), text)
<1> DEFINE r == Dump!Taken(m, parts)
<1>1. InOrder(r) /\ r.next = m.next /\ r.live = m.live \ Dump!OwnedBy(parts)
  BY TakenInOrder
<1> HIDE DEF r
<1>2. Made(r, Dump!Acquire(r, text), {}, text)
  BY <1>1, Acquired
<1>3. Made(m, Dump!Acquire(r, text), Dump!OwnedBy(parts), text)
  BY <1>1, <1>2 DEF Made
<1> QED BY <1>3 DEF r

LEMMA CatMade ==
    ASSUME NEW m, InOrder(m), NEW a \in AString, NEW b \in AString,
           Dump!Readable(m, a), Dump!Readable(m, b), a.owner => a.ptr # b.ptr,
           a.text \o b.text # <<>>
    PROVE  Made(m, Dump!str_cat(m, a, b), OwnPtr(a) \cup OwnPtr(b), a.text \o b.text)
<1> DEFINE text == a.text \o <<>> \o b.text
           parts == <<a, b>>
<1>1. a.text \in Chars /\ b.text \in Chars
  BY StringParts
<1>2. text = a.text \o b.text
  BY <1>1, ConcatEmptySeq DEF Chars
<1>3. a.text \o b.text \in Chars
  BY <1>1, ConcatProperties DEF Chars
<1>4. Joinable(m, parts)
  <2>1. Len(parts) = 2 /\ parts[1] = a /\ parts[2] = b
    OBVIOUS
  <2>2. \A k \in 1..2 : k = 1 \/ k = 2
    OBVIOUS
  <2> HIDE DEF parts
  <2> QED BY <2>1, <2>2 DEF Joinable
<1>5. Dump!OwnedBy(parts) = OwnPtr(a) \cup OwnPtr(b)
  BY PairOwned
<1>6. Dump!str_cat(m, a, b) = Dump!Acquire(Dump!Taken(m, parts), text)
  BY DEF Dump!str_cat, Dump!str_join
<1> HIDE DEF text, parts
<1> QED BY <1>2, <1>3, <1>4, <1>5, <1>6, AcquiredAfter

LEMMA Cat3Made ==
    ASSUME NEW m, InOrder(m), NEW a \in AString, NEW b \in AString, NEW c \in AString,
           Dump!Readable(m, a), Dump!Readable(m, b), Dump!Readable(m, c),
           a.owner => a.ptr # b.ptr /\ a.ptr # c.ptr, b.owner => b.ptr # c.ptr,
           (a.text \o b.text) \o c.text # <<>>
    PROVE  Made(m, Dump!str_cat3(m, a, b, c), OwnPtr(a) \cup OwnPtr(b) \cup OwnPtr(c),
                (a.text \o b.text) \o c.text)
<1> DEFINE text == (a.text \o b.text) \o c.text
           parts == <<a, b, c>>
<1>1. a.text \in Chars /\ b.text \in Chars /\ c.text \in Chars
  BY StringParts
<1>2. a.text \o b.text \in Chars
  BY <1>1, ConcatProperties DEF Chars
<1>3. text \in Chars
  BY <1>1, <1>2, ConcatProperties DEF Chars
<1>4. Joinable(m, parts)
  <2>1. Len(parts) = 3 /\ parts[1] = a /\ parts[2] = b /\ parts[3] = c
    OBVIOUS
  <2>2. \A k \in 1..3 : k = 1 \/ k = 2 \/ k = 3
    OBVIOUS
  <2> HIDE DEF parts
  <2> QED BY <2>1, <2>2 DEF Joinable
<1>5. Dump!OwnedBy(parts) = OwnPtr(a) \cup OwnPtr(b) \cup OwnPtr(c)
  BY ThreeOwned
<1>6. Dump!str_cat3(m, a, b, c) = Dump!Acquire(Dump!Taken(m, parts), text)
  BY DEF Dump!str_cat3
<1> HIDE DEF text, parts
<1>7. Made(m, Dump!str_cat3(m, a, b, c), OwnPtr(a) \cup OwnPtr(b) \cup OwnPtr(c), text)
  BY <1>3, <1>4, <1>5, <1>6, AcquiredAfter DEF text
<1> QED BY <1>7 DEF text

LEMMA WordText ==
    ASSUME NEW w \in STRING \cup Marks
    PROVE  Dump!Word(w) \in Chars /\ Dump!Word(w) # <<>>
  BY DEF Dump!Word, Chars, TextWord

(* The strings that are not held.                                          *)
LEMMA Literals ==
    ASSUME NEW w \in STRING \cup Marks, NEW m
    PROVE  /\ Dump!Literal(w) \in AString /\ ~Dump!Literal(w).owner
           /\ Dump!Literal(w).ptr = 0 /\ Dump!Readable(m, Dump!Literal(w))
           /\ Dump!Literal(w).text = Dump!Word(w)
           /\ Dump!Word(w) \in Chars /\ Dump!Word(w) # <<>>
<1>1. Dump!Word(w) \in Chars /\ Dump!Word(w) # <<>>
  BY WordText
<1> QED BY <1>1 DEF Dump!Literal, Dump!str_lit, Dump!NULL, Dump!Readable, AString, Dump!Str

LEMMA EmptyString ==
    /\ Dump!str_empty \in AString /\ ~Dump!str_empty.owner
    /\ Dump!str_empty.ptr = 0 /\ \A m : Dump!Readable(m, Dump!str_empty)
    /\ Dump!str_empty.text = <<>> /\ OwnPtr(Dump!str_empty) = {}
<1>1. <<>> \in Chars
  BY DEF Chars
<1> QED BY <1>1 DEF Dump!str_empty, Dump!str_lit, Dump!NULL, Dump!Readable, AString, Dump!Str,
       OwnPtr

LEMMA AllocatedReadable ==
    ASSUME NEW m, NEW s, Allocated(m, s)
    PROVE  Dump!Readable(m, s)
  BY EmptyString DEF Allocated, Dump!Readable

LEMMA MadeString ==
    ASSUME NEW m, InOrder(m), NEW r, NEW gone, NEW text \in Chars, text # <<>>,
           Made(m, r, gone, text)
    PROVE  /\ r.str \in AString /\ r.str.owner /\ r.str.ptr = m.next /\ r.str.text = text
           /\ Allocated(r.mem, r.str) /\ OwnPtr(r.str) = {m.next}
<1>1. m.next \in Nat
  BY InMemory
<1>2. r.str \in AString /\ r.str.owner /\ r.str.ptr = m.next /\ r.str.text = text
  BY <1>1 DEF Made, AString, Dump!Str
<1> QED BY <1>2 DEF Allocated, OwnPtr, Made

----------------------------------------------------------------------------
(* A step of expr_to_str: the strings of the innermost call and of the     *)
(* result are freed or move, all others stay.                              *)
Rest(p) ==
    \/ p \in OwnPtr(line) \/ p \in OwnPtr(indentStr)
    \/ \E k \in 1..(Len(calls) - 1) : p \in OwnPtr(calls[k].s)

LEMMA RestStays ==
    ASSUME PrinterTyped, StringsHeld, calls # <<>>, NEW p, Rest(p)
    PROVE  /\ p \in mem.live /\ p < mem.next /\ p \notin OwnPtr(result)
           /\ p \notin OwnPtr(calls[Len(calls)].s)
<1> DEFINE n == Len(calls)
<1>1. n \in Nat /\ n > 0 /\ InOrder(mem)
  BY DEF PrinterTyped
<1>2. \A q \in mem.live : q < mem.next
  BY <1>1 DEF InOrder
<1> HIDE DEF n
<1>3. CASE p \in OwnPtr(line)
  <2>1. n \in 1..Len(calls)
    BY <1>1 DEF n
  <2>2. Apart(calls[n].s, line) /\ Apart(result, line) /\ Allocated(mem, line)
    BY <2>1 DEF StringsHeld
  <2> QED BY <1>2, <1>3, <2>2 DEF OwnPtr, Apart, Allocated, n
<1>4. CASE p \in OwnPtr(indentStr)
  <2>1. n \in 1..Len(calls)
    BY <1>1 DEF n
  <2>2. Apart(calls[n].s, indentStr) /\ Apart(result, indentStr) /\ Allocated(mem, indentStr)
    BY <2>1 DEF StringsHeld
  <2> QED BY <1>2, <1>4, <2>2 DEF OwnPtr, Apart, Allocated, n
<1>5. CASE \E k \in 1..(n - 1) : p \in OwnPtr(calls[k].s)
  <2>1. PICK k \in 1..(n - 1) : p \in OwnPtr(calls[k].s)
    BY <1>5
  <2>2. n \in 1..Len(calls) /\ k \in 1..Len(calls) /\ k < n
    BY <1>1 DEF n
  <2>3. Apart(calls[k].s, calls[n].s) /\ Apart(calls[k].s, result) /\ Allocated(mem, calls[k].s)
    BY <2>2 DEF StringsHeld
  <2> QED BY <1>2, <2>1, <2>3 DEF OwnPtr, Apart, Allocated, n
<1> QED BY <1>3, <1>4, <1>5 DEF Rest, n

LEMMA OneMoreOrLess ==
    ASSUME PrinterTyped, StringsHeld, calls # <<>>,
           NEW fresh \in SUBSET Nat, \A p \in fresh : p >= mem.next,
           NEW new \in AString, InOrder(mem'), Allocated(mem', new), OwnPtr(new) \subseteq fresh,
           mem'.live = (mem.live \ (OwnPtr(calls[Len(calls)].s) \cup OwnPtr(result))) \cup fresh,
           line' = line, indentStr' = indentStr,
           \A k \in 1..(Len(calls) - 1) : calls'[k] = calls[k],
           \/ /\ Len(calls') = Len(calls) + 1 /\ result' = Dump!str_empty
              /\ calls'[Len(calls)].s = new /\ calls'[Len(calls) + 1].s = Dump!str_empty
           \/ Len(calls') = Len(calls) - 1 /\ result' = new
    PROVE  StringsHeld' /\ Lost' = Lost \cup (fresh \ OwnPtr(new))
<1> DEFINE n == Len(calls)
<1>1. n \in Nat /\ n > 0 /\ InOrder(mem)
  BY DEF PrinterTyped
<1>2. /\ mem.next \in Nat /\ \A p \in mem.live : p \in Nat /\ p < mem.next
  BY <1>1, InMemory DEF InOrder
<1>3. \A p : Rest(p) => /\ p \in mem.live /\ p \notin fresh /\ p \notin OwnPtr(new)
                        /\ p \notin OwnPtr(calls[n].s) /\ p \notin OwnPtr(result)
  BY <1>2, RestStays
<1> HIDE DEF n
<1>4. \A p : Rest(p) => p \in mem'.live
  BY <1>3 DEF n
<1>5. /\ Allocated(mem', line') /\ Allocated(mem', indentStr')
      /\ \A k \in 1..(n - 1) : Allocated(mem', calls'[k].s)
  <2>1. Allocated(mem, line) /\ Allocated(mem, indentStr)
    BY DEF StringsHeld
  <2>2. \A k \in 1..(n - 1) : Allocated(mem, calls[k].s)
    BY <1>1 DEF StringsHeld, n
  <2>3. \A k \in 1..(n - 1) : calls[k].s.owner => Rest(calls[k].s.ptr)
    BY DEF Rest, OwnPtr, n
  <2>4. /\ line.owner => Rest(line.ptr)
        /\ indentStr.owner => Rest(indentStr.ptr)
    BY DEF Rest, OwnPtr
  <2>5. Allocated(mem', line) /\ Allocated(mem', indentStr)
    BY <1>4, <2>1, <2>4 DEF Allocated
  <2>6. \A k \in 1..(n - 1) : Allocated(mem', calls[k].s)
    BY <1>4, <2>2, <2>3 DEF Allocated
  <2> QED BY <2>5, <2>6 DEF n
<1>6. /\ Apart(line, indentStr)
      /\ \A k \in 1..(n - 1) : Apart(calls[k].s, line) /\ Apart(calls[k].s, indentStr)
      /\ \A j, k \in 1..(n - 1) : j < k => Apart(calls[j].s, calls[k].s)
  BY SMTT(30), <1>1 DEF StringsHeld, n
<1>7. /\ Apart(new, line) /\ Apart(new, indentStr)
      /\ \A k \in 1..(n - 1) : Apart(calls[k].s, new)
  BY <1>3 DEF Apart, OwnPtr, Rest, n
<1>8. \A s : Apart(s, Dump!str_empty) /\ Apart(Dump!str_empty, s)
  BY EmptyString DEF Apart
<1>9. Allocated(mem', Dump!str_empty)
  BY EmptyString DEF Allocated
<1>10. \A p : Owned(p)' <=> Rest(p) \/ p \in OwnPtr(new)
  <2>1. CASE /\ Len(calls') = n + 1 /\ result' = Dump!str_empty
             /\ calls'[n].s = new /\ calls'[n + 1].s = Dump!str_empty
    <3>1. 1..Len(calls') = (1..(n - 1)) \cup {n, n + 1}
      BY <1>1, <2>1
    <3> QED BY <2>1, <3>1, EmptyString DEF Owned, Rest, n
  <2>2. CASE Len(calls') = n - 1 /\ result' = new
    BY <2>2 DEF Owned, Rest, n
  <2> QED BY <2>1, <2>2 DEF n
<1>11. \A p : Owned(p) <=> Rest(p) \/ p \in OwnPtr(calls[n].s) \/ p \in OwnPtr(result)
  <2>1. 1..Len(calls) = (1..(n - 1)) \cup {n}
    BY <1>1 DEF n
  <2> QED BY <2>1 DEF Owned, Rest, n
<1>12. Lost' = Lost \cup (fresh \ OwnPtr(new))
  <2>1. \A p : p \in Lost' <=> p \in mem'.live /\ ~(Rest(p) \/ p \in OwnPtr(new))
    BY <1>10 DEF Lost
  <2>2. \A p : p \in Lost <=> p \in mem.live /\ ~(Rest(p) \/ p \in OwnPtr(calls[n].s) \/ p \in OwnPtr(result))
    BY <1>11 DEF Lost
  <2>3. \A p : p \in mem'.live
               <=> (p \in mem.live /\ p \notin OwnPtr(calls[n].s) /\ p \notin OwnPtr(result)) \/ p \in fresh
    BY DEF n
  <2>4. \A p \in mem.live : p \notin OwnPtr(new)
    BY <1>2
  <2>5. \A p : p \in Lost' <=> p \in Lost \/ (p \in fresh /\ p \notin OwnPtr(new))
    BY <1>3, <2>1, <2>2, <2>3, <2>4
  <2> QED BY <2>5
<1>13. StringsHeld'
  <2>1. CASE /\ Len(calls') = n + 1 /\ result' = Dump!str_empty
             /\ calls'[n].s = new /\ calls'[n + 1].s = Dump!str_empty
    <3>1. \A k \in 1..Len(calls') : k \in 1..(n - 1) \/ k = n \/ k = n + 1
      BY <1>1, <2>1
    <3>2. \A k \in 1..(n - 1) : calls'[k] = calls[k] /\ k \in Int
      BY DEF n
    <3>3. \A k \in 1..Len(calls') :
              /\ Allocated(mem', calls'[k].s) /\ Apart(calls'[k].s, result')
              /\ Apart(calls'[k].s, line') /\ Apart(calls'[k].s, indentStr')
      BY <1>5, <1>6, <1>7, <1>8, <1>9, <2>1, <3>1, <3>2
    <3>4. \A j, k \in 1..Len(calls') : j < k => Apart(calls'[j].s, calls'[k].s)
      BY <1>1, <1>6, <1>7, <1>8, <2>1, <3>1, <3>2
    <3> QED BY <1>5, <1>6, <1>8, <1>9, <2>1, <3>3, <3>4 DEF StringsHeld
  <2>2. CASE Len(calls') = n - 1 /\ result' = new
    <3>1. Apart(new, line) /\ Apart(new, indentStr)
      BY <1>7
    <3>2. \A k \in 1..(n - 1) : calls'[k] = calls[k]
      BY DEF n
    <3>3. \A k \in 1..Len(calls') :
              /\ Allocated(mem', calls'[k].s) /\ Apart(calls'[k].s, result')
              /\ Apart(calls'[k].s, line') /\ Apart(calls'[k].s, indentStr')
      BY <1>5, <1>6, <1>7, <2>2, <3>2
    <3>4. \A j, k \in 1..Len(calls') : j < k => Apart(calls'[j].s, calls'[k].s)
      BY <1>6, <2>2, <3>2
    <3> QED BY <1>5, <1>6, <2>2, <3>1, <3>3, <3>4 DEF StringsHeld
  <2> QED BY <2>1, <2>2 DEF n
<1> QED BY <1>12, <1>13

----------------------------------------------------------------------------
(* The text of a node: the recursion down the right operands has a value.  *)
ANode == [kind : STRING, left : Nat, right : Nat, number : Nat]
IsTree(t) ==
    /\ t \in Seq(ANode) /\ t # <<>>
    /\ \A i \in 1..Len(t) :
           /\ t[i].left < i /\ t[i].right < i
           /\ Dump!IsBinary(t[i]) => t[i].right \notin {0, t[i].left}

LEMMA DumpedTree ==
    ASSUME NEW t \in Dumped
    PROVE  IsTree(t)
  BY DumpedAssumption DEF Dump!ProgramsAssumption, IsTree, ANode

LEMMA NodeParts ==
    ASSUME NEW t, IsTree(t), NEW i \in 1..Len(t)
    PROVE  /\ t[i].kind \in STRING /\ t[i].left \in Nat /\ t[i].right \in Nat
           /\ t[i].number \in Nat /\ t[i].left < i /\ t[i].right < i
           /\ t[i].left # 0 => t[i].right # 0 /\ t[i].right # t[i].left
           /\ Len(t) \in Nat
<1>1. t[i] \in ANode
  BY DEF IsTree
<1> QED BY <1>1 DEF IsTree, ANode, Dump!IsBinary

LEMMA NodeWords ==
    ASSUME NEW t, IsTree(t), NEW i \in 1..Len(t)
    PROVE  /\ Dump!Value(t[i]) \in Chars /\ Dump!Value(t[i]) # <<>>
           /\ Dump!Name(t[i]) \in Chars /\ Dump!Name(t[i]) # <<>>
<1>1. t[i].kind \in STRING /\ t[i].number \in Nat
  BY NodeParts
<1>2. "number" \in Marks
  BY DEF Marks
<1>3. Dump!Value(t[i]) \in Chars /\ Dump!Value(t[i]) # <<>>
  BY <1>1, <1>2 DEF Dump!Value, Chars, TextWord
<1>4. Dump!Name(t[i]) \in Chars /\ Dump!Name(t[i]) # <<>>
  BY <1>1, WordText DEF Dump!Name
<1> QED BY <1>3, <1>4

SpineTo(t, n, f) == f = [i \in 1..n |-> Dump!Spelt(t[i], f[t[i].right])]

LEMMA SpineGrows ==
    ASSUME NEW t, IsTree(t), NEW n \in 1..Len(t), NEW f, SpineTo(t, n - 1, f)
    PROVE  \E g : SpineTo(t, n, g)
<1> DEFINE Of(h, i) == Dump!Spelt(t[i], h[t[i].right])
           g == [i \in 1..n |-> IF i = n THEN Of(f, n) ELSE f[i]]
           w == [i \in 1..n |-> Of(g, i)]
<1>1. f = [i \in 1..(n - 1) |-> Of(f, i)]
  BY DEF SpineTo
<1>2. ASSUME NEW i \in 1..n, NEW h, NEW k, h[t[i].right] = k[t[i].right] \/ t[i].right = 0
      PROVE  Of(h, i) = Of(k, i)
  <2>1. CASE t[i].right = 0
    <3>1. Dump!IsConstant(t[i])
      BY <2>1, NodeParts DEF Dump!IsConstant
    <3>2. ~Dump!IsUnary(t[i]) /\ ~Dump!IsBinary(t[i])
      BY <3>1 DEF Dump!IsConstant, Dump!IsUnary, Dump!IsBinary
    <3> QED BY <3>1, <3>2 DEF Dump!Spelt
  <2>2. CASE h[t[i].right] = k[t[i].right]
    BY <2>2
  <2> QED BY <1>2, <2>1, <2>2
<1>3. ASSUME NEW i \in 1..n PROVE g[i] = Of(g, i)
  <2>1. t[i].right \in Nat /\ t[i].right < i
    BY NodeParts
  <2>2. t[i].right = 0 \/ t[i].right \in 1..(n - 1)
    BY <2>1
  <2>3. \A k \in 1..(n - 1) : g[k] = f[k]
    OBVIOUS
  <2>4. Of(g, i) = Of(f, i)
    <3>1. g[t[i].right] = f[t[i].right] \/ t[i].right = 0
      BY <2>2, <2>3
    <3> HIDE DEF g, Of
    <3> QED BY <1>2, <3>1
  <2>5. CASE i = n
    <3>1. g[i] = Of(f, n)
      BY <2>5
    <3> HIDE DEF g, Of
    <3> QED BY <2>4, <2>5, <3>1
  <2>6. CASE i # n
    <3>1. i \in 1..(n - 1) /\ g[i] = f[i]
      BY <2>6
    <3> HIDE DEF g, Of
    <3>2. f[i] = Of(f, i)
      BY <1>1, <3>1, Zenon
    <3> QED BY <2>4, <3>1, <3>2
  <2> QED BY <2>5, <2>6
<1>4. g = w
  <2> HIDE DEF Of
  <2>1. g = [i \in 1..n |-> g[i]]
    BY Zenon
  <2> HIDE DEF g
  <2> QED BY <1>3, <2>1
<1> HIDE DEF g
<1> QED BY <1>4 DEF SpineTo

LEMMA SpineExists ==
    ASSUME NEW t, IsTree(t)
    PROVE  IsSpine(t, SpineOf(t))
<1> DEFINE T == {n \in Nat : n <= Len(t) /\ ~\E f : SpineTo(t, n, f)}
<1>1. Len(t) \in Nat
  BY DEF IsTree
<1>2. T = {}
  <2> SUFFICES ASSUME T # {} PROVE FALSE
    OBVIOUS
  <2>1. PICK n \in T : \A m \in T : n <= m
    BY LeastNumber
  <2>2. n \in Nat /\ n <= Len(t) /\ ~\E f : SpineTo(t, n, f)
    OBVIOUS
  <2>3. CASE n = 0
    <3> DEFINE g == [i \in 1..n |-> 0]
    <3>1. SpineTo(t, n, g)
      BY <2>3 DEF SpineTo
    <3> QED BY <2>2, <3>1
  <2>4. CASE n # 0
    <3>1. n - 1 \in Nat /\ n - 1 <= Len(t) /\ n - 1 \notin T
      BY <2>1, <2>2, <2>4, <1>1
    <3>2. PICK f : SpineTo(t, n - 1, f)
      BY <3>1
    <3>3. n \in 1..Len(t)
      BY <1>1, <2>2, <2>4
    <3> QED BY <2>2, <3>2, <3>3, SpineGrows
  <2> QED BY <2>3, <2>4
<1>3. \E f : SpineTo(t, Len(t), f)
  BY <1>1, <1>2
<1>4. \E f : IsSpine(t, f)
  BY <1>3 DEF SpineTo, IsSpine
<1> HIDE DEF T
<1> QED BY <1>4, Zenon DEF SpineOf

LEMMA SpineIs ==
    ASSUME NEW t, IsTree(t), NEW i \in 1..Len(t)
    PROVE  /\ Dump!IsConstant(t[i]) => SpineOf(t)[i] = Dump!Value(t[i])
           /\ Dump!IsUnary(t[i]) => SpineOf(t)[i] = Dump!Name(t[i]) \o SpineOf(t)[t[i].right]
           /\ Dump!IsBinary(t[i]) =>
                  SpineOf(t)[i] = Dump!Name(t[i]) \o SpineOf(t)[t[i].right] \o Dump!Word(")")
<1> DEFINE f == SpineOf(t)
<1>1. IsSpine(t, f)
  BY SMTT(30), SpineExists
<1> HIDE DEF f
<1>2. f[i] = Dump!Spelt(t[i], f[t[i].right])
  BY <1>1, ZenonT(40) DEF IsSpine
<1>3. /\ Dump!IsConstant(t[i]) => f[i] = Dump!Value(t[i])
      /\ Dump!IsUnary(t[i]) => f[i] = Dump!Name(t[i]) \o f[t[i].right]
      /\ Dump!IsBinary(t[i]) => f[i] = Dump!Name(t[i]) \o f[t[i].right] \o Dump!Word(")")
  BY <1>2 DEF Dump!Spelt, Dump!IsConstant, Dump!IsUnary, Dump!IsBinary
<1> QED BY <1>3 DEF f

LEMMA SpineText ==
    ASSUME NEW t, IsTree(t), NEW i \in 1..Len(t)
    PROVE  SpineOf(t)[i] \in Chars /\ SpineOf(t)[i] # <<>>
<1> DEFINE f == SpineOf(t)
           Good(k) == f[k] \in Chars /\ f[k] # <<>>
           T == {k \in 1..Len(t) : ~Good(k)}
<1> SUFFICES ASSUME T # {} PROVE FALSE
  OBVIOUS
<1>1. T \in SUBSET Nat
  OBVIOUS
<1>2. PICK k \in T : \A m \in T : k <= m
  BY <1>1, LeastNumber
<1>3. k \in 1..Len(t) /\ ~Good(k)
  OBVIOUS
<1>4. /\ t[k].left \in Nat /\ t[k].right \in Nat /\ t[k].right < k /\ Len(t) \in Nat
      /\ t[k].left # 0 => t[k].right # 0
  BY <1>3, NodeParts
<1>5. t[k].right # 0 => Good(t[k].right)
  <2> SUFFICES ASSUME t[k].right # 0 PROVE Good(t[k].right)
    OBVIOUS
  <2>1. t[k].right \in 1..Len(t) /\ ~(k <= t[k].right)
    BY <1>3, <1>4
  <2>2. t[k].right \notin T
    BY <1>2, <2>1
  <2> QED BY <2>1, <2>2
<1>6. /\ Dump!Value(t[k]) \in Chars /\ Dump!Value(t[k]) # <<>>
      /\ Dump!Name(t[k]) \in Chars /\ Dump!Name(t[k]) # <<>>
  BY <1>3, NodeWords
<1>7. Dump!Word(")") \in Chars
  BY WordText DEF Marks
<1>8. ASSUME NEW a \in Chars, NEW b \in Chars, a # <<>> PROVE a \o b \in Chars /\ a \o b # <<>>
  BY <1>8, ConcatProperties DEF Chars
<1>9. /\ Dump!IsConstant(t[k]) => f[k] = Dump!Value(t[k])
      /\ Dump!IsUnary(t[k]) => f[k] = Dump!Name(t[k]) \o f[t[k].right]
      /\ Dump!IsBinary(t[k]) => f[k] = Dump!Name(t[k]) \o f[t[k].right] \o Dump!Word(")")
  BY <1>3, SpineIs
<1> HIDE DEF f
<1>10. CASE Dump!IsConstant(t[k])
  BY <1>3, <1>6, <1>9, <1>10
<1>11. CASE Dump!IsUnary(t[k])
  BY <1>3, <1>5, <1>6, <1>8, <1>9, <1>11 DEF Dump!IsUnary
<1>12. CASE Dump!IsBinary(t[k])
  <2>1. Good(t[k].right)
    BY <1>4, <1>5, <1>12 DEF Dump!IsBinary
  <2>2. Dump!Name(t[k]) \o f[t[k].right] \in Chars /\ Dump!Name(t[k]) \o f[t[k].right] # <<>>
    BY <1>6, <1>8, <2>1
  <2> QED BY <1>3, <1>7, <1>8, <1>9, <1>12, <2>2
<1> QED BY <1>10, <1>11, <1>12 DEF Dump!IsConstant, Dump!IsUnary, Dump!IsBinary

----------------------------------------------------------------------------
(* The steps of expr_to_str: what they do to the strings, and that they    *)
(* call an operand or return.                                              *)
StringStep(fresh, new) ==
    /\ fresh \in SUBSET Nat /\ \A p \in fresh : p >= mem.next
    /\ new \in AString /\ InOrder(mem') /\ Allocated(mem', new) /\ OwnPtr(new) \subseteq fresh
    /\ mem'.live =
           (mem.live \ (OwnPtr(calls[Len(calls)].s) \cup OwnPtr(result))) \cup fresh

Pushed(step, new, child) ==
    /\ calls' \in Seq(ToStrCall) /\ Len(calls') = Len(calls) + 1
    /\ \A k \in 1..(Len(calls) - 1) : calls'[k] = calls[k]
    /\ LET waiting == calls'[Len(calls)] IN
           waiting.node = calls[Len(calls)].node /\ waiting.step = step /\ waiting.s = new
    /\ LET called == calls'[Len(calls) + 1] IN
           called.node = child /\ called.step = 0 /\ called.s = Dump!str_empty
    /\ result' = Dump!str_empty

Popped(new) ==
    /\ calls' \in Seq(ToStrCall) /\ Len(calls') = Len(calls) - 1
    /\ \A k \in 1..(Len(calls) - 1) : calls'[k] = calls[k]
    /\ result' = new

Innermost == calls[Len(calls)]
TheNode   == tree[calls[Len(calls)].node]

LEMMA TopCall ==
    ASSUME PrinterTyped, calls # <<>>
    PROVE  /\ Len(calls) \in Nat \ {0} /\ Len(calls) \in 1..Len(calls)
           /\ Innermost \in ToStrCall /\ Innermost.node \in 1..Len(tree)
           /\ Innermost.step \in 0..2 /\ Innermost.s \in AString
           /\ IsTree(tree) /\ Len(tree) \in Nat
           /\ Dump!Top = Innermost /\ Dump!Node = TheNode
<1>1. calls \in Seq(ToStrCall) /\ Len(calls) \in Nat \ {0}
  BY DEF PrinterTyped
<1>2. Len(calls) \in 1..Len(calls)
  BY <1>1
<1>3. Innermost \in ToStrCall
  BY <1>1, <1>2 DEF Innermost
<1>4. Innermost.node \in 1..Len(tree) /\ Innermost.step \in 0..2 /\ Innermost.s \in AString
  BY <1>3 DEF ToStrCall
<1>5. IsTree(tree) /\ Len(tree) \in Nat
  BY DumpedTree DEF PrinterTyped, IsTree
<1> QED BY <1>1, <1>2, <1>3, <1>4, <1>5 DEF Dump!Top, Dump!Node, Innermost, TheNode

LEMMA PushIs ==
    ASSUME PrinterTyped, calls # <<>>, NEW step \in 0..2, NEW made, made.str \in AString,
           NEW child \in 1..Len(tree), Dump!Call(step, made, child)
    PROVE  Pushed(step, made.str, child) /\ mem' = made.mem
<1> DEFINE n == Len(calls)
           top == [Dump!Top EXCEPT !.step = step, !.s = made.str]
           called == Dump!Frame(child)
           waiting == Append(Dump!Under, top)
<1>1. calls \in Seq(ToStrCall) /\ n \in Nat \ {0} /\ Innermost \in ToStrCall
  BY TopCall DEF PrinterTyped
<1>2. Dump!Under = SubSeq(calls, 1, n - 1)
  BY DEF Dump!Under
<1>3. /\ Dump!Under \in Seq(ToStrCall) /\ Len(Dump!Under) = n - 1
      /\ \A k \in 1..(n - 1) : Dump!Under[k] = calls[k]
  BY <1>1, <1>2, Returning
<1>4. /\ top \in ToStrCall
      /\ top.node = Innermost.node /\ top.step = step /\ top.s = made.str
  <2>1. Dump!Top = Innermost
    BY TopCall
  <2> QED BY <1>1, <2>1 DEF ToStrCall
<1>5. /\ called \in ToStrCall
      /\ called.node = child /\ called.step = 0 /\ called.s = Dump!str_empty
  BY EmptyString DEF Dump!Frame, ToStrCall
<1>6. calls' = Append(waiting, called) /\ result' = Dump!str_empty /\ mem' = made.mem
  BY DEF Dump!Call
<1> HIDE DEF top, called
<1>7. /\ waiting \in Seq(ToStrCall) /\ Len(waiting) = n
      /\ \A k \in 1..(n - 1) : waiting[k] = calls[k]
      /\ waiting[n] = top
  BY <1>1, <1>3, <1>4, AppendProperties
<1> HIDE DEF waiting
<1>8. /\ calls' \in Seq(ToStrCall) /\ Len(calls') = n + 1
      /\ \A k \in 1..n : calls'[k] = waiting[k]
      /\ calls'[n + 1] = called
  BY <1>1, <1>5, <1>6, <1>7, AppendProperties
<1> QED BY <1>1, <1>4, <1>5, <1>6, <1>7, <1>8 DEF Pushed, Innermost

LEMMA PopIs ==
    ASSUME PrinterTyped, calls # <<>>, NEW made, Dump!Return(made)
    PROVE  Popped(made.str) /\ mem' = made.mem
<1> DEFINE n == Len(calls)
<1>1. calls \in Seq(ToStrCall) /\ n \in Nat \ {0}
  BY TopCall DEF PrinterTyped
<1>2. Dump!Under = SubSeq(calls, 1, n - 1)
  BY DEF Dump!Under
<1>3. /\ Dump!Under \in Seq(ToStrCall) /\ Len(Dump!Under) = n - 1
      /\ \A k \in 1..(n - 1) : Dump!Under[k] = calls[k]
  BY <1>1, <1>2, Returning
<1> QED BY <1>3 DEF Dump!Return, Popped

(* The calls stay nested.                                                  *)
LEMMA PushNested ==
    ASSUME PrinterTyped, CallsNested, calls # <<>>, tree' = tree,
           NEW step \in {1, 2}, NEW new, NEW child \in Nat, Pushed(step, new, child),
           child = (IF step = 1 THEN TheNode.left ELSE TheNode.right),
           child < Innermost.node,
           step = 1 => Dump!IsBinary(TheNode) /\ new = Dump!str_empty,
           step = 2 => /\ ~Dump!IsConstant(TheNode)
                       /\ new.owner /\ new.text = Dump!Name(TheNode)
    PROVE  CallsNested'
<1>0. PICK n \in Nat : n = Len(calls)
  BY TopCall
<1>1. n \in Nat \ {0} /\ n \in 1..Len(calls) /\ Len(calls') = n + 1
  BY <1>0, TopCall DEF Pushed
<1>2. /\ calls'[n].node = calls[n].node /\ calls'[n].step = step /\ calls'[n].s = new
      /\ calls'[n + 1].node = child /\ calls'[n + 1].step = 0
      /\ calls'[n + 1].s = Dump!str_empty
  BY <1>0 DEF Pushed
<1>3. \A k \in 1..(n - 1) : calls'[k] = calls[k] /\ k \in 1..Len(calls) /\ k # Len(calls)
  BY <1>0, <1>1 DEF Pushed
<1>4. \A k \in 1..Len(calls') : k \in 1..(n - 1) \/ k = n \/ k = n + 1
  BY <1>0, <1>1
<1>5. child = Asked(n)'
  BY <1>0, <1>2 DEF Asked, TheNode
<1>6. \A k \in 1..(n - 1) : Asked(k)' = Asked(k)
  BY <1>0, <1>3 DEF Asked
<1>7. Innermost = calls[n] /\ TheNode = tree[calls[n].node]
  BY <1>0 DEF Innermost, TheNode
<1>8. \A k \in 1..n : calls'[k].node = calls[k].node /\ calls[k].node \in Nat
  <2>1. \A k \in 1..n : calls[k] \in ToStrCall
    BY <1>0 DEF PrinterTyped
  <2>2. \A k \in 1..n : calls[k].node \in Nat
    BY <1>0, <2>1, TopCall DEF ToStrCall
  <2> QED BY SMTT(30), <1>0, <1>1, <1>2, <1>3, <2>2
<1>9. ASSUME NEW k \in 1..Len(calls')
      PROVE  /\ calls'[k].step = 0 => k = Len(calls')
             /\ calls'[k].step = 1 => Dump!IsBinary(tree[calls'[k].node])
             /\ calls'[k].step = 2 =>
                    /\ ~Dump!IsConstant(tree[calls'[k].node])
                    /\ calls'[k].s.owner
                    /\ calls'[k].s.text = Dump!Name(tree[calls'[k].node])
             /\ calls'[k].step # 2 => calls'[k].s = Dump!str_empty
  <2>1. CASE k \in 1..(n - 1)
    BY <1>0, <1>3, <2>1 DEF CallsNested
  <2>2. CASE k = n
    BY <1>0, <1>2, <1>7, <2>2
  <2>3. CASE k = n + 1
    BY <1>0, <1>1, <1>2, <2>3
  <2> QED BY <1>0, <1>4, <2>1, <2>2, <2>3
<1>10. ASSUME NEW k \in 2..Len(calls') PROVE calls'[k].node = Asked(k - 1)'
  <2>1. CASE k = n + 1
    <3>1. k - 1 = n
      BY <1>0, <1>1, <2>1
    <3> QED BY <1>0, <1>2, <1>5, <2>1, <3>1
  <2>2. CASE k # n + 1
    <3>1. k \in 2..Len(calls) /\ k - 1 \in 1..(n - 1) /\ k \in 1..n
      BY <1>0, <1>1, <2>2
    <3>2. calls[k].node = Asked(k - 1)
      BY <1>0, <3>1 DEF CallsNested
    <3> QED BY <1>0, <1>6, <1>8, <3>1, <3>2
  <2> QED BY <1>0, <2>1, <2>2
<1>11. ASSUME NEW j \in 1..Len(calls'), NEW k \in 1..Len(calls'), j < k
       PROVE  calls'[k].node < calls'[j].node
  <2>1. \A i \in 1..Len(calls) : i \in 1..n
    BY <1>0
  <2>2. \A i, h \in 1..n : i < h => calls'[h].node < calls'[i].node
    BY <1>0, <1>8 DEF CallsNested
  <2>3. CASE k = n + 1
    <3>1. j \in 1..n
      BY <1>0, <1>1, <1>11, <2>3
    <3>2. j = n \/ calls[n].node < calls[j].node
      BY <1>0, <1>1, <3>1 DEF CallsNested
    <3>3. calls'[k].node < calls[n].node /\ calls[n].node \in Nat /\ child \in Nat
      BY <1>0, <1>1, <1>2, <1>7, <1>8, <2>3
    <3>4. calls'[k].node = child /\ calls'[j].node = calls[j].node /\ calls[j].node \in Nat
      BY <1>0, <1>2, <1>8, <2>3, <3>1
    <3> QED BY <1>0, <3>2, <3>3, <3>4
  <2>4. CASE k # n + 1
    <3>1. j \in 1..n /\ k \in 1..n
      BY <1>0, <1>1, <1>11, <2>4
    <3> QED BY <1>0, <1>11, <2>2, <3>1
  <2> QED BY <1>0, <2>3, <2>4
<1>12. calls'[1].node = Len(tree)
  <2>1. calls[1].node = Len(tree) /\ 1 \in 1..n
    BY <1>0, <1>1 DEF CallsNested
  <2> QED BY <1>0, <1>8, <2>1
<1> QED BY <1>0, <1>9, <1>10, <1>11, <1>12 DEF CallsNested

LEMMA PopNested ==
    ASSUME PrinterTyped, CallsNested, calls # <<>>, tree' = tree, NEW new, Popped(new)
    PROVE  /\ CallsNested'
           /\ \A k \in 1..(Len(calls) - 1) :
                  /\ calls'[k] = calls[k] /\ Asked(k)' = Asked(k)
                  /\ calls[k].step \in {1, 2} /\ calls[k].node # Innermost.node
           /\ Len(calls) # 1 => Asked(Len(calls) - 1) = Innermost.node
<1> DEFINE n == Len(calls)
<1>1. n \in Nat \ {0} /\ Len(calls') = n - 1 /\ Innermost = calls[n] /\ n \in 1..Len(calls)
  BY TopCall DEF Popped, Innermost
<1>2. \A k \in 1..(n - 1) :
          /\ calls'[k] = calls[k] /\ k \in 1..Len(calls) /\ k # Len(calls) /\ k < n
          /\ calls[k] \in ToStrCall
  BY <1>1 DEF Popped, PrinterTyped
<1>3. \A k \in 1..(n - 1) : Asked(k)' = Asked(k)
  BY <1>2 DEF Asked
<1>4. \A k \in 1..(n - 1) : calls[k].step \in 0..2
  BY <1>2 DEF ToStrCall
<1>5. \A k \in 1..(n - 1) : calls[k].step \in {1, 2}
  <2>1. \A k \in 1..(n - 1) : calls[k].step # 0
    BY <1>2 DEF CallsNested
  <2> QED BY <1>4, <2>1
<1>6. \A k \in 1..(n - 1) : calls[k].node # Innermost.node
  <2>1. \A k \in 1..(n - 1) : calls[n].node < calls[k].node
    BY <1>1, <1>2 DEF CallsNested
  <2>2. \A k \in 1..(n - 1) : calls[k].node \in Nat
    BY <1>2, TopCall DEF ToStrCall
  <2>3. calls[n].node \in Nat
    BY <1>1, TopCall
  <2> QED BY <1>1, <2>1, <2>2, <2>3
<1>7. n # 1 => Asked(n - 1) = Innermost.node
  <2>1. n # 1 => n \in 2..Len(calls)
    BY <1>1
  <2> QED BY <1>1, <2>1 DEF CallsNested
<1> HIDE DEF n
<1>8. \A k \in 1..Len(calls') :
             /\ calls'[k].step = 0 => k = Len(calls')
             /\ calls'[k].step = 1 => Dump!IsBinary(tree[calls'[k].node])
             /\ calls'[k].step = 2 =>
                    /\ ~Dump!IsConstant(tree[calls'[k].node])
                    /\ calls'[k].s.owner
                    /\ calls'[k].s.text = Dump!Name(tree[calls'[k].node])
             /\ calls'[k].step # 2 => calls'[k].s = Dump!str_empty
  BY SMTT(30), <1>1, <1>2, <1>5 DEF CallsNested
<1>9. ASSUME NEW k \in 2..Len(calls') PROVE calls'[k].node = Asked(k - 1)'
  <2>1. k \in 2..Len(calls) /\ k - 1 \in 1..(n - 1) /\ k \in 1..(n - 1)
    BY <1>1 DEF n
  <2>2. calls[k].node = Asked(k - 1)
    BY <2>1 DEF CallsNested
  <2> QED BY <1>2, <1>3, <2>1, <2>2
<1>10. \A j, k \in 1..Len(calls') : j < k => calls'[k].node < calls'[j].node
  BY <1>1, <1>2 DEF CallsNested
<1>11. calls' # <<>> => calls'[1].node = Len(tree)
  <2>1. calls' # <<>> => 1 \in 1..(n - 1)
    BY <1>1 DEF Popped
  <2> QED BY <1>2, <2>1 DEF CallsNested
<1>12. CallsNested'
  BY <1>8, <1>9, <1>10, <1>11 DEF CallsNested
<1> QED BY <1>2, <1>3, <1>5, <1>6, <1>7, <1>12 DEF n

(* The nodes whose call has returned, and the operators passed.            *)
LEMMA OneParent ==
    ASSUME NEW t \in Dumped, NEW j \in 1..Len(t), NEW k \in 1..Len(t), NEW i,
           i \in Dump!Operands(t[j]), i \in Dump!Operands(t[k])
    PROVE  j = k
<1>1. IsTree(t)
  BY DumpedTree
<1>2. i \in 1..(Len(t) - 1)
  BY <1>1, NodeParts DEF Dump!Operands
<1>3. PICK p \in 1..Len(t) : \A h \in 1..Len(t) : i \in Dump!Operands(t[h]) <=> h = p
  BY <1>2, DumpedAssumption DEF Dump!ProgramsAssumption
<1> QED BY <1>3

LEMMA Parent ==
    ASSUME NEW t \in Dumped, NEW i \in 1..(Len(t) - 1)
    PROVE  \E p \in 1..Len(t) : i \in Dump!Operands(t[p])
  BY DumpedAssumption DEF Dump!ProgramsAssumption

LEMMA ReturnedBelow ==
    ASSUME PrinterTyped, CallsNested, NEW k \in 1..Len(calls)
    PROVE  Returned(k) \subseteq Dump!Operands(tree[calls[k].node]) /\ calls[k].node \in 1..Len(tree)
<1>1. calls[k] \in ToStrCall /\ calls # <<>>
  BY DEF PrinterTyped
<1>2. calls[k].node \in 1..Len(tree) /\ calls[k].step \in 0..2
  BY <1>1 DEF ToStrCall
<1>3. IsTree(tree)
  BY <1>1, TopCall
<1>4. calls[k].step = 2 => ~Dump!IsConstant(tree[calls[k].node])
  BY DEF CallsNested
<1>5. calls[k].step = 1 => Dump!IsBinary(tree[calls[k].node])
  BY DEF CallsNested
<1> QED
  BY <1>2, <1>3, <1>4, <1>5, NodeParts
  DEF Returned, Asked, Dump!Operands, Dump!IsBinary, Dump!IsConstant

LEMMA PushFinished ==
    ASSUME PrinterTyped, CallsNested, calls # <<>>, tree' = tree,
           stage = "expression", stage' = "expression",
           NEW step \in {1, 2}, NEW new, NEW child, Pushed(step, new, child),
           child = (IF step = 1 THEN TheNode.left ELSE TheNode.right), child # 0,
           \/ Innermost.step = 0 /\ (step = 1 \/ ~Dump!IsBinary(TheNode))
           \/ Innermost.step = 1 /\ step = 2,
           NEW D, Finished(D)
    PROVE  /\ Finished(D)'
           /\ Passed(D)' = Passed(D) \cup
                  (IF step = 2 /\ Dump!IsBinary(TheNode) THEN {Innermost.node} ELSE {})
           /\ Innermost.node \notin Passed(D)
<1>0. PICK n \in Nat : n = Len(calls)
  BY TopCall
<1>1. /\ n \in Nat \ {0} /\ n \in 1..Len(calls) /\ Len(calls') = n + 1 /\ calls' # <<>>
      /\ Innermost.node \in 1..Len(tree) /\ Innermost.step \in 0..2 /\ IsTree(tree)
  BY <1>0, TopCall DEF Pushed
<1>2. /\ calls'[n].node = calls[n].node /\ calls'[n].step = step
      /\ calls'[n + 1].node = child /\ calls'[n + 1].step = 0
  BY <1>0 DEF Pushed
<1>3. \A k \in 1..(n - 1) : calls'[k] = calls[k] /\ k \in 1..Len(calls) /\ k # n /\ k # n + 1
  BY <1>0, <1>1 DEF Pushed
<1>4. \A k \in 1..Len(calls') : k \in 1..(n - 1) \/ k = n \/ k = n + 1
  BY <1>1
<1>5. Innermost = calls[n] /\ TheNode = tree[calls[n].node]
  BY <1>0 DEF Innermost, TheNode
<1>6. Innermost.step = 1 => Dump!IsBinary(TheNode)
  BY <1>0, <1>1, <1>5 DEF CallsNested
<1>7. \A k \in 1..(n - 1) : Returned(k)' = Returned(k)
  BY <1>0, <1>1, <1>3 DEF Returned
<1>8. Returned(n + 1)' = {}
  BY <1>2 DEF Returned
<1>9. Returned(n)' = Returned(n)
  <2>1. n # Len(calls') /\ n = Len(calls)
    BY <1>0, <1>1
  <2>2. CASE Innermost.step = 0 /\ (step = 1 \/ ~Dump!IsBinary(TheNode))
    BY <1>2, <1>5, <2>1, <2>2 DEF Returned
  <2>3. CASE Innermost.step = 1 /\ step = 2
    BY <1>2, <1>5, <1>6, <2>1, <2>3 DEF Returned, Asked
  <2> QED BY <2>2, <2>3
<1>10. child \notin Returned(n)
  <2>1. CASE Innermost.step = 0
    BY <1>0, <1>5, <2>1 DEF Returned
  <2>2. CASE Innermost.step = 1 /\ step = 2
    <3>1. Returned(n) = {TheNode.left} /\ child = TheNode.right
      BY <1>0, <1>5, <2>2 DEF Returned, Asked
    <3>2. TheNode.right # TheNode.left
      BY <1>1, <1>5, <1>6, <2>2, NodeParts DEF Dump!IsBinary
    <3> QED BY <3>1, <3>2
  <2> QED BY <2>1, <2>2
<1>11. child \in Dump!Operands(TheNode)
  BY DEF Dump!Operands
<1>12. child \notin D
  <2> SUFFICES ASSUME child \in D PROVE FALSE
    OBVIOUS
  <2>1. tree \in Dumped /\ D \subseteq 1..Len(tree)
    BY DEF PrinterTyped, Finished
  <2>2. CASE \E e \in D : child \in Dump!Operands(tree[e])
    <3>1. PICK e \in D : child \in Dump!Operands(tree[e])
      BY <2>2
    <3>2. e = calls[n].node
      BY <1>1, <1>5, <1>11, <2>1, <3>1, OneParent
    <3>3. calls[n].node \notin D
      BY <1>0, <1>1 DEF Finished
    <3> QED BY <3>1, <3>2, <3>3
  <2>3. CASE \E k \in 1..Len(calls) : child \in Returned(k)
    <3>1. PICK k \in 1..Len(calls) : child \in Returned(k)
      BY <2>3
    <3>2. child \in Dump!Operands(tree[calls[k].node]) /\ calls[k].node \in 1..Len(tree)
      BY <3>1, ReturnedBelow
    <3>3. calls[k].node = calls[n].node
      BY <1>1, <1>5, <1>11, <2>1, <3>2, OneParent
    <3>4. k # n
      BY <1>10, <3>1
    <3>5. k < n /\ n \in 1..Len(calls)
      BY <1>0, <1>1, <3>4
    <3>6. calls[n].node < calls[k].node
      BY <3>5 DEF CallsNested
    <3>7. calls[n].node \in Nat
      BY <1>1, <1>5
    <3> QED BY <3>3, <3>6, <3>7
  <2> QED BY <2>2, <2>3 DEF Finished
<1>13. Finished(D)'
  <2>1. /\ D \subseteq 1..Len(tree')
        /\ \A d \in D : Dump!Operands(tree'[d]) \subseteq D
    BY DEF Finished
  <2>2. ASSUME NEW d \in D
        PROVE  \/ \E e \in D : d \in Dump!Operands(tree'[e])
               \/ \E k \in 1..Len(calls') : d \in Returned(k)'
    <3>1. CASE \E k \in 1..Len(calls) : d \in Returned(k)
      <4>1. PICK k \in 1..Len(calls) : d \in Returned(k)
        BY <3>1
      <4>2. k \in 1..Len(calls') /\ (k \in 1..(n - 1) \/ k = n)
        BY <1>0, <1>1
      <4> QED BY <1>7, <1>9, <4>1, <4>2
    <3> QED BY <3>1 DEF Finished
  <2>3. ASSUME NEW k \in 1..Len(calls') PROVE calls'[k].node \notin D /\ Returned(k)' \subseteq D
    <3>1. CASE k \in 1..(n - 1)
      BY <1>3, <1>7, <3>1 DEF Finished
    <3>2. CASE k = n
      BY <1>0, <1>1, <1>2, <1>9, <3>2 DEF Finished
    <3>3. CASE k = n + 1
      BY <1>2, <1>8, <1>12, <3>3
    <3> QED BY <1>4, <3>1, <3>2, <3>3
  <2> QED BY <1>1, <2>1, <2>2, <2>3 DEF Finished
<1>14. Innermost.node \notin Passed(D)
  <2>1. Innermost.node \notin D
    BY <1>0, <1>1, <1>5 DEF Finished
  <2>2. ASSUME NEW k \in 1..Len(calls), calls[k].step = 2, calls[k].node = Innermost.node PROVE k = n
    <3>1. k < n => calls[n].node < calls[k].node
      BY <1>1 DEF CallsNested
    <3>2. calls[n].node \in Nat /\ n = Len(calls)
      BY <1>0, <1>1, <1>5
    <3> QED BY <1>5, <2>2, <3>1, <3>2
  <2>3. Innermost.step # 2
    OBVIOUS
  <2> QED BY <1>5, <2>1, <2>2, <2>3 DEF Passed
<1>15. Passed(D)' = Passed(D) \cup
           (IF step = 2 /\ Dump!IsBinary(TheNode) THEN {Innermost.node} ELSE {})
  <2>1. Innermost.step # 2
    OBVIOUS
  <2>2. ASSUME NEW i \in 1..Len(tree), Dump!IsBinary(tree[i])
        PROVE  (\E k \in 1..Len(calls') : calls'[k].step = 2 /\ calls'[k].node = i)
               <=> (\E k \in 1..Len(calls) : calls[k].step = 2 /\ calls[k].node = i)
                   \/ (step = 2 /\ Innermost.node = i)
    <3>1. (\E k \in 1..Len(calls') : calls'[k].step = 2 /\ calls'[k].node = i)
          <=> (\E k \in 1..(n - 1) : calls[k].step = 2 /\ calls[k].node = i)
              \/ (step = 2 /\ Innermost.node = i)
      <4>1. 1..Len(calls') = 1..(n - 1) \cup {n, n + 1}
        BY <1>1
      <4>2. \A k \in 1..(n - 1) : calls'[k] = calls[k]
        BY <1>3
      <4>3. calls'[n].step = step /\ calls'[n].node = Innermost.node /\ calls'[n + 1].step = 0
        BY <1>2, <1>5
      <4>4. ASSUME NEW k \in 1..Len(calls'), calls'[k].step = 2, calls'[k].node = i
            PROVE  k \in 1..(n - 1) \/ (step = 2 /\ Innermost.node = i)
        <5>1. k # n + 1
          BY <4>3, <4>4
        <5> QED BY <4>1, <4>3, <4>4, <5>1
      <4>5. ASSUME NEW k \in 1..(n - 1), calls[k].step = 2, calls[k].node = i
            PROVE  k \in 1..Len(calls') /\ calls'[k].step = 2 /\ calls'[k].node = i
        BY <4>1, <4>2, <4>5
      <4>6. step = 2 /\ Innermost.node = i =>
                n \in 1..Len(calls') /\ calls'[n].step = 2 /\ calls'[n].node = i
        BY <4>1, <4>3
      <4> QED BY <4>2, <4>4, <4>5, <4>6
    <3>2. (\E k \in 1..Len(calls) : calls[k].step = 2 /\ calls[k].node = i)
          <=> (\E k \in 1..(n - 1) : calls[k].step = 2 /\ calls[k].node = i)
      <4>1. 1..Len(calls) = 1..(n - 1) \cup {n}
        BY <1>0, <1>1
      <4> QED BY <1>5, <2>1, <4>1
    <3> QED BY <3>1, <3>2
  <2>3. Dump!IsBinary(TheNode) <=> Dump!IsBinary(tree[Innermost.node])
    BY <1>5
  <2>4. ASSUME NEW i
        PROVE  i \in Passed(D)' <=> i \in Passed(D)
                   \/ (step = 2 /\ Dump!IsBinary(TheNode) /\ i = Innermost.node)
    <3>1. i \in Passed(D)'
          <=> /\ i \in 1..Len(tree) /\ Dump!IsBinary(tree[i])
              /\ i \in D \/ \E k \in 1..Len(calls') : calls'[k].step = 2 /\ calls'[k].node = i
      BY DEF Passed
    <3>2. i \in Passed(D)
          <=> /\ i \in 1..Len(tree) /\ Dump!IsBinary(tree[i])
              /\ i \in D \/ \E k \in 1..Len(calls) : calls[k].step = 2 /\ calls[k].node = i
      BY DEF Passed
    <3> QED BY <1>1, <2>2, <2>3, <3>1, <3>2
  <2> QED BY <2>4
<1> QED BY <1>13, <1>14, <1>15

LEMMA PopFinished ==
    ASSUME PrinterTyped, CallsNested, calls # <<>>, tree' = tree,
           stage = "expression", stage' = "expression", NEW new, Popped(new),
           \/ Innermost.step = 0 /\ Dump!IsConstant(TheNode)
           \/ Innermost.step = 2,
           NEW D, Finished(D), NEW E, E = D \cup {Innermost.node}
    PROVE  Finished(E)' /\ Passed(E)' = Passed(D)
<1>0. PICK n \in Nat : n = Len(calls)
  BY TopCall
<1>1. /\ n \in Nat \ {0} /\ n \in 1..Len(calls) /\ Len(calls') = n - 1
      /\ Innermost.node \in 1..Len(tree) /\ Innermost.step \in 0..2 /\ IsTree(tree)
  BY <1>0, TopCall DEF Popped
<1>2. \A k \in 1..(n - 1) :
          /\ calls'[k] = calls[k] /\ Asked(k)' = Asked(k) /\ k \in 1..Len(calls) /\ k # n
          /\ calls[k].step \in {1, 2} /\ calls[k].node # Innermost.node
  BY <1>0, <1>1, PopNested
<1>3. n # 1 => Asked(n - 1) = Innermost.node
  BY <1>0, PopNested
<1>4. Innermost = calls[n] /\ TheNode = tree[calls[n].node]
  BY <1>0 DEF Innermost, TheNode
<1>5. \A k \in 1..(n - 1) : Returned(k)' = Returned(k) \cup (IF k = n - 1 THEN {Innermost.node} ELSE {})
  <2> SUFFICES ASSUME NEW k \in 1..(n - 1)
               PROVE  Returned(k)' = Returned(k) \cup (IF k = n - 1 THEN {Innermost.node} ELSE {})
    OBVIOUS
  <2>1. /\ calls'[k] = calls[k] /\ Asked(k)' = Asked(k) /\ k # Len(calls)
        /\ calls[k].step # 0
    BY SMTT(30), <1>0, <1>2
  <2>2. k = n - 1 => Asked(k) = Innermost.node
    BY <1>3
  <2>3. Returned(k) =
            IF calls[k].step = 2 /\ Dump!IsBinary(tree[calls[k].node])
            THEN {tree[calls[k].node].left} ELSE {}
    BY <2>1 DEF Returned
  <2>4. Returned(k)' =
            (IF calls[k].step = 2 /\ Dump!IsBinary(tree[calls[k].node])
             THEN {tree[calls[k].node].left} ELSE {})
            \cup (IF k = Len(calls') THEN {Asked(k)} ELSE {})
    BY <2>1 DEF Returned
  <2> QED BY <1>1, <2>2, <2>3, <2>4
<1>6. Dump!Operands(TheNode) \subseteq D
  <2>1. Returned(n) \subseteq D
    BY <1>0, <1>1 DEF Finished
  <2>2. CASE Dump!IsConstant(TheNode)
    BY <2>2 DEF Dump!IsConstant, Dump!Operands
  <2>3. CASE Innermost.step = 2
    <3>1. TheNode.right \in Returned(n)
      BY <1>0, <1>4, <2>3 DEF Returned, Asked
    <3>2. TheNode.left # 0 => TheNode.left \in Returned(n)
      BY <1>0, <1>4, <2>3 DEF Returned, Dump!IsBinary
    <3> QED BY <2>1, <3>1, <3>2 DEF Dump!Operands
  <2> QED BY <2>2, <2>3
<1>7. Innermost.node \notin D
  BY <1>0, <1>1, <1>4 DEF Finished
<1>8. Returned(n) \subseteq Dump!Operands(TheNode)
  BY <1>0, <1>1, <1>4, ReturnedBelow
<1>9. Finished(E)'
  <2>1. /\ E \subseteq 1..Len(tree')
        /\ \A d \in E : Dump!Operands(tree'[d]) \subseteq E
    BY <1>1, <1>4, <1>6 DEF Finished
  <2>2. ASSUME NEW d \in E
        PROVE  \/ \E e \in E : d \in Dump!Operands(tree'[e])
               \/ \E k \in 1..Len(calls') : d \in Returned(k)'
               \/ calls' = <<>> /\ d = Len(tree')
    <3>1. CASE d = Innermost.node
      <4>1. CASE n = 1
        <5>1. Len(calls') = 0
          BY <1>1, <4>1
        <5>2. calls' = <<>>
          BY <5>1 DEF Popped
        <5>3. calls[1].node = Len(tree)
          BY DEF CallsNested
        <5> QED BY <1>4, <3>1, <4>1, <5>2, <5>3
      <4>2. CASE n # 1
        <5>1. n - 1 \in 1..(n - 1) /\ n - 1 \in 1..Len(calls')
          BY <1>1, <4>2
        <5> QED BY <1>5, <3>1, <5>1
      <4> QED BY <4>1, <4>2
    <3>2. CASE d \in D
      <4>1. CASE \E e \in D : d \in Dump!Operands(tree[e])
        BY <4>1
      <4>2. CASE \E k \in 1..Len(calls) : d \in Returned(k)
        <5>1. PICK k \in 1..Len(calls) : d \in Returned(k)
          BY <4>2
        <5>2. CASE k = n
          BY <1>4, <1>8, <5>1, <5>2
        <5>3. CASE k # n
          <6>1. k \in 1..(n - 1) /\ k \in 1..Len(calls')
            BY <1>0, <1>1, <5>3
          <6> QED BY <1>5, <5>1, <6>1
        <5> QED BY <5>2, <5>3
      <4> QED BY <3>2, <4>1, <4>2 DEF Finished
    <3> QED BY <3>1, <3>2
  <2>3. ASSUME NEW k \in 1..Len(calls') PROVE calls'[k].node \notin E /\ Returned(k)' \subseteq E
    <3>1. k \in 1..(n - 1)
      BY <1>1
    <3>2. calls[k].node \notin D /\ Returned(k) \subseteq D
      BY <1>2, <3>1 DEF Finished
    <3> QED BY <1>2, <1>5, <3>1, <3>2
  <2>4. calls' = <<>> => Len(tree') \in E
    <3>1. calls' = <<>> => n = 1
      BY <1>1
    <3>2. calls[1].node = Len(tree)
      BY DEF CallsNested
    <3> QED BY <1>4, <3>1, <3>2
  <2> QED BY <2>1, <2>2, <2>3, <2>4 DEF Finished
<1>10. Passed(E)' = Passed(D)
  <2>1. ASSUME NEW i \in 1..Len(tree), Dump!IsBinary(tree[i])
        PROVE  (i \in E \/ \E k \in 1..Len(calls') : calls'[k].step = 2 /\ calls'[k].node = i)
               <=> (i \in D \/ \E k \in 1..Len(calls) : calls[k].step = 2 /\ calls[k].node = i)
    <3>1. ASSUME NEW k \in 1..Len(calls'), calls'[k].step = 2, calls'[k].node = i
          PROVE  k \in 1..Len(calls) /\ calls[k].step = 2 /\ calls[k].node = i
      <4>1. k \in 1..(n - 1)
        BY <1>1
      <4> QED BY <1>2, <3>1, <4>1
    <3>2. ASSUME i = Innermost.node
          PROVE  n \in 1..Len(calls) /\ calls[n].step = 2 /\ calls[n].node = i
      <4>1. Dump!IsBinary(TheNode)
        BY <1>4, <2>1, <3>2
      <4>2. Innermost.step = 2
        BY <4>1 DEF Dump!IsBinary, Dump!IsConstant
      <4> QED BY <1>1, <1>4, <3>2, <4>2
    <3>3. ASSUME NEW k \in 1..Len(calls), calls[k].step = 2, calls[k].node = i
          PROVE  i = Innermost.node \/ (k \in 1..Len(calls') /\ calls'[k].step = 2 /\ calls'[k].node = i)
      <4>1. CASE k = n
        BY <1>4, <3>3, <4>1
      <4>2. CASE k # n
        <5>1. k \in 1..(n - 1) /\ k \in 1..Len(calls')
          BY <1>0, <1>1, <4>2
        <5> QED BY <1>2, <3>3, <5>1
      <4> QED BY <4>1, <4>2
    <3> QED BY <3>1, <3>2, <3>3
  <2>2. ASSUME NEW i PROVE i \in Passed(E)' <=> i \in Passed(D)
    <3>1. i \in Passed(E)'
          <=> /\ i \in 1..Len(tree) /\ Dump!IsBinary(tree[i])
              /\ i \in E \/ \E k \in 1..Len(calls') : calls'[k].step = 2 /\ calls'[k].node = i
      BY DEF Passed
    <3>2. i \in Passed(D)
          <=> /\ i \in 1..Len(tree) /\ Dump!IsBinary(tree[i])
              /\ i \in D \/ \E k \in 1..Len(calls) : calls[k].step = 2 /\ calls[k].node = i
      BY DEF Passed
    <3> QED BY <2>1, <3>1, <3>2
  <2> QED BY <2>2
<1> QED BY <1>9, <1>10

----------------------------------------------------------------------------
(* A call of an operand and a return keep the invariant.                   *)
LEMMA LostGrows ==
    ASSUME PrinterTyped, NEW D, NEW X, X = {} \/ \E p : X = {p} /\ p \notin Lost,
           NEW Y, Y = {} \/ \E i : Y = {i} /\ i \notin Passed(D), X = {} <=> Y = {},
           Cardinality(Lost) = Cardinality(Passed(D))
    PROVE  Cardinality(Lost \cup X) = Cardinality(Passed(D) \cup Y)
<1>1. IsFiniteSet(Lost)
  <2>1. Lost \subseteq mem.live /\ IsFiniteSet(mem.live)
    BY DEF Lost, PrinterTyped, InOrder
  <2> QED BY <2>1, FS_Subset
<1>2. IsFiniteSet(Passed(D))
  <2>1. Len(tree) \in Nat
    BY DumpedTree DEF PrinterTyped, IsTree
  <2>2. IsFiniteSet(1..Len(tree))
    BY <2>1, FS_Interval
  <2>3. Passed(D) \subseteq 1..Len(tree)
    BY DEF Passed
  <2> QED BY <2>2, <2>3, FS_Subset
<1>3. CASE X = {} /\ Y = {}
  <2>1. Lost \cup X = Lost /\ Passed(D) \cup Y = Passed(D)
    BY <1>3
  <2> QED BY <2>1
<1>4. CASE X # {} /\ Y # {}
  <2>1. PICK p : X = {p} /\ p \notin Lost
    BY <1>4
  <2>2. PICK i : Y = {i} /\ i \notin Passed(D)
    BY <1>4
  <2>3. Cardinality(Lost \cup {p}) = Cardinality(Lost) + 1
    BY <1>1, <2>1, FS_AddElement
  <2>4. Cardinality(Passed(D) \cup {i}) = Cardinality(Passed(D)) + 1
    BY <1>2, <2>2, FS_AddElement
  <2> QED BY <2>1, <2>2, <2>3, <2>4
<1> QED BY <1>3, <1>4

LEMMA PushKeeps ==
    ASSUME DumpInv, calls # <<>>, stage = "expression",
           UNCHANGED <<tree, line, indentStr, stage, dump>>,
           NEW fresh, NEW new, StringStep(fresh, new),
           NEW step \in {1, 2}, NEW child \in Nat, Pushed(step, new, child),
           child = (IF step = 1 THEN TheNode.left ELSE TheNode.right),
           child # 0, child < Innermost.node,
           \/ Innermost.step = 0 /\ (step = 1 \/ ~Dump!IsBinary(TheNode))
           \/ Innermost.step = 1 /\ step = 2,
           step = 1 => Dump!IsBinary(TheNode) /\ new = Dump!str_empty,
           step = 2 => /\ ~Dump!IsConstant(TheNode)
                       /\ new.owner /\ new.text = Dump!Name(TheNode),
           fresh \ OwnPtr(new) =
               (IF step = 2 /\ Dump!IsBinary(TheNode) THEN {mem.next} ELSE {})
    PROVE  DumpInv'
<1>1. PrinterTyped /\ StringsHeld /\ CallsNested /\ Texts
  BY DEF DumpInv
<1>2. PICK D \in SUBSET (1..Len(tree)) : Finished(D) /\ Cardinality(Lost) = Cardinality(Passed(D))
  BY DEF DumpInv
<1>3. CallsNested'
  BY <1>1, PushNested
<1>4. /\ Finished(D)' /\ Innermost.node \notin Passed(D)
      /\ Passed(D)' = Passed(D) \cup
             (IF step = 2 /\ Dump!IsBinary(TheNode) THEN {Innermost.node} ELSE {})
  <2>1. stage' = "expression"
    OBVIOUS
  <2> QED BY <1>1, <1>2, <2>1, PushFinished
<1>5. StringsHeld' /\ Lost' = Lost \cup (fresh \ OwnPtr(new))
  <2>1. /\ calls'[Len(calls)].s = new /\ calls'[Len(calls) + 1].s = Dump!str_empty
        /\ Len(calls') = Len(calls) + 1 /\ result' = Dump!str_empty
        /\ \A k \in 1..(Len(calls) - 1) : calls'[k] = calls[k]
    BY DEF Pushed
  <2> QED BY <1>1, <2>1, OneMoreOrLess DEF StringStep
<1>6. PrinterTyped'
  <2>1. ToStrCall' = ToStrCall
    BY DEF ToStrCall
  <2> QED BY <1>1, <2>1, EmptyString DEF PrinterTyped, StringStep, Pushed
<1>7. Texts'
  <2>1. Len(calls') = Len(calls) + 1 /\ Len(calls) \in Nat /\ calls' # <<>>
    BY <1>1, TopCall DEF Pushed
  <2>2. calls'[Len(calls')].step = 0 /\ result' = Dump!str_empty
    BY <2>1 DEF Pushed
  <2> QED BY <1>1, <2>1, <2>2 DEF Texts
<1>8. mem.next \notin Lost
  BY <1>1, InMemory DEF Lost, PrinterTyped
<1>9. Cardinality(Lost') = Cardinality(Passed(D)')
  <2> DEFINE X == fresh \ OwnPtr(new)
             Y == IF step = 2 /\ Dump!IsBinary(TheNode) THEN {Innermost.node} ELSE {}
  <2>1. X = {} \/ \E p : X = {p} /\ p \notin Lost
    BY <1>8
  <2>2. Y = {} \/ \E i : Y = {i} /\ i \notin Passed(D)
    BY <1>4
  <2>3. X = {} <=> Y = {}
    OBVIOUS
  <2>4. Lost' = Lost \cup X /\ Passed(D)' = Passed(D) \cup Y
    BY <1>4, <1>5
  <2> HIDE DEF X, Y
  <2>5. Cardinality(Lost \cup X) = Cardinality(Passed(D) \cup Y)
    BY <1>1, <1>2, <2>1, <2>2, <2>3, LostGrows
  <2> QED BY <2>4, <2>5
<1>10. D \in SUBSET (1..Len(tree'))
  OBVIOUS
<1> QED BY <1>3, <1>4, <1>5, <1>6, <1>7, <1>9, <1>10 DEF DumpInv

LEMMA PopKeeps ==
    ASSUME DumpInv, calls # <<>>, stage = "expression",
           UNCHANGED <<tree, line, indentStr, stage, dump>>,
           NEW fresh, NEW new, StringStep(fresh, new), Popped(new),
           \/ Innermost.step = 0 /\ Dump!IsConstant(TheNode)
           \/ Innermost.step = 2,
           new.owner, new.text = SpineOf(tree)[Innermost.node],
           fresh \ OwnPtr(new) = {}
    PROVE  DumpInv'
<1>1. PrinterTyped /\ StringsHeld /\ CallsNested /\ Texts
  BY DEF DumpInv
<1>2. PICK D \in SUBSET (1..Len(tree)) : Finished(D) /\ Cardinality(Lost) = Cardinality(Passed(D))
  BY DEF DumpInv
<1>3. PICK n \in Nat : n = Len(calls) /\ n # 0
  BY <1>1, TopCall
<1>4. /\ CallsNested'
      /\ \A k \in 1..(n - 1) : calls'[k] = calls[k] /\ Asked(k)' = Asked(k) /\ calls[k].step # 0
      /\ n # 1 => Asked(n - 1) = Innermost.node
  BY <1>1, <1>3, PopNested
<1>5. PICK E : E = D \cup {Innermost.node}
  OBVIOUS
<1>6. Finished(E)' /\ Passed(E)' = Passed(D)
  <2>1. stage' = "expression"
    OBVIOUS
  <2> QED BY <1>1, <1>2, <1>5, <2>1, PopFinished
<1>7. StringsHeld' /\ Lost' = Lost
  <2>1. /\ Len(calls') = Len(calls) - 1 /\ result' = new
        /\ \A k \in 1..(Len(calls) - 1) : calls'[k] = calls[k]
    BY DEF Popped
  <2>2. StringsHeld' /\ Lost' = Lost \cup (fresh \ OwnPtr(new))
    BY <1>1, <2>1, OneMoreOrLess DEF StringStep
  <2> QED BY <2>2
<1>8. PrinterTyped'
  <2>1. ToStrCall' = ToStrCall
    BY DEF ToStrCall
  <2> QED BY <1>1, <2>1 DEF PrinterTyped, StringStep, Popped
<1>9. Texts'
  <2>1. Len(calls') = n - 1 /\ result' = new
    BY <1>3 DEF Popped
  <2>2. ASSUME calls' = <<>> PROVE result'.text = SpineOf(tree')[Len(tree')]
    <3>1. n = 1
      <4>1. \A k : k \in Nat /\ k - 1 = 0 => k = 1
        OBVIOUS
      <4>2. Len(calls') = 0
        BY <2>2
      <4>3. n - 1 = 0
        BY <2>1, <4>2
      <4> QED BY <1>3, <4>1, <4>3
    <3>2. calls[1].node = Len(tree)
      BY <1>1 DEF CallsNested
    <3> QED BY <1>3, <2>1, <3>1, <3>2 DEF Innermost
  <2>3. ASSUME calls' # <<>>
        PROVE  calls'[Len(calls')].step # 0 /\ result'.text = SpineOf(tree')[Asked(Len(calls))']
    <3>1. n # 1
      BY <1>3, <2>1, <2>3 DEF Popped
    <3>2. n - 1 \in 1..(n - 1)
      BY <1>3, <3>1
    <3>3. PICK m \in Nat : m = n - 1
      BY <1>3
    <3>4. Asked(m)' = Asked(m) /\ Asked(m) = Innermost.node /\ calls'[m].step # 0
      BY <1>4, <3>1, <3>2, <3>3
    <3>5. Asked(Len(calls))' = Asked(m)'
      BY <2>1, <3>3 DEF Asked
    <3> QED BY <2>1, <3>3, <3>4, <3>5
  <2> QED BY <1>1, <2>1, <2>2, <2>3 DEF Texts
<1>10. E \in SUBSET (1..Len(tree'))
  BY <1>1, <1>5, TopCall
<1> QED BY <1>2, <1>4, <1>6, <1>7, <1>8, <1>9, <1>10 DEF DumpInv

(* What a running call has in hand.                                        *)
LEMMA InHand ==
    ASSUME DumpInv, calls # <<>>, stage = "expression"
    PROVE  /\ PrinterTyped /\ InOrder(mem) /\ result \in AString /\ Innermost.s \in AString
           /\ Dump!Top = Innermost /\ Dump!Node = TheNode
           /\ Innermost.node \in 1..Len(tree) /\ IsTree(tree) /\ TheNode = tree[Innermost.node]
           /\ Innermost.step = 0 =>
                  result = Dump!str_empty /\ Innermost.s = Dump!str_empty
           /\ Innermost.step = 1 =>
                  /\ Dump!IsBinary(TheNode) /\ Innermost.s = Dump!str_empty
                  /\ result.owner /\ result.text = SpineOf(tree)[TheNode.left]
           /\ Innermost.step = 2 =>
                  /\ ~Dump!IsConstant(TheNode)
                  /\ Innermost.s.owner /\ Innermost.s.text = Dump!Name(TheNode)
                  /\ result.owner /\ result.text = SpineOf(tree)[TheNode.right]
           /\ Allocated(mem, result) /\ Allocated(mem, Innermost.s)
           /\ Apart(Innermost.s, result)
<1>1. PrinterTyped /\ StringsHeld /\ CallsNested /\ Texts
  BY DEF DumpInv
<1>2. Len(calls) \in 1..Len(calls) /\ Innermost = calls[Len(calls)] /\ TheNode = tree[Innermost.node]
  BY <1>1, TopCall DEF Innermost, TheNode
<1>3. /\ Innermost.s \in AString /\ Innermost.node \in 1..Len(tree) /\ IsTree(tree)
      /\ Dump!Top = Innermost /\ Dump!Node = TheNode
  BY <1>1, TopCall
<1>4. InOrder(mem) /\ result \in AString
  BY <1>1 DEF PrinterTyped
<1>5. Allocated(mem, result) /\ Allocated(mem, Innermost.s) /\ Apart(Innermost.s, result)
  BY <1>1, <1>2 DEF StringsHeld
<1>6. /\ Innermost.step = 0 => result = Dump!str_empty
      /\ Innermost.step # 0 => result.owner /\ result.text = SpineOf(tree)[Asked(Len(calls))]
  BY <1>1, <1>2 DEF Texts
<1>7. /\ Innermost.step = 1 => Asked(Len(calls)) = TheNode.left
      /\ Innermost.step = 2 => Asked(Len(calls)) = TheNode.right
  BY <1>2 DEF Asked
<1>8. /\ Innermost.step = 1 => Dump!IsBinary(TheNode)
      /\ Innermost.step = 2 =>
             /\ ~Dump!IsConstant(TheNode)
             /\ Innermost.s.owner /\ Innermost.s.text = Dump!Name(TheNode)
      /\ Innermost.step # 2 => Innermost.s = Dump!str_empty
  BY <1>1, <1>2 DEF CallsNested
<1> QED BY <1>1, <1>2, <1>3, <1>4, <1>5, <1>6, <1>7, <1>8

LEMMA MadeStep ==
    ASSUME PrinterTyped, calls # <<>>, NEW r, NEW text \in Chars, text # <<>>,
           NEW gone, gone = OwnPtr(Innermost.s) \cup OwnPtr(result),
           Made(mem, r, gone, text), mem' = r.mem
    PROVE  /\ StringStep({mem.next}, r.str) /\ {mem.next} \ OwnPtr(r.str) = {}
           /\ r.str \in AString /\ r.str.owner /\ r.str.text = text
<1>1. InOrder(mem) /\ mem.next \in Nat
  BY InMemory DEF PrinterTyped
<1>2. /\ r.str \in AString /\ r.str.owner /\ r.str.text = text
      /\ Allocated(r.mem, r.str) /\ OwnPtr(r.str) = {mem.next}
  BY <1>1, MadeString
<1>3. InOrder(r.mem) /\ r.mem.live = (mem.live \ gone) \cup {mem.next}
  BY DEF Made
<1> QED BY <1>1, <1>2, <1>3 DEF StringStep, Innermost

LEMMA ConstantKeeps ==
    ASSUME DumpInv, Dump!ConstantToStr
    PROVE  DumpInv'
<1> DEFINE r == Dump!str_fmt(mem, Dump!Value(TheNode))
<1>1. stage = "expression" /\ calls # <<>>
  BY DEF Dump!ConstantToStr, Dump!Running
<1>2. /\ PrinterTyped /\ InOrder(mem) /\ Dump!Top = Innermost /\ Dump!Node = TheNode
      /\ Innermost.node \in 1..Len(tree) /\ IsTree(tree) /\ TheNode = tree[Innermost.node]
      /\ Innermost.step = 0 => result = Dump!str_empty /\ Innermost.s = Dump!str_empty
  BY <1>1, InHand
<1>3. /\ Innermost.step = 0 /\ Dump!IsConstant(TheNode) /\ Dump!Return(r)
      /\ UNCHANGED <<tree, line, indentStr, stage, dump>>
  BY <1>2 DEF Dump!ConstantToStr, Dump!Running, Dump!restVars
<1>4. /\ Dump!Value(TheNode) \in Chars /\ Dump!Value(TheNode) # <<>>
      /\ SpineOf(tree)[Innermost.node] = Dump!Value(TheNode)
  BY <1>2, <1>3, NodeWords, SpineIs
<1>5. Made(mem, r, {}, Dump!Value(TheNode))
  BY <1>2, <1>4, Acquired DEF Dump!str_fmt
<1> HIDE DEF r
<1>6. Popped(r.str) /\ mem' = r.mem
  BY <1>1, <1>2, <1>3, PopIs
<1>7. {} = OwnPtr(Innermost.s) \cup OwnPtr(result)
  BY <1>2, <1>3, EmptyString
<1>8. /\ StringStep({mem.next}, r.str) /\ {mem.next} \ OwnPtr(r.str) = {}
      /\ r.str.owner /\ r.str.text = Dump!Value(TheNode)
  BY <1>1, <1>2, <1>4, <1>5, <1>6, <1>7, MadeStep
<1> QED BY <1>1, <1>3, <1>4, <1>6, <1>8, PopKeeps

LEMMA UnaryNameKeeps ==
    ASSUME DumpInv, Dump!UnaryName
    PROVE  DumpInv'
<1> DEFINE r == Dump!str_fmt(mem, Dump!Name(TheNode))
<1>1. stage = "expression" /\ calls # <<>>
  BY DEF Dump!UnaryName, Dump!Running
<1>2. /\ PrinterTyped /\ InOrder(mem) /\ Dump!Top = Innermost /\ Dump!Node = TheNode
      /\ Innermost.node \in 1..Len(tree) /\ IsTree(tree) /\ TheNode = tree[Innermost.node]
      /\ Innermost.step = 0 => result = Dump!str_empty /\ Innermost.s = Dump!str_empty
  BY <1>1, InHand
<1>3. /\ Innermost.step = 0 /\ Dump!IsUnary(TheNode) /\ Dump!Call(2, r, TheNode.right)
      /\ UNCHANGED <<tree, line, indentStr, stage, dump>>
  BY <1>2 DEF Dump!UnaryName, Dump!Running, Dump!restVars
<1>4. Dump!Name(TheNode) \in Chars /\ Dump!Name(TheNode) # <<>>
  BY <1>2, NodeWords
<1>5. Made(mem, r, {}, Dump!Name(TheNode))
  BY <1>2, <1>4, Acquired DEF Dump!str_fmt
<1>6. /\ TheNode.right \in Nat /\ TheNode.right < Innermost.node /\ TheNode.right # 0
      /\ TheNode.right \in 1..Len(tree)
      /\ ~Dump!IsBinary(TheNode) /\ ~Dump!IsConstant(TheNode)
  BY <1>2, <1>3, NodeParts DEF Dump!IsUnary, Dump!IsBinary, Dump!IsConstant
<1> HIDE DEF r
<1>7. {} = OwnPtr(Innermost.s) \cup OwnPtr(result)
  BY <1>2, <1>3, EmptyString
<1>8. r.str \in AString
  BY <1>2, <1>4, <1>5, MadeString
<1>9. Pushed(2, r.str, TheNode.right) /\ mem' = r.mem
  BY <1>1, <1>2, <1>3, <1>6, <1>8, PushIs
<1>10. /\ StringStep({mem.next}, r.str) /\ {mem.next} \ OwnPtr(r.str) = {}
       /\ r.str.owner /\ r.str.text = Dump!Name(TheNode)
  BY <1>1, <1>2, <1>4, <1>5, <1>7, <1>9, MadeStep
<1> QED BY <1>1, <1>3, <1>6, <1>9, <1>10, PushKeeps

LEMMA CallLeftKeeps ==
    ASSUME DumpInv, Dump!CallLeft
    PROVE  DumpInv'
<1> DEFINE r == [mem |-> mem, str |-> Dump!str_empty]
<1>1. stage = "expression" /\ calls # <<>>
  BY DEF Dump!CallLeft, Dump!Running
<1>2. /\ PrinterTyped /\ InOrder(mem) /\ Dump!Top = Innermost /\ Dump!Node = TheNode
      /\ Innermost.node \in 1..Len(tree) /\ IsTree(tree) /\ TheNode = tree[Innermost.node]
      /\ Innermost.step = 0 => result = Dump!str_empty /\ Innermost.s = Dump!str_empty
  BY <1>1, InHand
<1>3. /\ Innermost.step = 0 /\ Dump!IsBinary(TheNode) /\ Dump!Call(1, r, TheNode.left)
      /\ UNCHANGED <<tree, line, indentStr, stage, dump>>
  BY <1>2 DEF Dump!CallLeft, Dump!Running, Dump!restVars
<1>4. /\ TheNode.left \in Nat /\ TheNode.left < Innermost.node /\ TheNode.left # 0
      /\ TheNode.left \in 1..Len(tree)
  BY <1>2, <1>3, NodeParts DEF Dump!IsBinary
<1>5. r.str = Dump!str_empty /\ r.mem = mem /\ r.str \in AString
  BY EmptyString
<1> HIDE DEF r
<1>6. Pushed(1, r.str, TheNode.left) /\ mem' = r.mem
  BY <1>1, <1>2, <1>3, <1>4, <1>5, PushIs
<1>7. StringStep({}, Dump!str_empty)
  <2>1. Allocated(mem, Dump!str_empty)
    BY EmptyString DEF Allocated
  <2>2. mem.live = (mem.live \ (OwnPtr(Innermost.s) \cup OwnPtr(result))) \cup {}
    BY <1>2, <1>3, EmptyString
  <2> QED BY <1>2, <1>5, <1>6, <2>1, <2>2, EmptyString DEF StringStep, Innermost
<1>8. {} \ OwnPtr(Dump!str_empty) = {}
  OBVIOUS
<1> QED BY <1>1, <1>3, <1>4, <1>5, <1>6, <1>7, <1>8, PushKeeps

LEMMA UnaryOperandKeeps ==
    ASSUME DumpInv, Dump!UnaryOperand
    PROVE  DumpInv'
<1> DEFINE r == Dump!str_cat(mem, Innermost.s, result)
           text == Innermost.s.text \o result.text
<1>1. stage = "expression" /\ calls # <<>>
  BY DEF Dump!UnaryOperand, Dump!Running
<1>2. /\ PrinterTyped /\ InOrder(mem) /\ result \in AString /\ Innermost.s \in AString
      /\ Dump!Top = Innermost /\ Dump!Node = TheNode
      /\ Innermost.node \in 1..Len(tree) /\ IsTree(tree) /\ TheNode = tree[Innermost.node]
      /\ Innermost.step = 2 =>
             /\ Innermost.s.owner /\ Innermost.s.text = Dump!Name(TheNode)
             /\ result.owner /\ result.text = SpineOf(tree)[TheNode.right]
      /\ Allocated(mem, result) /\ Allocated(mem, Innermost.s) /\ Apart(Innermost.s, result)
  BY <1>1, InHand
<1>3. /\ Innermost.step = 2 /\ Dump!IsUnary(TheNode) /\ Dump!Return(r)
      /\ UNCHANGED <<tree, line, indentStr, stage, dump>>
  BY <1>2 DEF Dump!UnaryOperand, Dump!Running, Dump!restVars
<1>4. text = SpineOf(tree)[Innermost.node]
  <2>1. Dump!IsUnary(tree[Innermost.node])
    BY <1>2, <1>3
  <2> HIDE DEF r
  <2>2. SpineOf(tree)[Innermost.node]
        = Dump!Name(tree[Innermost.node]) \o SpineOf(tree)[tree[Innermost.node].right]
    BY <1>2, <2>1, SpineIs
  <2>3. Innermost.s.text = Dump!Name(TheNode) /\ result.text = SpineOf(tree)[TheNode.right]
    BY <1>2, <1>3
  <2> QED BY <1>2, <2>2, <2>3
<1>5. text \in Chars /\ text # <<>>
  BY <1>2, <1>4, SpineText
<1>6. Dump!Readable(mem, result) /\ Dump!Readable(mem, Innermost.s)
  BY <1>2, AllocatedReadable
<1>7. Made(mem, r, OwnPtr(Innermost.s) \cup OwnPtr(result), text)
  BY <1>2, <1>3, <1>5, <1>6, CatMade DEF Apart
<1> HIDE DEF r, text
<1>8. Popped(r.str) /\ mem' = r.mem
  BY <1>1, <1>2, <1>3, PopIs
<1>9. /\ StringStep({mem.next}, r.str) /\ {mem.next} \ OwnPtr(r.str) = {}
      /\ r.str.owner /\ r.str.text = text
  BY <1>1, <1>2, <1>5, <1>7, <1>8, MadeStep
<1> QED BY <1>1, <1>3, <1>4, <1>8, <1>9, PopKeeps

LEMMA BinaryRightKeeps ==
    ASSUME DumpInv, Dump!BinaryRight
    PROVE  DumpInv'
<1> DEFINE close == Dump!Literal(")")
           r == Dump!str_cat3(mem, Innermost.s, result, close)
           text == (Innermost.s.text \o result.text) \o close.text
<1>1. stage = "expression" /\ calls # <<>>
  BY DEF Dump!BinaryRight, Dump!Running
<1>2. /\ PrinterTyped /\ InOrder(mem) /\ result \in AString /\ Innermost.s \in AString
      /\ Dump!Top = Innermost /\ Dump!Node = TheNode
      /\ Innermost.node \in 1..Len(tree) /\ IsTree(tree) /\ TheNode = tree[Innermost.node]
      /\ Innermost.step = 2 =>
             /\ Innermost.s.owner /\ Innermost.s.text = Dump!Name(TheNode)
             /\ result.owner /\ result.text = SpineOf(tree)[TheNode.right]
      /\ Allocated(mem, result) /\ Allocated(mem, Innermost.s) /\ Apart(Innermost.s, result)
  BY <1>1, InHand
<1>3. /\ Innermost.step = 2 /\ Dump!IsBinary(TheNode) /\ Dump!Return(r)
      /\ UNCHANGED <<tree, line, indentStr, stage, dump>>
  BY <1>2 DEF Dump!BinaryRight, Dump!Running, Dump!restVars
<1>4. /\ close \in AString /\ ~close.owner /\ close.ptr = 0 /\ Dump!Readable(mem, close)
      /\ close.text = Dump!Word(")")
  BY Literals DEF Marks
<1> HIDE DEF close
<1>5. text = SpineOf(tree)[Innermost.node]
  <2>1. Dump!IsBinary(tree[Innermost.node])
    BY <1>2, <1>3
  <2> HIDE DEF r
  <2>2. SpineOf(tree)[Innermost.node]
        = Dump!Name(tree[Innermost.node]) \o SpineOf(tree)[tree[Innermost.node].right]
          \o Dump!Word(")")
    BY <1>2, <2>1, SpineIs
  <2>3. Innermost.s.text = Dump!Name(TheNode) /\ result.text = SpineOf(tree)[TheNode.right]
    BY <1>2, <1>3
  <2> QED BY <1>2, <1>4, <2>2, <2>3
<1>6. text \in Chars /\ text # <<>>
  BY <1>2, <1>5, SpineText
<1>7. /\ Dump!Readable(mem, result) /\ Dump!Readable(mem, Innermost.s)
      /\ Innermost.s.owner /\ Innermost.s.ptr # 0 /\ result.owner /\ result.ptr # 0
      /\ Innermost.s.ptr # result.ptr
  BY <1>2, <1>3, AllocatedReadable DEF Allocated, InOrder, Apart
<1>8. Made(mem, r, OwnPtr(Innermost.s) \cup OwnPtr(result) \cup OwnPtr(close), text)
  BY <1>2, <1>4, <1>6, <1>7, Cat3Made
<1>9. OwnPtr(Innermost.s) \cup OwnPtr(result) \cup OwnPtr(close) = OwnPtr(Innermost.s) \cup OwnPtr(result)
  BY <1>4 DEF OwnPtr
<1> HIDE DEF r, text
<1>10. Popped(r.str) /\ mem' = r.mem
  BY <1>1, <1>2, <1>3, PopIs
<1>11. /\ StringStep({mem.next}, r.str) /\ {mem.next} \ OwnPtr(r.str) = {}
       /\ r.str.owner /\ r.str.text = text
  BY <1>1, <1>2, <1>6, <1>8, <1>9, <1>10, MadeStep
<1> QED BY <1>1, <1>3, <1>5, <1>10, <1>11, PopKeeps

(* Here a string is lost: the one of the left operand.                     *)
LEMMA BinaryNameKeeps ==
    ASSUME DumpInv, Dump!BinaryName
    PROVE  DumpInv'
<1> DEFINE open == Dump!Literal("(")
           left == Dump!str_cat(mem, open, result)
           text == open.text \o result.text
           r == Dump!str_fmt(left.mem, Dump!Name(TheNode))
<1>1. stage = "expression" /\ calls # <<>>
  BY DEF Dump!BinaryName, Dump!Running
<1>2. /\ PrinterTyped /\ InOrder(mem) /\ result \in AString /\ mem.next \in Nat
      /\ Dump!Top = Innermost /\ Dump!Node = TheNode
      /\ Innermost.node \in 1..Len(tree) /\ IsTree(tree) /\ TheNode = tree[Innermost.node]
      /\ Innermost.step = 1 =>
             /\ Dump!IsBinary(TheNode) /\ Innermost.s = Dump!str_empty
             /\ result.owner /\ result.text = SpineOf(tree)[TheNode.left]
      /\ Allocated(mem, result)
  BY <1>1, InHand, InMemory
<1>3. /\ Innermost.step = 1 /\ Dump!Call(2, r, TheNode.right)
      /\ UNCHANGED <<tree, line, indentStr, stage, dump>>
  BY <1>2 DEF Dump!BinaryName, Dump!Running, Dump!restVars
<1>4. /\ open \in AString /\ ~open.owner /\ Dump!Readable(mem, open)
      /\ open.text = Dump!Word("(") /\ Dump!Word("(") \in Chars /\ Dump!Word("(") # <<>>
  BY Literals DEF Marks
<1> HIDE DEF open
<1>5. text \in Chars /\ text # <<>>
  <2>1. result.text \in Chars
    BY <1>2, StringParts
  <2> QED BY <1>4, <2>1, ConcatProperties DEF Chars
<1>6. Dump!Readable(mem, result)
  BY <1>2, AllocatedReadable
<1>7. Made(mem, left, OwnPtr(open) \cup OwnPtr(result), text)
  BY <1>2, <1>4, <1>5, <1>6, CatMade
<1> HIDE DEF left, text
<1>8. InOrder(left.mem) /\ left.mem.next = mem.next + 1
      /\ left.mem.live = (mem.live \ OwnPtr(result)) \cup {mem.next}
  BY <1>4, <1>7 DEF Made, OwnPtr
<1>9. Dump!Name(TheNode) \in Chars /\ Dump!Name(TheNode) # <<>>
  BY <1>2, NodeWords
<1>10. Made(left.mem, r, {}, Dump!Name(TheNode))
  BY <1>8, <1>9, Acquired DEF Dump!str_fmt
<1> HIDE DEF r
<1>11. /\ r.str \in AString /\ r.str.owner /\ r.str.text = Dump!Name(TheNode)
       /\ Allocated(r.mem, r.str) /\ OwnPtr(r.str) = {mem.next + 1}
  <2>1. PICK m : m = left.mem
    OBVIOUS
  <2>2. InOrder(m) /\ Made(m, r, {}, Dump!Name(TheNode)) /\ m.next = mem.next + 1
    BY <1>8, <1>10, <2>1
  <2>3. /\ r.str \in AString /\ r.str.owner /\ r.str.text = Dump!Name(TheNode)
        /\ Allocated(r.mem, r.str) /\ OwnPtr(r.str) = {m.next}
    BY <1>9, <2>2, MadeString
  <2> QED BY <2>2, <2>3
<1>12. /\ InOrder(r.mem)
       /\ r.mem.live = (mem.live \ OwnPtr(result)) \cup {mem.next, mem.next + 1}
  BY <1>8, <1>10 DEF Made
<1>13. /\ TheNode.right \in Nat /\ TheNode.right < Innermost.node /\ TheNode.right # 0
       /\ TheNode.right \in 1..Len(tree) /\ Dump!IsBinary(TheNode)
       /\ ~Dump!IsConstant(TheNode)
  BY <1>2, <1>3, NodeParts DEF Dump!IsBinary, Dump!IsConstant
<1>14. Pushed(2, r.str, TheNode.right) /\ mem' = r.mem
  BY <1>1, <1>2, <1>3, <1>11, <1>13, PushIs
<1>15. StringStep({mem.next, mem.next + 1}, r.str)
  <2>1. OwnPtr(Innermost.s) = {}
    BY <1>2, <1>3, EmptyString
  <2>2. mem'.live = (mem.live \ (OwnPtr(Innermost.s) \cup OwnPtr(result)))
                    \cup {mem.next, mem.next + 1}
    BY <1>12, <1>14, <2>1
  <2> QED BY <1>2, <1>11, <1>12, <1>14, <2>2 DEF StringStep, Innermost
<1>16. {mem.next, mem.next + 1} \ OwnPtr(r.str) = {mem.next}
  BY <1>2, <1>11
<1> QED BY SMTT(30), <1>1, <1>3, <1>11, <1>13, <1>14, <1>15, <1>16, PushKeeps

----------------------------------------------------------------------------
(* The rest of program_to_str runs outside expr_to_str: three strings, and *)
(* no call.                                                                *)
Mine == OwnPtr(result) \cup OwnPtr(line) \cup OwnPtr(indentStr)

LEMMA Joined ==
    ASSUME NEW a \in Chars, NEW b \in Chars, a # <<>> \/ b # <<>>
    PROVE  a \o b \in Chars /\ a \o b # <<>>
BY ConcatProperties DEF Chars

LEMMA EmptyFirst ==
    ASSUME NEW a \in Chars
    PROVE  <<>> \o a = a /\ a \o <<>> = a
BY ConcatEmptySeq DEF Chars

LEMMA LostOutside ==
    ASSUME calls = <<>>
    PROVE  Lost = mem.live \ Mine
<1>1. \A p : Owned(p) <=> p \in Mine
  <2>1. 1..Len(calls) = {}
    BY DEF Mine
  <2> QED BY <2>1 DEF Owned, Mine
<1> QED BY <1>1 DEF Lost

LEMMA ApartOwn ==
    ASSUME NEW s, NEW t
    PROVE  Apart(s, t) <=> OwnPtr(s) \cap OwnPtr(t) = {}
BY DEF Apart, OwnPtr

LEMMA OwnAllocated ==
    ASSUME NEW m, InOrder(m), NEW s, Allocated(m, s)
    PROVE  OwnPtr(s) \subseteq m.live /\ m.next \notin OwnPtr(s) /\ m.next + 1 \notin OwnPtr(s)
<1>1. m.live \subseteq Nat /\ m.next \in Nat
  BY InMemory
<1>2. OwnPtr(s) \subseteq m.live
  BY DEF Allocated, OwnPtr
<1>3. \A p \in m.live : p < m.next
  BY DEF InOrder
<1> QED BY <1>1, <1>2, <1>3

(* An operation leaves the strings alone that it does not free.            *)
LEMMA Kept ==
    ASSUME NEW m, InOrder(m), NEW r, NEW gone, NEW text, Made(m, r, gone, text),
           NEW s, Allocated(m, s), OwnPtr(s) \cap gone = {}
    PROVE  Allocated(r.mem, s)
BY DEF Made, Allocated, OwnPtr

LEMMA OutsideKeeps ==
    ASSUME DumpInv, calls = <<>>, calls' = <<>>, tree' = tree, stage # "start",
           stage' \in Stages, stage' # "start",
           InOrder(mem'), result' \in AString, line' \in AString, indentStr' \in AString,
           Allocated(mem', result'), Allocated(mem', line'), Allocated(mem', indentStr'),
           OwnPtr(result') \cap OwnPtr(line') = {}, OwnPtr(result') \cap OwnPtr(indentStr') = {},
           OwnPtr(line') \cap OwnPtr(indentStr') = {},
           (mem.live \ Mine)' = mem.live \ Mine, Texts'
    PROVE  DumpInv'
<1>1. PrinterTyped /\ StringsHeld /\ CallsNested
  BY DEF DumpInv
<1>2. PICK D \in SUBSET (1..Len(tree)) : Finished(D) /\ Cardinality(Lost) = Cardinality(Passed(D))
  BY DEF DumpInv
<1>3. Len(calls) = 0 /\ Len(calls') = 0
  OBVIOUS
<1>4. 1..Len(calls) = {} /\ 1..Len(calls') = {} /\ 2..Len(calls') = {}
  BY <1>3
<1>5. PrinterTyped'
  <2>1. calls' \in Seq(ToStrCall')
    OBVIOUS
  <2> QED BY <1>1, <2>1 DEF PrinterTyped
<1>6. StringsHeld'
  BY <1>4, ApartOwn DEF StringsHeld
<1>7. CallsNested'
  BY <1>4 DEF CallsNested
<1>8. Finished(D)'
  BY <1>2, <1>4 DEF Finished
<1>9. Passed(D)' = Passed(D)
  BY <1>4 DEF Passed
<1>10. Lost = mem.live \ Mine
  BY LostOutside
<1>11. Lost' = (mem.live \ Mine)'
  <2>1. \A p : Owned(p)' <=> p \in Mine'
    BY <1>4 DEF Owned, Mine
  <2> QED BY <2>1 DEF Lost
<1>12. Cardinality(Lost') = Cardinality(Passed(D)')
  BY <1>2, <1>9, <1>10, <1>11
<1>13. D \in SUBSET (1..Len(tree'))
  OBVIOUS
<1> QED BY <1>5, <1>6, <1>7, <1>8, <1>12, <1>13 DEF DumpInv

(* What the printer has in hand outside expr_to_str.                       *)
LEMMA OutsideHand ==
    ASSUME DumpInv
    PROVE  /\ InOrder(mem) /\ mem.next \in Nat /\ tree \in Dumped
           /\ result \in AString /\ line \in AString /\ indentStr \in AString
           /\ Allocated(mem, result) /\ Allocated(mem, line) /\ Allocated(mem, indentStr)
           /\ OwnPtr(result) \cap OwnPtr(line) = {} /\ OwnPtr(result) \cap OwnPtr(indentStr) = {}
           /\ OwnPtr(line) \cap OwnPtr(indentStr) = {}
           /\ OwnPtr(result) \subseteq mem.live /\ OwnPtr(line) \subseteq mem.live
           /\ OwnPtr(indentStr) \subseteq mem.live
           /\ \A p \in mem.live : p \in Nat /\ p # 0 /\ p < mem.next
           /\ Texts
<1>1. PrinterTyped /\ StringsHeld /\ Texts
  BY DEF DumpInv
<1>2. /\ InOrder(mem) /\ tree \in Dumped
      /\ result \in AString /\ line \in AString /\ indentStr \in AString
  BY <1>1 DEF PrinterTyped
<1>3. mem.next \in Nat /\ \A p \in mem.live : p \in Nat /\ p # 0 /\ p < mem.next
  BY <1>2, InMemory DEF InOrder
<1>4. /\ Allocated(mem, result) /\ Allocated(mem, line) /\ Allocated(mem, indentStr)
      /\ OwnPtr(result) \cap OwnPtr(line) = {} /\ OwnPtr(result) \cap OwnPtr(indentStr) = {}
      /\ OwnPtr(line) \cap OwnPtr(indentStr) = {}
  BY <1>1, ApartOwn DEF StringsHeld
<1> QED BY <1>1, <1>2, <1>3, <1>4, OwnAllocated

LEMMA FixedWords ==
    /\ \A w \in {"FUN INT", "main", "RETURN INT", "\n", "    "} :
           /\ w \in STRING \cup Marks
           /\ Dump!Word(w) \in Chars /\ Dump!Word(w) # <<>>
    /\ FirstLine \in Chars /\ FirstLine # <<>>
<1>1. ASSUME NEW w \in {"FUN INT", "main", "RETURN INT", "\n", "    "}
      PROVE  w \in STRING \cup Marks /\ Dump!Word(w) \in Chars /\ Dump!Word(w) # <<>>
  <2>1. w \in STRING \cup Marks
    BY DEF Marks
  <2> QED BY <2>1, WordText
<1>2. (Dump!Word("FUN INT") \o Dump!Word("main")) \in Chars
  BY <1>1, Joined
<1>3. FirstLine \in Chars /\ FirstLine # <<>>
  BY <1>1, <1>2, Joined DEF FirstLine
<1> QED BY <1>1, <1>3

LEMMA StatementText ==
    ASSUME tree \in Dumped
    PROVE  /\ SpineOf(tree)[Len(tree)] \in Chars /\ SpineOf(tree)[Len(tree)] # <<>>
           /\ Statement \in Chars /\ Statement # <<>> /\ Whole \in Chars /\ Whole # <<>>
<1>1. IsTree(tree) /\ Len(tree) \in 1..Len(tree)
  <2>1. IsTree(tree)
    BY DumpedTree
  <2> QED BY <2>1 DEF IsTree
<1>2. SpineOf(tree)[Len(tree)] \in Chars /\ SpineOf(tree)[Len(tree)] # <<>>
  BY <1>1, SpineText
<1>3. Statement \in Chars /\ Statement # <<>>
  BY <1>2, FixedWords, Joined DEF Statement
<1>4. Dump!Word("    ") \o Statement \in Chars
  BY <1>3, FixedWords, Joined
<1>5. (Dump!Word("    ") \o Statement) \o Dump!Word("\n") \in Chars
  BY <1>4, FixedWords, Joined
<1>6. Whole \in Chars /\ Whole # <<>>
  BY <1>5, FixedWords, Joined DEF Whole
<1> QED BY <1>2, <1>3, <1>6

(* A line of the emitter: its indentation is read, and stays.              *)
LEMMA LineMade ==
    ASSUME NEW m, InOrder(m), indentStr \in AString, Dump!Readable(m, indentStr),
           NEW s \in AString, Allocated(m, s)
    PROVE  Made(m, Dump!emit_line(m, s), OwnPtr(s), (indentStr.text \o s.text) \o Dump!Word("\n"))
<1> DEFINE ref == Dump!str_ref(indentStr)
           end == Dump!Literal("\n")
<1>1. indentStr.ptr \in Nat /\ indentStr.text \in Chars /\ s.text \in Chars
  BY StringParts
<1>2. /\ ref \in AString /\ ref.owner = FALSE /\ ref.ptr = indentStr.ptr
      /\ ref.text = indentStr.text
  BY DEF Dump!str_ref, AString, Dump!Str
<1>3. /\ end \in AString /\ ~end.owner /\ end.ptr = 0 /\ Dump!Readable(m, end)
      /\ end.text = Dump!Word("\n") /\ end.text \in Chars /\ end.text # <<>>
  BY Literals DEF Marks
<1> HIDE DEF ref, end
<1>4. Dump!Readable(m, ref) /\ Dump!Readable(m, s)
  BY <1>2, AllocatedReadable DEF Dump!Readable
<1>5. (ref.text \o s.text) \o end.text # <<>>
  <2>1. ref.text \o s.text \in Chars
    BY <1>1, <1>2, ConcatProperties DEF Chars
  <2> QED BY <1>3, <2>1, Joined
<1>6. s.owner => s.ptr # end.ptr
  BY <1>3 DEF Allocated, InOrder
<1>7. Made(m, Dump!str_cat3(m, ref, s, end), OwnPtr(ref) \cup OwnPtr(s) \cup OwnPtr(end),
           (ref.text \o s.text) \o end.text)
  BY <1>2, <1>3, <1>4, <1>5, <1>6, Cat3Made
<1>8. OwnPtr(ref) \cup OwnPtr(s) \cup OwnPtr(end) = OwnPtr(s)
  BY <1>2, <1>3 DEF OwnPtr
<1>9. Dump!emit_line(m, s) = Dump!str_cat3(m, ref, s, end)
  BY DEF Dump!emit_line, ref, end
<1> QED BY <1>2, <1>3, <1>7, <1>8, <1>9

LEMMA Freed ==
    ASSUME NEW m, InOrder(m), NEW s, Allocated(m, s)
    PROVE  /\ InOrder(Dump!str_free(m, s))
           /\ Dump!str_free(m, s).live = m.live \ OwnPtr(s)
           /\ Dump!str_free(m, s).next = m.next
<1>1. CASE ~s.owner
  BY <1>1 DEF Dump!str_free, OwnPtr
<1>2. CASE s.owner
  <2> DEFINE r == [m EXCEPT !.live = @ \ {s.ptr}, !.misused = FALSE]
  <2>1. m.misused = FALSE /\ s.ptr \in m.live
    BY <1>2, InMemory DEF Allocated
  <2>2. Dump!str_free(m, s) = r
    BY <1>2, <2>1, InMemory DEF Dump!str_free
  <2>3. InOrder(r)
    BY LessAllocated
  <2>4. r.live = m.live \ {s.ptr} /\ r.next = m.next
    BY InMemory
  <2> HIDE DEF r
  <2> QED BY <1>2, <2>2, <2>3, <2>4 DEF OwnPtr
<1> QED BY <1>1, <1>2

LEMMA ReadsNothing ==
    ASSUME NEW m, InOrder(m), NEW s, Dump!Readable(m, s)
    PROVE  Dump!Reads(m, s) = m
<1>1. m.misused = FALSE /\ m = [live |-> m.live, next |-> m.next, misused |-> m.misused]
  BY InMemory
<1>2. Dump!Reads(m, s) = [m EXCEPT !.misused = FALSE]
  BY <1>1 DEF Dump!Reads
<1> QED BY <1>1, <1>2

LEMMA StmtKeeps ==
    ASSUME DumpInv, Dump!StmtToStr
    PROVE  DumpInv'
<1> DEFINE before == Dump!Literal("RETURN INT")
           r == Dump!str_cat3(mem, Dump!str_empty, before, result)
           spine == SpineOf(tree)[Len(tree)]
<1>1. /\ stage = "expression" /\ calls = <<>> /\ calls' = <<>> /\ stage' = "function"
      /\ mem' = r.mem /\ result' = r.str
      /\ tree' = tree /\ line' = line /\ indentStr' = indentStr
  BY DEF Dump!StmtToStr
<1>2. /\ before \in AString /\ ~before.owner /\ before.ptr = 0 /\ Dump!Readable(mem, before)
      /\ before.text = Dump!Word("RETURN INT") /\ before.text \in Chars /\ before.text # <<>>
  BY Literals DEF Marks
<1> HIDE DEF before
<1>3. /\ InOrder(mem) /\ mem.next \in Nat /\ tree \in Dumped
      /\ result \in AString /\ line \in AString /\ indentStr \in AString
      /\ Allocated(mem, result) /\ Allocated(mem, line) /\ Allocated(mem, indentStr)
      /\ OwnPtr(result) \cap OwnPtr(line) = {} /\ OwnPtr(result) \cap OwnPtr(indentStr) = {}
      /\ OwnPtr(line) \cap OwnPtr(indentStr) = {}
      /\ OwnPtr(line) \subseteq mem.live /\ OwnPtr(indentStr) \subseteq mem.live
      /\ mem.next \notin mem.live
      /\ Texts
  BY OutsideHand, InMemory
<1>4. /\ result.owner /\ result.text = spine
      /\ line.owner /\ line.text = FirstLine
      /\ indentStr.owner /\ indentStr.text = Dump!Word("    ")
  BY <1>1, <1>3 DEF Texts
<1>5. spine \in Chars /\ Statement \in Chars /\ Statement # <<>>
  BY <1>3, StatementText
<1> HIDE DEF spine
<1>6. /\ Dump!str_empty \in AString /\ ~Dump!str_empty.owner
      /\ Dump!Readable(mem, Dump!str_empty)
      /\ Dump!str_empty.text = <<>> /\ OwnPtr(Dump!str_empty) = {}
  BY EmptyString
<1>7. (Dump!str_empty.text \o before.text) \o result.text = Statement
  <2>1. <<>> \o before.text = before.text
    BY <1>2, EmptyFirst
  <2> QED BY <1>2, <1>4, <1>6, <2>1 DEF Statement, spine
<1>8. Dump!Readable(mem, result)
  BY <1>3, AllocatedReadable
<1>9. Made(mem, r, OwnPtr(Dump!str_empty) \cup OwnPtr(before) \cup OwnPtr(result), Statement)
  BY <1>2, <1>3, <1>5, <1>6, <1>7, <1>8, Cat3Made
<1>10. OwnPtr(Dump!str_empty) \cup OwnPtr(before) \cup OwnPtr(result) = OwnPtr(result)
  BY <1>2, <1>6 DEF OwnPtr
<1> HIDE DEF r
<1>11. Made(mem, r, OwnPtr(result), Statement)
  BY <1>9, <1>10
<1>12. /\ result' \in AString /\ result'.owner /\ result'.text = Statement
       /\ Allocated(mem', result') /\ OwnPtr(result') = {mem.next}
  BY <1>1, <1>3, <1>5, <1>11, MadeString
<1>13. InOrder(mem') /\ mem'.live = (mem.live \ OwnPtr(result)) \cup {mem.next}
  BY <1>1, <1>11 DEF Made
<1>14. Allocated(mem', line') /\ Allocated(mem', indentStr')
  <2>1. OwnPtr(line) \cap OwnPtr(result) = {} /\ OwnPtr(indentStr) \cap OwnPtr(result) = {}
    BY <1>3
  <2> QED BY <1>1, <1>3, <1>11, <2>1, Kept
<1>15. /\ OwnPtr(result') \cap OwnPtr(line') = {} /\ OwnPtr(result') \cap OwnPtr(indentStr') = {}
       /\ (mem.live \ Mine)' = mem.live \ Mine
  BY <1>1, <1>3, <1>12, <1>13 DEF Mine
<1>16. Texts'
  BY <1>1, <1>4, <1>12 DEF Texts, Statement
<1>17. stage' \in Stages /\ stage' # "start" /\ stage # "start"
  BY <1>1 DEF Stages
<1> QED BY <1>1, <1>3, <1>12, <1>13, <1>14, <1>15, <1>16, <1>17, OutsideKeeps

LEMMA EndFunctionKeeps ==
    ASSUME DumpInv, Dump!EndFunction
    PROVE  DumpInv'
<1> DEFINE second == Dump!emit_line(mem, result)
           s == Dump!str_cat(second.mem, line, second.str)
           indent == Dump!Dedent(s.mem)
           statementLine == (Dump!Word("    ") \o Statement) \o Dump!Word("\n")
<1>1. /\ stage = "function" /\ stage' = "program" /\ calls' = calls
      /\ mem' = indent.mem /\ indentStr' = indent.str /\ result' = s.str
      /\ tree' = tree /\ line' = Dump!str_empty
  BY DEF Dump!EndFunction
<1>2. /\ InOrder(mem) /\ mem.next \in Nat /\ tree \in Dumped
      /\ result \in AString /\ line \in AString /\ indentStr \in AString
      /\ Allocated(mem, result) /\ Allocated(mem, line) /\ Allocated(mem, indentStr)
      /\ OwnPtr(result) \cap OwnPtr(line) = {} /\ OwnPtr(result) \cap OwnPtr(indentStr) = {}
      /\ OwnPtr(line) \cap OwnPtr(indentStr) = {}
      /\ OwnPtr(result) \subseteq mem.live /\ OwnPtr(line) \subseteq mem.live
      /\ OwnPtr(indentStr) \subseteq mem.live
      /\ \A p \in mem.live : p \in Nat /\ p < mem.next
      /\ Texts
  BY OutsideHand
<1>3. /\ calls = <<>>
      /\ result.owner /\ result.text = Statement
      /\ line.owner /\ line.text = FirstLine
      /\ indentStr.owner /\ indentStr.text = Dump!Word("    ")
  BY <1>1, <1>2 DEF Texts
<1>4. /\ Statement \in Chars /\ Statement # <<>> /\ Whole \in Chars /\ Whole # <<>>
      /\ FirstLine \in Chars /\ Dump!Word("    ") \in Chars /\ Dump!Word("\n") \in Chars
  BY <1>2, StatementText, FixedWords
<1>5. statementLine \in Chars /\ statementLine # <<>> /\ Whole = FirstLine \o statementLine
  <2>1. (Dump!Word("    ") \o Statement) \in Chars /\ (Dump!Word("    ") \o Statement) # <<>>
    BY <1>4, Joined
  <2> QED BY <1>4, <2>1, Joined DEF Whole
<1>6. Dump!Readable(mem, indentStr)
  BY <1>2, AllocatedReadable
<1>7. Made(mem, second, OwnPtr(result), statementLine)
  BY <1>2, <1>3, <1>6, LineMade
<1> HIDE DEF second, statementLine
<1>8. /\ second.str \in AString /\ second.str.owner /\ second.str.text = statementLine
      /\ Allocated(second.mem, second.str) /\ OwnPtr(second.str) = {mem.next}
      /\ second.str.ptr = mem.next
  BY <1>2, <1>5, <1>7, MadeString
<1>9. PICK m : m = second.mem
  OBVIOUS
<1>10. /\ InOrder(m) /\ m.live = (mem.live \ OwnPtr(result)) \cup {mem.next}
       /\ m.next = mem.next + 1
  BY <1>7, <1>9 DEF Made
<1>11. Allocated(m, line) /\ Allocated(m, indentStr)
  <2>1. OwnPtr(line) \cap OwnPtr(result) = {} /\ OwnPtr(indentStr) \cap OwnPtr(result) = {}
    BY <1>2
  <2> QED BY <1>2, <1>7, <1>9, <2>1, Kept
<1>12. line.ptr # second.str.ptr
  <2>1. line.ptr \in mem.live
    BY <1>2, <1>3 DEF OwnPtr
  <2>2. line.ptr \in Nat /\ line.ptr < mem.next
    BY <1>2, <2>1
  <2> QED BY <1>2, <1>8, <2>2
<1>13. Dump!Readable(m, line) /\ Dump!Readable(m, second.str)
  BY <1>8, <1>9, <1>11, AllocatedReadable
<1>14. Made(m, s, OwnPtr(line) \cup {mem.next}, Whole)
  <2>1. line.text \o second.str.text = Whole
    BY <1>3, <1>5, <1>8
  <2>2. Made(m, Dump!str_cat(m, line, second.str), OwnPtr(line) \cup OwnPtr(second.str),
             line.text \o second.str.text)
    BY <1>2, <1>4, <1>8, <1>10, <1>12, <1>13, <2>1, CatMade
  <2> QED BY <1>8, <1>9, <2>1, <2>2
<1> HIDE DEF s
<1>15. /\ s.str \in AString /\ s.str.owner /\ s.str.text = Whole
       /\ Allocated(s.mem, s.str) /\ OwnPtr(s.str) = {mem.next + 1}
  BY ZenonT(40), <1>4, <1>10, <1>14, MadeString
<1>16. PICK w : w = s.mem
  OBVIOUS
<1>17. /\ InOrder(w)
       /\ w.live = (m.live \ (OwnPtr(line) \cup {mem.next})) \cup {mem.next + 1}
  BY <1>10, <1>14, <1>16 DEF Made
<1>18. Allocated(w, indentStr)
  <2>1. mem.next \notin OwnPtr(indentStr)
    BY <1>2, OwnAllocated
  <2>2. OwnPtr(indentStr) \cap (OwnPtr(line) \cup {mem.next}) = {}
    BY <1>2, <2>1
  <2> QED BY <1>10, <1>11, <1>14, <1>16, <2>2, Kept
<1>19. indent.str = Dump!str_empty /\ indent.mem = Dump!str_free(w, indentStr)
  <2>1. Dump!Readable(w, Dump!str_empty) /\ Dump!str_empty.text = <<>>
    BY EmptyString
  <2>2. Dump!Reads(w, Dump!str_empty) = w
    BY <1>17, <2>1, ReadsNothing
  <2>3. /\ Dump!str_copy(w, Dump!str_empty).mem = w
        /\ Dump!str_copy(w, Dump!str_empty).str = Dump!str_empty
    BY <2>1, <2>2 DEF Dump!str_copy, Dump!Acquire
  <2> QED BY <1>16, <2>3 DEF Dump!Dedent
<1> HIDE DEF indent
<1>20. InOrder(mem') /\ mem'.live = w.live \ OwnPtr(indentStr)
  BY <1>1, <1>17, <1>18, <1>19, Freed
<1>21. Allocated(mem', result')
  <2>1. mem.next + 1 \notin OwnPtr(indentStr)
    BY <1>2, OwnAllocated
  <2>2. s.str.ptr = mem.next + 1
    BY <1>15 DEF OwnPtr
  <2>3. mem.next + 1 \in mem'.live
    BY <1>17, <1>20, <2>1
  <2> QED BY <1>1, <1>4, <1>15, <2>2, <2>3 DEF Allocated
<1>22. /\ Dump!str_empty \in AString /\ OwnPtr(Dump!str_empty) = {}
       /\ Allocated(mem', Dump!str_empty)
  BY EmptyString DEF Allocated
<1>23. (mem.live \ Mine)' = mem.live \ Mine
  <2>1. Mine' = {mem.next + 1}
    BY <1>1, <1>15, <1>19, <1>22 DEF Mine
  <2>2. mem.next \notin mem.live /\ mem.next + 1 \notin mem.live
    BY <1>2
  <2>3. mem'.live = ((((mem.live \ OwnPtr(result)) \cup {mem.next})
                      \ (OwnPtr(line) \cup {mem.next})) \cup {mem.next + 1}) \ OwnPtr(indentStr)
    BY <1>10, <1>17, <1>20
  <2> QED BY <2>1, <2>2, <2>3 DEF Mine
<1>24. Texts'
  BY <1>1, <1>3, <1>15, <1>19 DEF Texts, Whole, Statement
<1>25. stage' \in Stages /\ stage' # "start" /\ stage # "start"
  BY <1>1 DEF Stages
<1> QED BY <1>1, <1>3, <1>15, <1>19, <1>20, <1>21, <1>22, <1>23, <1>24, <1>25, OutsideKeeps

LEMMA EndProgramKeeps ==
    ASSUME DumpInv, Dump!EndProgram
    PROVE  DumpInv'
<1> DEFINE s == Dump!str_cat(mem, Dump!str_empty, result)
<1>1. /\ stage = "program" /\ stage' = "print" /\ calls' = calls
      /\ mem' = Dump!str_free(s.mem, indentStr) /\ indentStr' = Dump!str_empty
      /\ result' = s.str /\ tree' = tree /\ line' = line
  BY DEF Dump!EndProgram
<1>2. /\ InOrder(mem) /\ mem.next \in Nat /\ tree \in Dumped
      /\ result \in AString /\ Allocated(mem, result) /\ OwnPtr(result) \subseteq mem.live
      /\ mem.next \notin mem.live /\ Texts
  BY OutsideHand, InMemory
<1>3. /\ calls = <<>> /\ line = Dump!str_empty /\ indentStr = Dump!str_empty
      /\ result.owner /\ result.text = Whole
  BY <1>1, <1>2 DEF Texts
<1>4. Whole \in Chars /\ Whole # <<>>
  BY <1>2, StatementText
<1>5. /\ Dump!str_empty \in AString /\ ~Dump!str_empty.owner
      /\ \A m : Dump!Readable(m, Dump!str_empty) /\ Allocated(m, Dump!str_empty)
      /\ Dump!str_empty.text = <<>> /\ OwnPtr(Dump!str_empty) = {}
  BY EmptyString DEF Allocated
<1>6. Dump!str_empty.text \o result.text = Whole
  BY <1>3, <1>4, <1>5, EmptyFirst
<1>7. Dump!Readable(mem, result)
  BY <1>2, AllocatedReadable
<1>8. Made(mem, s, OwnPtr(Dump!str_empty) \cup OwnPtr(result), Whole)
  BY <1>2, <1>4, <1>5, <1>6, <1>7, CatMade
<1>9. OwnPtr(Dump!str_empty) \cup OwnPtr(result) = OwnPtr(result)
  BY <1>5
<1>10. Made(mem, s, OwnPtr(result), Whole)
  BY <1>8, <1>9
<1> HIDE DEF s
<1>11. mem' = s.mem
  BY <1>1, <1>3, <1>5 DEF Dump!str_free
<1>12. /\ result' \in AString /\ result'.owner /\ result'.text = Whole
       /\ Allocated(mem', result') /\ OwnPtr(result') = {mem.next}
  BY <1>1, <1>2, <1>4, <1>10, <1>11, MadeString
<1>13. InOrder(mem') /\ mem'.live = (mem.live \ OwnPtr(result)) \cup {mem.next}
  BY <1>10, <1>11 DEF Made
<1>14. (mem.live \ Mine)' = mem.live \ Mine
  BY <1>1, <1>2, <1>3, <1>5, <1>12, <1>13 DEF Mine
<1>15. Texts'
  BY <1>1, <1>3, <1>12 DEF Texts, Whole, Statement
<1>16. stage' \in Stages /\ stage' # "start" /\ stage # "start"
  BY <1>1 DEF Stages
<1> QED BY <1>1, <1>3, <1>5, <1>12, <1>13, <1>14, <1>15, <1>16, OutsideKeeps

LEMMA PrintKeeps ==
    ASSUME DumpInv, Dump!PrintDump
    PROVE  DumpInv'
<1>1. /\ stage = "print" /\ stage' = "done" /\ calls' = calls /\ dump' = result.text
      /\ mem' = Dump!str_free(Dump!Reads(mem, result), result)
      /\ result' = Dump!str_empty /\ indentStr' = indentStr /\ tree' = tree /\ line' = line
  BY DEF Dump!PrintDump
<1>2. /\ InOrder(mem) /\ tree \in Dumped /\ Allocated(mem, result) /\ Texts
  BY OutsideHand
<1>3. /\ calls = <<>> /\ line = Dump!str_empty /\ indentStr = Dump!str_empty
      /\ result.text = Whole
  BY <1>1, <1>2 DEF Texts
<1>4. mem' = Dump!str_free(mem, result)
  BY <1>1, <1>2, AllocatedReadable, ReadsNothing
<1>5. InOrder(mem') /\ mem'.live = mem.live \ OwnPtr(result)
  BY <1>2, <1>4, Freed
<1>6. /\ Dump!str_empty \in AString /\ OwnPtr(Dump!str_empty) = {}
      /\ Allocated(mem', Dump!str_empty)
  BY EmptyString DEF Allocated
<1>7. (mem.live \ Mine)' = mem.live \ Mine
  BY <1>1, <1>3, <1>5, <1>6 DEF Mine
<1>8. Texts'
  BY <1>1, <1>3 DEF Texts, Whole, Statement
<1>9. stage' \in Stages /\ stage' # "start" /\ stage # "start"
  BY <1>1 DEF Stages
<1> QED BY <1>1, <1>3, <1>5, <1>6, <1>7, <1>8, <1>9, OutsideKeeps

LEMMA StartKeeps ==
    ASSUME DumpInv, Dump!StartFunction
    PROVE  DumpInv'
<1> DEFINE signature == Dump!Word("FUN INT") \o Dump!Word("main")
           name   == Dump!str_fmt(mem, signature)
           first  == Dump!emit_line(name.mem, name.str)
           s      == Dump!str_cat(first.mem, Dump!str_empty, first.str)
           spaces == Dump!Literal("    ")
           indent == Dump!str_cat(s.mem, indentStr, spaces)
           frame  == Dump!Frame(Len(tree))
<1>1. /\ stage = "start" /\ stage' = "expression" /\ calls' = <<frame>>
      /\ mem' = indent.mem /\ line' = s.str /\ indentStr' = indent.str
      /\ tree' = tree /\ result' = result
  BY DEF Dump!StartFunction
<1>2. /\ InOrder(mem) /\ mem.next \in Nat /\ tree \in Dumped
      /\ indentStr \in AString
      /\ \A p \in mem.live : p \in Nat /\ p < mem.next
      /\ Texts
  BY OutsideHand
<1>3. /\ calls = <<>> /\ result = Dump!str_empty /\ line = Dump!str_empty
      /\ indentStr = Dump!str_empty
  BY <1>1, <1>2 DEF Texts
<1>4. /\ Dump!str_empty \in AString /\ ~Dump!str_empty.owner
      /\ \A m : Dump!Readable(m, Dump!str_empty) /\ Allocated(m, Dump!str_empty)
      /\ Dump!str_empty.text = <<>> /\ OwnPtr(Dump!str_empty) = {}
  BY EmptyString DEF Allocated
<1>5. /\ signature \in Chars /\ signature # <<>> /\ FirstLine \in Chars /\ FirstLine # <<>>
      /\ FirstLine = signature \o Dump!Word("\n")
      /\ Dump!Word("    ") \in Chars /\ Dump!Word("    ") # <<>>
  <2>1. /\ Dump!Word("FUN INT") \in Chars /\ Dump!Word("FUN INT") # <<>>
        /\ Dump!Word("main") \in Chars
    BY FixedWords
  <2> QED BY <2>1, FixedWords, Joined DEF FirstLine
<1>6. Made(mem, name, {}, signature)
  BY <1>2, <1>5, Acquired DEF Dump!str_fmt
<1> HIDE DEF signature, name
<1>7. /\ name.str \in AString /\ name.str.text = signature
      /\ Allocated(name.mem, name.str) /\ OwnPtr(name.str) = {mem.next}
  BY <1>2, <1>5, <1>6, MadeString
<1>8. PICK m : m = name.mem
  OBVIOUS
<1>9. InOrder(m) /\ m.live = mem.live \cup {mem.next} /\ m.next = mem.next + 1
  BY <1>6, <1>8 DEF Made
<1>10. Made(m, first, {mem.next}, FirstLine)
  <2>1. indentStr.text \o name.str.text = signature
    BY <1>3, <1>4, <1>5, <1>7, EmptyFirst
  <2>2. Dump!Readable(m, indentStr) /\ Allocated(m, name.str)
    BY <1>3, <1>4, <1>7, <1>8
  <2>3. Made(m, Dump!emit_line(m, name.str), OwnPtr(name.str),
             (indentStr.text \o name.str.text) \o Dump!Word("\n"))
    BY <1>2, <1>7, <1>9, <2>2, LineMade
  <2> QED BY <1>5, <1>7, <1>8, <2>1, <2>3
<1> HIDE DEF first
<1>11. /\ first.str \in AString /\ first.str.text = FirstLine
       /\ Allocated(first.mem, first.str) /\ OwnPtr(first.str) = {mem.next + 1}
  BY ZenonT(40), <1>5, <1>9, <1>10, MadeString
<1>12. PICK w : w = first.mem
  OBVIOUS
<1>13. /\ InOrder(w) /\ w.live = (m.live \ {mem.next}) \cup {mem.next + 1}
       /\ w.next = mem.next + 2
  BY <1>2, <1>9, <1>10, <1>12 DEF Made
<1>14. Made(w, s, {mem.next + 1}, FirstLine)
  <2>1. Dump!str_empty.text \o first.str.text = FirstLine
    BY <1>4, <1>5, <1>11, EmptyFirst
  <2>2. Dump!Readable(w, Dump!str_empty) /\ Dump!Readable(w, first.str)
    BY <1>4, <1>11, <1>12, AllocatedReadable
  <2>3. Made(w, Dump!str_cat(w, Dump!str_empty, first.str),
             OwnPtr(Dump!str_empty) \cup OwnPtr(first.str),
             Dump!str_empty.text \o first.str.text)
    BY <1>4, <1>5, <1>11, <1>13, <2>1, <2>2, CatMade
  <2>4. OwnPtr(Dump!str_empty) \cup OwnPtr(first.str) = {mem.next + 1}
    BY <1>4, <1>11
  <2> QED BY <1>12, <2>1, <2>3, <2>4
<1> HIDE DEF s
<1>15. /\ s.str \in AString /\ s.str.owner /\ s.str.text = FirstLine
       /\ Allocated(s.mem, s.str) /\ OwnPtr(s.str) = {mem.next + 2}
  BY <1>5, <1>13, <1>14, MadeString
<1>16. PICK v : v = s.mem
  OBVIOUS
<1>17. /\ InOrder(v) /\ v.live = (w.live \ {mem.next + 1}) \cup {mem.next + 2}
       /\ v.next = mem.next + 3
  BY <1>2, <1>13, <1>14, <1>16 DEF Made
<1>18. /\ spaces \in AString /\ ~spaces.owner /\ Dump!Readable(v, spaces)
       /\ spaces.text = Dump!Word("    ")
  BY Literals DEF Marks
<1> HIDE DEF spaces
<1>19. Made(v, indent, {}, Dump!Word("    "))
  <2>1. indentStr.text \o spaces.text = Dump!Word("    ")
    BY <1>3, <1>4, <1>5, <1>18, EmptyFirst
  <2>2. Dump!Readable(v, indentStr) /\ ~indentStr.owner
    BY <1>3, <1>4
  <2>3. Made(v, Dump!str_cat(v, indentStr, spaces), OwnPtr(indentStr) \cup OwnPtr(spaces),
             indentStr.text \o spaces.text)
    BY <1>2, <1>5, <1>17, <1>18, <2>1, <2>2, CatMade
  <2>4. OwnPtr(indentStr) \cup OwnPtr(spaces) = {}
    BY <1>18, <2>2 DEF OwnPtr
  <2> QED BY <1>16, <2>1, <2>3, <2>4
<1> HIDE DEF indent
<1>20. /\ indentStr' \in AString /\ indentStr'.owner /\ indentStr'.text = Dump!Word("    ")
       /\ Allocated(mem', indentStr') /\ OwnPtr(indentStr') = {mem.next + 3}
  BY ZenonT(40), <1>1, <1>5, <1>17, <1>19, MadeString
<1>21. InOrder(mem') /\ mem'.live = v.live \cup {mem.next + 3}
  BY <1>1, <1>17, <1>19 DEF Made
<1>22. Allocated(mem', line')
  <2>1. OwnPtr(s.str) \cap {} = {}
    OBVIOUS
  <2>2. Allocated(v, s.str)
    BY <1>15, <1>16
  <2>3. Allocated(indent.mem, s.str)
    BY <1>17, <1>19, <2>1, <2>2, Kept
  <2> QED BY <1>1, <2>3
<1>23. /\ line' \in AString /\ line'.owner /\ line'.text = FirstLine
       /\ OwnPtr(line') = {mem.next + 2}
  BY <1>1, <1>15
<1>24. /\ IsTree(tree) /\ Len(tree) \in 1..Len(tree)
  <2>1. IsTree(tree)
    BY <1>2, DumpedTree
  <2> QED BY <2>1 DEF IsTree
<1>25. /\ frame \in ToStrCall /\ frame.node = Len(tree) /\ frame.step = 0
       /\ frame.s = Dump!str_empty
  BY <1>4, <1>24 DEF Dump!Frame, ToStrCall
<1> HIDE DEF frame
<1>26. /\ calls' \in Seq(ToStrCall) /\ Len(calls') = 1 /\ calls'[1] = frame /\ calls' # <<>>
       /\ 1..Len(calls') = {1} /\ 2..Len(calls') = {}
  BY <1>1, <1>25
<1>27. PrinterTyped'
  <2>1. ToStrCall' = ToStrCall
    BY <1>1 DEF ToStrCall
  <2>2. stage' \in Stages
    BY <1>1 DEF Stages
  <2> QED BY <1>1, <1>2, <1>3, <1>4, <1>20, <1>21, <1>23, <1>26, <2>1, <2>2 DEF PrinterTyped
<1>28. StringsHeld'
  <2>1. Apart(line', indentStr')
    <3>1. OwnPtr(line') \cap OwnPtr(indentStr') = {}
      <4>1. mem.next + 2 # mem.next + 3
        BY <1>2
      <4> QED BY <1>20, <1>23, <4>1
    <3> QED BY <3>1, ApartOwn
  <2>2. \A t : Apart(Dump!str_empty, t)
    BY <1>4 DEF Apart
  <2>3. calls'[1].s = Dump!str_empty /\ result' = Dump!str_empty
    BY <1>1, <1>3, <1>25, <1>26
  <2>4. \A k \in 1..Len(calls') : k = 1
    BY <1>26
  <2> QED BY <1>4, <1>20, <1>22, <2>1, <2>2, <2>3, <2>4 DEF StringsHeld
<1>29. CallsNested'
  <2>1. \A k \in 1..Len(calls') : k = 1 /\ calls'[k] = frame
    BY <1>26
  <2> QED BY <1>1, <1>25, <1>26, <2>1 DEF CallsNested
<1>30. Texts'
  BY <1>1, <1>3, <1>20, <1>23, <1>25, <1>26 DEF Texts, FirstLine
<1>31. PICK D \in SUBSET (1..Len(tree)) : Finished(D) /\ Cardinality(Lost) = Cardinality(Passed(D))
  BY DEF DumpInv
<1>32. D = {}
  BY <1>1, <1>31 DEF Finished
<1>33. Finished(D)'
  <2>1. \A k \in 1..Len(calls') : k = 1 /\ calls'[k] = frame
    BY <1>26
  <2>2. \A k \in 1..Len(calls') : Returned(k)' = {}
    BY <1>25, <2>1 DEF Returned
  <2> QED BY <1>1, <1>26, <1>32, <2>2 DEF Finished
<1>34. Passed(D)' = Passed(D)
  <2>1. \A k \in 1..Len(calls') : calls'[k].step # 2
    BY <1>25, <1>26
  <2>2. 1..Len(calls) = {}
    BY <1>3
  <2> QED BY <1>1, <2>1, <2>2 DEF Passed
<1>35. Lost' = Lost
  <2>1. \A p : Owned(p)' <=> p \in {mem.next + 2, mem.next + 3}
    <3>1. calls'[1].s = Dump!str_empty
      BY <1>25, <1>26
    <3>2. OwnPtr(result') = {}
      BY <1>1, <1>3, <1>4
    <3>3. \A k \in 1..Len(calls') : OwnPtr(calls'[k].s) = {}
      BY <1>4, <1>26, <3>1
    <3> QED BY <1>20, <1>23, <3>2, <3>3 DEF Owned
  <2>2. Lost = mem.live
    <3>1. Mine = {}
      BY <1>3, <1>4 DEF Mine
    <3> QED BY <1>3, <3>1, LostOutside
  <2>3. /\ mem.next \notin mem.live /\ mem.next + 1 \notin mem.live
        /\ mem.next + 2 \notin mem.live /\ mem.next + 3 \notin mem.live
    BY <1>2
  <2>4. mem'.live = mem.live \cup {mem.next + 2, mem.next + 3}
    BY <1>2, <1>9, <1>13, <1>17, <1>21, <2>3
  <2>5. Lost' = mem'.live \ {mem.next + 2, mem.next + 3}
    BY <2>1 DEF Lost
  <2> QED BY <2>2, <2>3, <2>4, <2>5
<1>36. Cardinality(Lost') = Cardinality(Passed(D)')
  BY <1>31, <1>34, <1>35
<1>37. D \in SUBSET (1..Len(tree'))
  BY <1>1
<1> QED BY <1>27, <1>28, <1>29, <1>30, <1>33, <1>36, <1>37 DEF DumpInv

LEMMA PrinterStays ==
    ASSUME DumpInv, UNCHANGED dumpVars
    PROVE  DumpInv'
<1>1. /\ tree' = tree /\ mem' = mem /\ calls' = calls /\ result' = result /\ line' = line
      /\ indentStr' = indentStr /\ stage' = stage /\ dump' = dump
  BY SMTT(30) DEF dumpVars
<1>2. PrinterTyped' /\ StringsHeld' /\ CallsNested' /\ Texts'
  BY <1>1 DEF DumpInv, PrinterTyped, ToStrCall, StringsHeld, CallsNested, Asked, Texts, Statement,
              Whole
<1>3. PICK D \in SUBSET (1..Len(tree)) : Finished(D) /\ Cardinality(Lost) = Cardinality(Passed(D))
  BY DEF DumpInv
<1>4. Finished(D)'
  BY <1>1, <1>3 DEF Finished, Returned, Asked
<1>5. Lost' = Lost /\ Passed(D)' = Passed(D)
  BY <1>1 DEF Lost, Owned, Passed
<1>6. Cardinality(Lost') = Cardinality(Passed(D)') /\ D \in SUBSET (1..Len(tree'))
  BY <1>1, <1>3, <1>5
<1> QED BY SMTT(30), <1>2, <1>4, <1>6 DEF DumpInv

LEMMA PrinterStarts ==
    ASSUME Dump!Init
    PROVE  DumpInv
<1>1. /\ tree \in Dumped /\ mem = Dump!NewMemory /\ calls = <<>> /\ stage = "start"
      /\ result = Dump!str_empty /\ line = Dump!str_empty /\ indentStr = Dump!str_empty
  BY DEF Dump!Init
<1>2. /\ Dump!str_empty \in AString /\ ~Dump!str_empty.owner
      /\ \A m : Allocated(m, Dump!str_empty)
      /\ OwnPtr(Dump!str_empty) = {}
  BY EmptyString DEF Allocated
<1>3. InOrder(mem) /\ mem.live = {}
  BY <1>1, FS_EmptySet DEF Dump!NewMemory, InOrder, Dump!Memory, Dump!NULL
<1>4. 1..Len(calls) = {} /\ 2..Len(calls) = {} /\ calls \in Seq(ToStrCall)
  BY <1>1
<1>5. PrinterTyped
  BY <1>1, <1>2, <1>3, <1>4 DEF PrinterTyped, Stages
<1>6. StringsHeld
  BY <1>1, <1>2, <1>4 DEF StringsHeld, Apart
<1>7. CallsNested
  BY <1>1, <1>4 DEF CallsNested
<1>8. Texts
  BY <1>1 DEF Texts
<1>9. Finished({})
  BY <1>1, <1>4 DEF Finished
<1>10. Lost = {} /\ Passed({}) = {}
  BY <1>3, <1>4 DEF Lost, Passed
<1> QED BY <1>5, <1>6, <1>7, <1>8, <1>9, <1>10 DEF DumpInv

LEMMA PrinterKeeps ==
    ASSUME DumpInv, Dump!Next
    PROVE  DumpInv'
<1>1. CASE Dump!StartFunction
  BY <1>1, StartKeeps
<1>2. CASE Dump!ToStr
  BY <1>2, ConstantKeeps, UnaryNameKeeps, UnaryOperandKeeps, CallLeftKeeps, BinaryNameKeeps,
     BinaryRightKeeps
  DEF Dump!ToStr
<1>3. CASE Dump!StmtToStr
  BY <1>3, StmtKeeps
<1>4. CASE Dump!EndFunction
  BY <1>4, EndFunctionKeeps
<1>5. CASE Dump!EndProgram
  BY <1>5, EndProgramKeeps
<1>6. CASE Dump!PrintDump
  BY <1>6, PrintKeeps
<1>7. CASE Dump!Done /\ UNCHANGED Dump!vars
  <2>1. UNCHANGED dumpVars
    BY <1>7 DEF Dump!vars, Dump!exprVars, Dump!restVars, dumpVars
  <2> QED BY <2>1, PrinterStays
<1> QED BY <1>1, <1>2, <1>3, <1>4, <1>5, <1>6, <1>7 DEF Dump!Next

----------------------------------------------------------------------------
(* What DumpSound says follows.                                            *)
LEMMA PrinterTypes ==
    ASSUME DumpInv
    PROVE  Dump!TypeOK /\ Dump!StringsSafe
<1>1. PrinterTyped /\ StringsHeld
  BY DEF DumpInv
<1>2. InOrder(mem) /\ calls \in Seq(ToStrCall) /\ stage \in Stages
  BY <1>1 DEF PrinterTyped
<1>3. /\ mem \in Dump!Memory /\ mem.misused = FALSE /\ mem.next \in Nat /\ mem.next > 0
      /\ \A p \in mem.live : p \in Nat /\ p # 0 /\ p < mem.next
  BY <1>2, InMemory DEF InOrder
<1>4. \A k \in 1..Len(calls) : calls[k] \in ToStrCall
  BY <1>2
<1>5. ASSUME NEW s \in Dump!Held PROVE s \in AString /\ Allocated(mem, s)
  <2>1. CASE s \in {result, line, indentStr}
    BY <1>1, <2>1 DEF PrinterTyped, StringsHeld
  <2>2. CASE \E k \in 1..Len(calls) : s = calls[k].s
    <3>1. PICK k \in 1..Len(calls) : s = calls[k].s
      BY <2>2
    <3> QED BY <1>1, <1>4, <3>1 DEF StringsHeld, ToStrCall
  <2> QED BY <2>1, <2>2 DEF Dump!Held
<1>6. ASSUME NEW s \in Dump!Held
      PROVE  /\ s.ptr \in 0..(mem.next - 1) /\ s.owner \in BOOLEAN
             /\ s.owner => s.ptr # Dump!NULL /\ s.text # <<>> /\ s.ptr \in mem.live
  <2>1. s \in AString /\ Allocated(mem, s)
    BY <1>5
  <2>2. CASE s.owner
    <3>1. s.ptr \in mem.live /\ s.text # <<>>
      BY <2>1, <2>2 DEF Allocated
    <3>2. s.ptr \in Nat /\ s.ptr # 0 /\ s.ptr < mem.next
      BY <1>3, <3>1
    <3>3. s.ptr \in 0..(mem.next - 1)
      BY <1>3, <3>2
    <3> QED BY <2>1, <3>1, <3>2, <3>3, StringParts DEF Dump!NULL
  <2>3. CASE ~s.owner
    <3>1. s.ptr = 0
      BY <2>1, <2>3, EmptyString DEF Allocated
    <3> QED BY <1>3, <2>1, <2>3, <3>1, StringParts
  <2> QED BY <2>2, <2>3
<1>7. \A k \in 1..Len(calls) : calls[k].node \in 1..Len(tree) /\ calls[k].step \in 0..2
  BY <1>4 DEF ToStrCall
<1>8. Dump!TypeOK
  BY <1>2, <1>3, <1>6, <1>7 DEF Dump!TypeOK, Stages
<1>9. Dump!StringsSafe
  BY <1>3, <1>6 DEF Dump!StringsSafe, Dump!Owners
<1> QED BY <1>8, <1>9

(* At the end every node's call has returned: the calls of a node's        *)
(* operands with its own, and every node is below the last.                *)
LEMMA AllFinished ==
    ASSUME tree \in Dumped, NEW D, Finished(D), calls = <<>>, stage # "start"
    PROVE  D = 1..Len(tree)
<1> DEFINE n == Len(tree)
           T == {h \in Nat : n - h \in (1..n) \ D}
<1>1. n \in Nat /\ n # 0 /\ IsTree(tree)
  <2>1. IsTree(tree)
    BY DumpedTree
  <2> QED BY <2>1 DEF IsTree
<1>2. D \subseteq 1..n /\ n \in D /\ \A d \in D : Dump!Operands(tree[d]) \subseteq D
  BY DEF Finished
<1>3. T = {}
  <2> SUFFICES ASSUME T # {} PROVE FALSE
    OBVIOUS
  <2>1. PICK h \in T : \A g \in T : h <= g
    BY LeastNumber
  <2>2. PICK i : i = n - h
    OBVIOUS
  <2>3. h \in Nat /\ i \in 1..n /\ i \notin D
    BY <2>2
  <2> HIDE DEF n
  <2>4. i \in 1..(n - 1)
    BY <1>1, <1>2, <2>3
  <2>5. PICK j \in 1..n : i \in Dump!Operands(tree[j])
    BY <2>4, Parent DEF n
  <2>6. tree[j].left \in Nat /\ tree[j].right \in Nat /\ tree[j].left < j /\ tree[j].right < j
    BY <1>1, <2>5, NodeParts DEF n
  <2>7. i < j
    BY <2>5, <2>6 DEF Dump!Operands
  <2>8. j \notin D
    BY <1>2, <2>3, <2>5
  <2>9. PICK g : g = n - j
    OBVIOUS
  <2>10. g \in Nat /\ n - g = j /\ g < h
    BY <1>1, <2>2, <2>3, <2>5, <2>7, <2>9
  <2>11. g \in T
    BY <2>5, <2>8, <2>10
  <2> QED BY <2>1, <2>10, <2>11
<1>4. ASSUME NEW i \in 1..n PROVE i \in D
  <2>1. PICK h : h = n - i
    OBVIOUS
  <2> HIDE DEF n
  <2>2. h \in Nat /\ n - h = i
    BY <1>1, <1>4, <2>1
  <2> QED BY <1>3, <1>4, <2>2
<1> QED BY <1>2, <1>4

LEMMA SameCardinality ==
    ASSUME NEW S
    PROVE  Dump!Cardinality(S) = Cardinality(S)
BY DEF Cardinality, Dump!Cardinality

LEMMA PrinterLoses ==
    ASSUME DumpInv
    PROVE  Dump!OneLostPerOperator
<1> SUFFICES ASSUME stage \in {"print", "done"}
             PROVE  Cardinality(mem.live \ {s.ptr : s \in Dump!Owners}) = Cardinality(Dump!Binary)
  BY SameCardinality DEF Dump!OneLostPerOperator
<1>1. PrinterTyped /\ Texts
  BY DEF DumpInv
<1>2. calls = <<>> /\ stage # "start" /\ tree \in Dumped
  BY <1>1 DEF Texts, PrinterTyped
<1>3. PICK D \in SUBSET (1..Len(tree)) : Finished(D) /\ Cardinality(Lost) = Cardinality(Passed(D))
  BY DEF DumpInv
<1>4. D = 1..Len(tree)
  BY <1>2, <1>3, AllFinished
<1>5. 1..Len(calls) = {}
  BY <1>2
<1>6. Passed(D) = Dump!Binary
  BY <1>4 DEF Passed, Dump!Binary
<1>7. \A p : p \in {s.ptr : s \in Dump!Owners} <=> p \in Mine
  BY <1>5 DEF Dump!Owners, Dump!Held, Mine, OwnPtr
<1>8. {s.ptr : s \in Dump!Owners} = Mine
  BY <1>7
<1>9. Lost = mem.live \ {s.ptr : s \in Dump!Owners}
  BY <1>2, <1>8, LostOutside
<1> QED BY <1>3, <1>6, <1>9

(* The same words, joined from the left.                                   *)
LEMMA FromTheLeft ==
    ASSUME NEW a \in Chars, NEW b \in Chars, NEW c \in Chars
    PROVE  a \o (b \o c) = (a \o b) \o c
BY SMTT(30), ConcatAssociative DEF Chars

LEMMA PrinterPrints ==
    ASSUME DumpInv
    PROVE  Dump!DumpIsRightSpine
<1> DEFINE spine == SpineOf(tree)[Len(tree)]
<1>1. PrinterTyped /\ Texts
  BY DEF DumpInv
<1>2. tree \in Dumped
  BY <1>1 DEF PrinterTyped
<1>3. stage = "done" => dump = Whole
  BY <1>1 DEF Texts
<1>4. spine \in Chars
  BY <1>2, StatementText
<1> DEFINE fun == Dump!Word("FUN INT")
           main == Dump!Word("main")
           end == Dump!Word("\n")
           tab == Dump!Word("    ")
           ret == Dump!Word("RETURN INT")
<1>5. fun \in Chars /\ main \in Chars /\ end \in Chars /\ tab \in Chars /\ ret \in Chars
  BY FixedWords
<1>6. Whole = ((fun \o main) \o end) \o ((tab \o (ret \o spine)) \o end)
  BY DEF Whole, FirstLine, Statement
<1> HIDE DEF fun, main, end, tab, ret, spine
<1>7. \A a, b \in Chars : a \o b \in Chars
  BY ConcatProperties DEF Chars
<1>8. PICK head \in Chars : head = (fun \o main) \o end
  BY <1>5, <1>7
<1>9. PICK before \in Chars : before = tab \o ret
  BY <1>5, <1>7
<1>10. PICK middle \in Chars : middle = before \o spine
  BY <1>4, <1>7, <1>9
<1>11. tab \o (ret \o spine) = middle
  <2>1. tab \in Chars /\ ret \in Chars /\ spine \in Chars
    BY <1>4, <1>5
  <2>2. tab \o (ret \o spine) = (tab \o ret) \o spine
    BY SMTT(30), <2>1, FromTheLeft
  <2> QED BY <1>9, <1>10, <2>2
<1>12. head \o (middle \o end) = (head \o middle) \o end
  <2>1. head \in Chars /\ middle \in Chars /\ end \in Chars
    BY <1>5, <1>8, <1>10
  <2> QED BY <2>1, FromTheLeft
<1>13. head \o (before \o spine) = (head \o before) \o spine
  <2>1. head \in Chars /\ before \in Chars /\ spine \in Chars
    BY <1>4, <1>8, <1>9
  <2> QED BY <2>1, FromTheLeft
<1>14. head \o (tab \o ret) = (head \o tab) \o ret
  <2>1. head \in Chars /\ tab \in Chars /\ ret \in Chars
    BY <1>5, <1>8
  <2> QED BY SMTT(30), <2>1, FromTheLeft
<1>15. Whole = ((((((fun \o main) \o end) \o tab) \o ret) \o spine) \o end)
  BY <1>6, <1>8, <1>9, <1>10, <1>11, <1>12, <1>13, <1>14
<1>16. stage = "done" =>
           dump = ((((((Dump!Word("FUN INT") \o Dump!Word("main")) \o Dump!Word("\n"))
                      \o Dump!Word("    ")) \o Dump!Word("RETURN INT"))
                    \o SpineOf(tree)[Len(tree)]) \o Dump!Word("\n"))
  BY <1>3, <1>15 DEF fun, main, end, tab, ret, spine
<1>17. Dump!RightSpine = SpineOf(tree)
  BY DEF Dump!RightSpine, SpineOf, IsSpine
<1> QED BY <1>16, <1>17 DEF Dump!DumpIsRightSpine, Dump!Done

(* What the dump loses it loses in one place, for every tree: the          *)
(* strings of ast.c's expr_to_str and program_to_str are used and freed in *)
(* order but for one in each binary operator, and the text is the way down *)
(* the right operands.                                                     *)
THEOREM PrinterSound == OutputSpec => []DumpSound
<1>1. OutputInit => DumpInv
  BY PrinterStarts DEF OutputInit
<1>2. DumpInv /\ [OutputNext]_outputVars => DumpInv'
  <2> SUFFICES ASSUME DumpInv, [OutputNext]_outputVars PROVE DumpInv'
    OBVIOUS
  <2>1. CASE Dump!Next
    BY <2>1, PrinterKeeps
  <2>2. CASE UNCHANGED dumpVars
    BY <2>2, PrinterStays
  <2>3. UNCHANGED outputVars => UNCHANGED dumpVars
    BY DEF outputVars, dumpVars
  <2> QED BY <2>1, <2>2, <2>3 DEF OutputNext
<1>3. DumpInv => DumpSound
  BY PrinterTypes, PrinterLoses, PrinterPrints DEF DumpSound, Dump!DumpSound
<1> QED BY <1>1, <1>2, <1>3, PTL DEF OutputSpec
=============================================================================
