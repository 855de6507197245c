--------------------------- MODULE LibraryProofs ---------------------------
(* The parts of the library, each for all values of the constants: the     *)
(* number parser and the strings here, slurp_file and del_dir in modules   *)
(* of their own, and the embedding tool on top of slurp_file.              *)
EXTENDS Library, SequenceTheorems, WellFoundedInduction, TLAPS

(* Truncated division, as the tables use it.                               *)
LEMMA DivMod ==
    ASSUME NEW m \in Nat, NEW b \in 2..36
    PROVE  /\ m \div b \in Nat /\ m % b \in 0..(b - 1)
           /\ m = b * (m \div b) + (m % b)
<1>1. b \in Nat /\ b > 0 OBVIOUS
<1>2. m \div b \in Int /\ m % b \in Int BY <1>1, SMT
<1>3. m = b * (m \div b) + (m % b) BY <1>1, SMT
<1>4. m % b >= 0 /\ m % b < b BY <1>1, SMT
<1>5. m \div b >= 0 BY <1>1, SMT
<1> QED BY <1>2, <1>3, <1>4, <1>5, SMT

LEMMA ProductMonotone ==
    ASSUME NEW a \in Nat, NEW b \in Nat, NEW c \in Nat, a <= b
    PROVE  a * c <= b * c /\ a * c \in Nat
    BY SMT

(* The test made before a digit is taken decides whether the number with   *)
(* that digit is in range.                                                 *)
LEMMA CutoffDecides ==
    ASSUME NEW m \in Nat, NEW b \in 2..36, NEW n \in Nat, NEW d \in 0..(b - 1)
    PROVE  n * b + d > m <=> n > m \div b \/ (n = m \div b /\ d > m % b)
<1> DEFINE q == m \div b
           r == m % b
<1>1. q \in Nat /\ r \in 0..(b - 1) /\ m = q * b + r
  BY DivMod, SMT
<1> HIDE DEF q, r
<1>2. CASE n > q
  <2>1. (q + 1) * b <= n * b BY <1>1, <1>2, ProductMonotone
  <2>2. (q + 1) * b = q * b + b BY <1>1, SMT
  <2>3. q * b \in Nat /\ n * b \in Nat BY <1>1, SMT
  <2>4. n * b + d > m BY <1>1, <2>1, <2>2, <2>3, SMT
  <2> QED BY <1>1, <1>2, <2>4 DEF q
<1>3. CASE n = q
  <2>1. q * b \in Nat BY <1>1, SMT
  <2>2. n * b + d > m <=> d > r BY <1>1, <1>3, <2>1, SMT
  <2> QED BY <1>1, <1>3, <2>2 DEF q, r
<1>4. CASE n < q
  <2>1. (n + 1) * b <= q * b BY <1>1, <1>4, ProductMonotone
  <2>2. (n + 1) * b = n * b + b BY SMT
  <2>3. q * b \in Nat /\ n * b \in Nat BY <1>1, SMT
  <2>4. ~(n * b + d > m) BY <1>1, <2>1, <2>2, <2>3, SMT
  <2> QED BY <1>1, <1>4, <2>4 DEF q
<1> QED BY <1>1, <1>2, <1>3, <1>4, SMT
----------------------------------------------------------------------------
LEMMA TypeInit == Init => TypeOK
<1> SUFFICES ASSUME Init PROVE TypeOK
  OBVIOUS
<1>1. in \in Seq(STRING) /\ Len(in) \in Nat /\ base \in Int
  BY StrToXAssumption DEF Init
<1>2. negative \in BOOLEAN /\ overflow \in BOOLEAN
  BY Zenon DEF Init
<1> QED BY <1>1, <1>2 DEF Init, TypeOK

(* Characters before the terminator are inside the text.                   *)
LEMMA InsideText ==
    ASSUME TypeOK, NEW k \in Nat, CharAt(k) # NUL
    PROVE  k < Len(in)
    BY DEF CharAt, TypeOK

LEMMA DigitTyped ==
    ASSUME TypeOK, base \in 2..36, IsDigit(s, base)
    PROVE  DigitValue[CharAt(s)] \in 0..(base - 1) /\ s < Len(in)
<1>1. DigitValue[CharAt(s)] \in 0..35 /\ DigitValue[CharAt(s)] < base /\ CharAt(s) # NUL
  BY StrToXAssumption DEF IsDigit
<1>2. s < Len(in)
  BY <1>1, InsideText DEF TypeOK
<1> DEFINE v == DigitValue[CharAt(s)]
<1>3. v \in 0..35 /\ v < base BY <1>1
<1> HIDE DEF v
<1>4. v \in 0..(base - 1) BY <1>3, SMT
<1> QED BY <1>2, <1>4 DEF v

LEMMA TypeNext == TypeOK /\ [Next]_vars => TypeOK'
<1> SUFFICES ASSUME TypeOK, [Next]_vars PROVE TypeOK'
  OBVIOUS
<1>0. s \in Nat /\ s <= Len(in) /\ Len(in) \in Nat /\ base \in Int
  BY DEF TypeOK
<1>1. CASE CheckBase
  BY <1>1 DEF CheckBase, Return, ValidBase, TypeOK
<1>2. CASE SkipSpace
  <2>1. s < Len(in)
    BY <1>0, <1>2, InsideText DEF SkipSpace, Blanks, NUL
  <2> QED BY <1>0, <1>2, <2>1 DEF SkipSpace, ValidBase, TypeOK
<1>3. CASE OnlySpace
  BY <1>3 DEF OnlySpace, Return, ValidBase, TypeOK
<1>4. CASE Sign
  <2>1. s < Len(in)
    BY <1>0, <1>4, InsideText DEF Sign
  <2>2. s' \in 0..Len(in) /\ save \in 0..s'
    BY <1>0, <1>4, <2>1 DEF Sign, TypeOK
  <2>3. negative' \in BOOLEAN
    BY <1>4 DEF Sign
  <2> QED BY <1>4, <2>2, <2>3 DEF Sign, ValidBase, TypeOK
<1>5. CASE Prefix
  <2>1. base = 0 \/ base \in 2..36
    BY <1>5 DEF Prefix, TypeOK, ValidBase
  <2>2. base' \in 2..36
    BY <1>5, <2>1 DEF Prefix
  <2>3. HexPrefix => s + 2 <= Len(in)
    <3>1. HexPrefix => s + 1 \in Nat /\ CharAt(s + 1) # NUL
      BY <1>0 DEF HexPrefix, NUL
    <3> QED BY <1>0, <3>1, InsideText
  <2>4. s' \in 0..Len(in) /\ save' = s'
    BY <1>0, <1>5, <2>3 DEF Prefix
  <2> QED BY <1>0, <1>5, <2>2, <2>4 DEF Prefix, TypeOK
<1>6. CASE ReadDigit
  <2> DEFINE c == DigitValue[CharAt(s)]
  <2>1. base \in 2..36 BY <1>6 DEF ReadDigit, TypeOK
  <2>2. c \in Nat /\ s < Len(in)
    BY <1>6, <2>1, DigitTyped DEF ReadDigit
  <2>3. i * base + c \in Nat /\ exact * base + c \in Nat
    BY <2>1, <2>2, SMT DEF TypeOK
  <2>4. i' \in Nat /\ exact' \in Nat
    BY <1>6, <2>3 DEF ReadDigit, TypeOK
  <2>5. overflow' \in BOOLEAN
    BY <1>6 DEF ReadDigit, TypeOK
  <2>6. s' \in 0..Len(in) /\ save \in 0..s'
    BY <1>0, <1>6, <2>2 DEF ReadDigit, TypeOK
  <2> QED BY <1>6, <2>1, <2>4, <2>5, <2>6 DEF ReadDigit, TypeOK
<1>7. CASE EndDigits
  <2>1. pc' = "done" BY <1>7 DEF EndDigits, Return
  <2> QED BY <1>7, <2>1 DEF EndDigits, TypeOK
<1>8. CASE Returned \/ UNCHANGED vars
  BY <1>8 DEF Returned, vars, ValidBase, TypeOK
<1> QED BY <1>1, <1>2, <1>3, <1>4, <1>5, <1>6, <1>7, <1>8 DEF Next

(* The variables keep their types; in particular the cursor never passes   *)
(* the terminator of the text and the tables are indexed in range.         *)
THEOREM StrToXTypeOK == Spec => []TypeOK
    BY TypeInit, TypeNext, PTL DEF Spec
----------------------------------------------------------------------------
(* The digits are only read from zero: the accumulator is touched by       *)
(* ReadDigit alone, which CutoffDecides is about.                          *)
LEMMA ExactInit == Init => AccumulatorExact
    BY StrToXAssumption DEF Init, AccumulatorExact

LEMMA ExactNext == TypeOK /\ AccumulatorExact /\ [Next]_vars => AccumulatorExact'
<1> SUFFICES ASSUME TypeOK, AccumulatorExact, [Next]_vars PROVE AccumulatorExact'
  OBVIOUS
<1>1. CASE ReadDigit
  <2> DEFINE c == DigitValue[CharAt(s)]
  <2>1. base \in 2..36 BY <1>1 DEF ReadDigit, TypeOK
  <2>2. c \in 0..(base - 1)
    BY <1>1, <2>1, DigitTyped DEF ReadDigit
  <2>3. i \in Nat /\ exact \in Nat /\ MaxInt \in Nat /\ i <= MaxInt
    BY StrToXAssumption DEF TypeOK, AccumulatorExact
  <2>4. i * base + c > MaxInt <=> DoesNotFit(c)
    BY <2>1, <2>2, <2>3, CutoffDecides DEF DoesNotFit, cutoff, cutlim
  <2>5. exact' = exact * base + c
        /\ (DoesNotFit(c) => overflow' = TRUE /\ i' = i)
        /\ (~DoesNotFit(c) => overflow' = overflow /\ i' = i * base + c)
    BY <1>1 DEF ReadDigit
  <2> HIDE DEF c
  <2>6. i * base \in Nat /\ exact * base \in Nat /\ c \in Nat
    BY <2>1, <2>2, <2>3, SMT
  <2>7. CASE overflow
    <3>1. exact > MaxInt BY <2>7 DEF AccumulatorExact
    <3>2. exact * base >= exact
      <4>1. exact * 1 <= exact * base BY <2>1, <2>3, SMT
      <4> QED BY <4>1, <2>3
    <3>3. exact' > MaxInt BY <2>3, <2>5, <2>6, <3>1, <3>2
    <3>4. overflow' BY <2>5, <2>7
    <3>5. i' <= MaxInt BY <2>3, <2>4, <2>5, <2>6
    <3> QED BY <3>3, <3>4, <3>5 DEF AccumulatorExact
  <2>8. CASE ~overflow
    <3>1. i = exact BY <2>8 DEF AccumulatorExact
    <3>2. CASE DoesNotFit(c)
      BY <2>3, <2>4, <2>5, <3>1, <3>2 DEF AccumulatorExact
    <3>3. CASE ~DoesNotFit(c)
      BY <2>3, <2>4, <2>5, <2>6, <2>8, <3>1, <3>3 DEF AccumulatorExact
    <3> QED BY <3>2, <3>3
  <2> QED BY <2>7, <2>8
<1>2. UNCHANGED <<i, overflow, exact>> => AccumulatorExact'
  BY DEF AccumulatorExact
<1> QED
  BY <1>1, <1>2 DEF Next, CheckBase, SkipSpace, OnlySpace, Sign, Prefix, EndDigits,
                    Returned, vars

(* The accumulator stays in 0..MaxInt (no signed overflow, which C leaves  *)
(* undefined), equals the number read while that fits, and ERANGE is       *)
(* reported exactly when it does not: TypeOK supplies the base in range.   *)
THEOREM StrToXExact == Spec => []AccumulatorExact
    BY TypeInit, TypeNext, ExactInit, ExactNext, PTL DEF Spec
----------------------------------------------------------------------------
(* Induction: a set of numbers that is not empty has a least one.          *)
LEMMA LeastNumber ==
  ASSUME NEW T \in SUBSET Nat, T # {}
  PROVE  \E n \in T : \A m \in T : n <= m
<1> DEFINE R == {ss \in Nat \X Nat : ss[1] < ss[2]}
<1>1. IsWellFoundedOn(R, Nat)
  BY NatLessThanWellFounded DEF OpToRel
<1> HIDE DEF R
<1>2. PICK n \in T : \A m \in T : ~(<<m, n>> \in R)
  BY <1>1, WFMin
<1>3. \A m \in T : ~(m < n)
  BY <1>2 DEF R
<1> QED BY <1>3

(* What Horner's recursion computes: the value of no digits, and of one    *)
(* digit more.                                                             *)
IsHorner(v, a, b, radix) ==
  v = [k \in a..b |-> IF k = a THEN 0 ELSE v[k - 1] * radix + DigitValue[in[k]]]

LEMMA HornerExists ==
  ASSUME NEW a \in Nat, NEW b \in Nat, a <= b, NEW radix
  PROVE  \E v : IsHorner(v, a, b, radix)
<1> DEFINE T == {n \in Nat : a <= n /\ ~\E v : IsHorner(v, a, n, radix)}
<1> SUFFICES ASSUME T # {} PROVE FALSE
  OBVIOUS
<1>1. PICK n \in T : \A m \in T : n <= m
  BY LeastNumber
<1>2. n \in Nat /\ a <= n
  OBVIOUS
<1>3. CASE n = a
  <2> DEFINE v == [k \in a..n |-> 0]
  <2>1. \A k \in a..n : k = a
    BY <1>2, <1>3
  <2>2. v = [k \in a..n |-> IF k = a THEN 0 ELSE v[k - 1] * radix + DigitValue[in[k]]]
    BY <2>1
  <2> HIDE DEF v
  <2> QED BY <2>2 DEF IsHorner
<1>4. CASE n > a
  <2>1. n - 1 \in Nat /\ a <= n - 1 /\ n - 1 \notin T
    BY <1>1, <1>2, <1>4
  <2>2. PICK h : IsHorner(h, a, n - 1, radix)
    BY <2>1
  <2> DEFINE v == [k \in a..n |-> IF k = n THEN h[n - 1] * radix + DigitValue[in[n]] ELSE h[k]]
             w == [k \in a..n |-> IF k = a THEN 0 ELSE v[k - 1] * radix + DigitValue[in[k]]]
  <2>3. ASSUME NEW k \in a..n PROVE v[k] = IF k = a THEN 0 ELSE v[k - 1] * radix + DigitValue[in[k]]
    <3>1. CASE k = n
      <4>1. k - 1 \in a..n /\ k - 1 # n /\ k # a
        BY <1>2, <1>4, <3>1
      <4>2. v[k - 1] = h[n - 1]
        BY <4>1, <3>1
      <4>3. v[k] = h[n - 1] * radix + DigitValue[in[n]]
        BY <3>1
      <4> HIDE DEF v
      <4> QED BY <4>1, <4>2, <4>3, <3>1, Zenon
    <3>2. CASE k # n
      <4>1. k \in a..(n - 1) /\ v[k] = h[k]
        BY <1>2, <3>2
      <4>2. h[k] = IF k = a THEN 0 ELSE h[k - 1] * radix + DigitValue[in[k]]
        BY <2>2, <4>1 DEF IsHorner
      <4>3. k # a => k - 1 \in a..n /\ k - 1 # n
        BY <1>2
      <4>4. k # a => v[k - 1] = h[k - 1]
        BY <4>3
      <4> HIDE DEF v
      <4> QED BY <4>1, <4>2, <4>4, Zenon
    <3> QED BY <3>1, <3>2
  <2>4. v = w
    <3>1. v = [k \in a..n |-> v[k]]
      BY Zenon
    <3> HIDE DEF v
    <3> QED BY <2>3, <3>1
  <2> HIDE DEF v
  <2> QED BY <2>4 DEF IsHorner
<1> QED BY <1>2, <1>3, <1>4

LEMMA HornerUnique ==
  ASSUME NEW a \in Nat, NEW b \in Nat, NEW c \in Nat, NEW radix, NEW v, NEW w,
         IsHorner(v, a, b, radix), IsHorner(w, a, c, radix),
         NEW k \in Nat, a <= k, k <= b, k <= c
  PROVE  v[k] = w[k]
<1> DEFINE T == {n \in Nat : a <= n /\ n <= k /\ v[n] # w[n]}
<1> SUFFICES ASSUME T # {} PROVE FALSE
  OBVIOUS
<1>1. PICK n \in T : \A m \in T : n <= m
  BY LeastNumber
<1>2. n \in Nat /\ a <= n /\ n <= k /\ v[n] # w[n] /\ n \in a..b /\ n \in a..c
  OBVIOUS
<1>3. /\ v[n] = IF n = a THEN 0 ELSE v[n - 1] * radix + DigitValue[in[n]]
      /\ w[n] = IF n = a THEN 0 ELSE w[n - 1] * radix + DigitValue[in[n]]
  BY <1>2 DEF IsHorner
<1>4. CASE n = a
  BY <1>2, <1>3, <1>4
<1>5. CASE n # a
  <2>1. n - 1 \in Nat /\ a <= n - 1 /\ n - 1 <= k /\ n - 1 \notin T
    BY <1>1, <1>2, <1>5
  <2>2. v[n - 1] = w[n - 1]
    BY <2>1
  <2> QED BY <1>2, <1>3, <1>5, <2>2
<1> QED BY <1>4, <1>5

LEMMA HornerIs ==
  ASSUME NEW a \in Nat, NEW b \in Nat, a <= b, NEW radix
  PROVE  \E v : IsHorner(v, a, b, radix) /\ Horner(a, b, radix) = v[b]
<1> DEFINE w == CHOOSE v : IsHorner(v, a, b, radix)
<1>1. IsHorner(w, a, b, radix)
  BY HornerExists, Zenon
<1>2. Horner(a, b, radix) = w[b]
  BY Zenon DEF Horner, IsHorner
<1> QED BY <1>1, <1>2

LEMMA HornerSteps ==
  ASSUME NEW a \in Nat, NEW b \in Nat, a <= b, NEW radix
  PROVE  /\ Horner(a, a, radix) = 0
         /\ Horner(a, b + 1, radix) = Horner(a, b, radix) * radix + DigitValue[in[b + 1]]
<1>1. PICK u : IsHorner(u, a, a, radix) /\ Horner(a, a, radix) = u[a]
  BY HornerIs
<1>2. PICK v : IsHorner(v, a, b, radix) /\ Horner(a, b, radix) = v[b]
  BY HornerIs
<1>3. PICK w : IsHorner(w, a, b + 1, radix) /\ Horner(a, b + 1, radix) = w[b + 1]
  BY HornerIs
<1>4. u[a] = 0
  BY <1>1 DEF IsHorner
<1>5. v[b] = w[b]
  BY <1>2, <1>3, HornerUnique
<1>6. b + 1 \in a..(b + 1) /\ b + 1 # a /\ (b + 1) - 1 = b
  OBVIOUS
<1>7. w[b + 1] = w[(b + 1) - 1] * radix + DigitValue[in[b + 1]]
  BY <1>3, <1>6 DEF IsHorner
<1> QED BY <1>1, <1>2, <1>3, <1>4, <1>5, <1>6, <1>7

(* The places the definition chooses are where the loops stop.             *)
LEMMA SpacesEndIs ==
  ASSUME NEW k \in 0..Len(in), CharAt(k) \notin Blanks, \A j \in 0..(k - 1) : CharAt(j) \in Blanks
  PROVE  SpacesEnd = k
<1> DEFINE P(x) == CharAt(x) \notin Blanks /\ \A j \in 0..(x - 1) : CharAt(j) \in Blanks
<1>1. ASSUME NEW x \in 0..Len(in), P(x) PROVE x = k
  <2>1. ~(x < k)
    <3>1. x < k => x \in 0..(k - 1)
      OBVIOUS
    <3> QED BY <1>1, <3>1
  <2>2. ~(k < x)
    <3>1. k < x => k \in 0..(x - 1)
      OBVIOUS
    <3> QED BY <1>1, <3>1
  <2> QED BY <2>1, <2>2
<1>2. P(k)
  OBVIOUS
<1>3. P(CHOOSE x \in 0..Len(in) : P(x)) /\ (CHOOSE x \in 0..Len(in) : P(x)) \in 0..Len(in)
  BY <1>2, Zenon
<1>4. SpacesEnd = CHOOSE x \in 0..Len(in) : P(x)
  BY DEF SpacesEnd
<1> HIDE DEF P
<1> QED BY <1>1, <1>3, <1>4

LEMMA DigitsEndIs ==
  ASSUME NEW a \in Nat, NEW k \in a..Len(in), NEW radix,
         ~IsDigit(k, radix), \A j \in a..(k - 1) : IsDigit(j, radix)
  PROVE  DigitsEnd(a, radix) = k
<1> DEFINE P(x) == ~IsDigit(x, radix) /\ \A j \in a..(x - 1) : IsDigit(j, radix)
<1>1. ASSUME NEW x \in a..Len(in), P(x) PROVE x = k
  <2>1. ~(x < k)
    <3>1. x < k => x \in a..(k - 1)
      OBVIOUS
    <3> QED BY <1>1, <3>1
  <2>2. ~(k < x)
    <3>1. k < x => k \in a..(x - 1)
      OBVIOUS
    <3> QED BY <1>1, <3>1
  <2> QED BY <2>1, <2>2
<1>2. P(k)
  OBVIOUS
<1>3. P(CHOOSE x \in a..Len(in) : P(x)) /\ (CHOOSE x \in a..Len(in) : P(x)) \in a..Len(in)
  BY <1>2, Zenon
<1>4. DigitsEnd(a, radix) = CHOOSE x \in a..Len(in) : P(x)
  BY DEF DigitsEnd
<1> HIDE DEF P
<1> QED BY <1>1, <1>3, <1>4
----------------------------------------------------------------------------
(* What each step has settled of what the definition says of the text.     *)
ValidGiven == given = 0 \/ given \in 2..36
Spaces == pc \in {"space"} => ValidGiven /\ base = given /\ \A j \in 0..(s - 1) : CharAt(j) \in Blanks
Signed == pc \in {"prefix", "digits"} => ValidGiven /\ negative = (CharAt(SpacesEnd) = "-")
Numbered == pc = "prefix" => s = NumberAt /\ base = given
Read ==
  pc = "digits" =>
    /\ save = DigitsAt /\ base = Radix
    /\ \A j \in save..(s - 1) : IsDigit(j, base)
    /\ exact = Horner(save, s, base)
Reading ==
  /\ pc = "base" => base = given /\ s = 0
  /\ pc \notin {"digits", "done"} => exact = 0
  /\ Spaces /\ Signed /\ Numbered /\ Read
  /\ ResultCorrect
  /\ given \in Int

LEMMA ReadingInit == Init => Reading
BY StrToXAssumption DEF Init, Reading, Spaces, Signed, Numbered, Read, ResultCorrect

(* What the definition says depends on the argument and the base alone.    *)
LEMMA ReferenceStays ==
  ASSUME UNCHANGED <<in, given>>
  PROVE  /\ Reference' = Reference /\ SpacesEnd' = SpacesEnd /\ NumberAt' = NumberAt
         /\ DigitsAt' = DigitsAt /\ Radix' = Radix /\ ValidGiven' = ValidGiven
         /\ \A k : CharAt(k)' = CharAt(k)
<1>1. \A k : CharAt(k)' = CharAt(k)
  BY DEF CharAt
<1>2. SpacesEnd' = SpacesEnd
  BY <1>1 DEF SpacesEnd, CharAt
<1>3. NumberAt' = NumberAt
  BY <1>1, <1>2 DEF NumberAt
<1>4. IsHex' = IsHex
  BY <1>1, <1>3 DEF IsHex
<1>5. DigitsAt' = DigitsAt /\ Radix' = Radix
  BY <1>1, <1>3, <1>4 DEF DigitsAt, Radix
<1>6. \A a, b, r : Horner(a, b, r)' = Horner(a, b, r) /\ DigitsEnd(a, r)' = DigitsEnd(a, r)
  BY DEF Horner, DigitsEnd, IsDigit, CharAt
<1>7. Reference' = Reference
  BY <1>1, <1>2, <1>5, <1>6 DEF Reference, Failure, NoNumber, Number
<1> QED BY <1>1, <1>2, <1>3, <1>5, <1>7 DEF ValidGiven

LEMMA SpaceStops ==
  ASSUME TypeOK, pc = "space", Reading, CharAt(s) \notin Blanks
  PROVE  s = SpacesEnd
<1>1. s \in 0..Len(in) /\ \A j \in 0..(s - 1) : CharAt(j) \in Blanks
  BY DEF TypeOK, Reading, Spaces
<1> QED BY <1>1, SpacesEndIs

LEMMA ReadingNext == TypeOK /\ AccumulatorExact /\ Reading /\ [Next]_vars => Reading'
<1> SUFFICES ASSUME TypeOK, AccumulatorExact, Reading, [Next]_vars PROVE Reading'
  OBVIOUS
<1>0. /\ s \in Nat /\ s <= Len(in) /\ Len(in) \in Nat /\ base \in Int /\ given \in Int
      /\ save \in Nat /\ save <= s
  BY DEF TypeOK, Reading
<1>a. UNCHANGED <<in, given>>
  BY DEF Next, CheckBase, SkipSpace, OnlySpace, Sign, Prefix, ReadDigit, EndDigits, Returned, vars
<1>b. given' \in Int
  BY <1>0, <1>a
<1>1. CASE CheckBase
  <2>1. base = given /\ s = 0 /\ exact = 0 /\ UNCHANGED <<base, s, exact>>
    BY <1>1 DEF CheckBase, Reading
  <2>2. CASE ValidBase
    <3>1. pc' = "space" /\ ValidGiven
      BY <1>1, <2>1, <2>2 DEF CheckBase, ValidBase, ValidGiven
    <3>2. \A j \in 0..(s' - 1) : CharAt(j)' \in Blanks
      BY <2>1
    <3> QED BY <1>a, <1>b, <2>1, <3>1, <3>2, ReferenceStays DEF Reading, Spaces, Signed, Numbered, Read, ResultCorrect
  <2>3. CASE ~ValidBase
    <3>1. pc' = "done" /\ result' = Failure("EINVAL")
      BY <1>1, <2>3 DEF CheckBase, Return
    <3>2. Reference = Failure("EINVAL")
      BY <2>1, <2>3 DEF Reference, ValidBase
    <3> QED BY <1>a, <1>b, <3>1, <3>2, ReferenceStays DEF Reading, Spaces, Signed, Numbered, Read, ResultCorrect
  <2> QED BY <2>2, <2>3
<1>2. CASE SkipSpace
  <2>1. pc = "space" /\ pc' = "space" /\ s' = s + 1 /\ base' = base /\ CharAt(s) \in Blanks /\ exact' = 0
    BY <1>2 DEF SkipSpace, Reading
  <2>2. ValidGiven /\ base = given /\ \A j \in 0..(s - 1) : CharAt(j) \in Blanks
    BY <2>1 DEF Reading, Spaces
  <2>3. \A j \in 0..(s' - 1) : CharAt(j) \in Blanks
    <3>1. \A j \in 0..s : j = s \/ j \in 0..(s - 1)
      BY <1>0
    <3> QED BY <1>0, <2>1, <2>2, <3>1
  <2> QED BY <1>a, <1>b, <2>1, <2>2, <2>3, ReferenceStays DEF Reading, Spaces, Signed, Numbered, Read, ResultCorrect
<1>3. CASE OnlySpace
  <2>1. pc = "space" /\ CharAt(s) = NUL /\ pc' = "done" /\ result' = NoNumber
    BY <1>3 DEF OnlySpace, Return
  <2>2. s = SpacesEnd
    BY <2>1, SpaceStops DEF Blanks, NUL
  <2>3. NumberAt = s /\ ~IsHex
    BY <2>1, <2>2 DEF NumberAt, IsHex, NUL
  <2>4. DigitsAt = s
    BY <2>3 DEF DigitsAt
  <2>5. ~IsDigit(s, Radix)
    BY <2>1, StrToXAssumption DEF IsDigit
  <2>6. DigitsEnd(s, Radix) = s
    <3>1. s \in s..Len(in) /\ \A j \in s..(s - 1) : IsDigit(j, Radix)
      BY <1>0
    <3> QED BY <1>0, <2>5, <3>1, DigitsEndIs
  <2>7. ValidGiven
    BY <2>1 DEF Reading, Spaces
  <2>8. Reference = NoNumber
    BY <2>4, <2>6, <2>7 DEF Reference, ValidGiven
  <2> QED BY <1>a, <1>b, <2>1, <2>8, ReferenceStays DEF Reading, Spaces, Signed, Numbered, Read, ResultCorrect
<1>4. CASE Sign
  <2>1. /\ pc = "space" /\ CharAt(s) \notin Blanks /\ pc' = "prefix" /\ base' = base /\ exact' = 0
        /\ negative' = (CharAt(s) = "-")
        /\ s' = IF CharAt(s) \in {"-", "+"} THEN s + 1 ELSE s
    BY <1>4 DEF Sign, Reading
  <2>2. s = SpacesEnd
    BY <2>1, SpaceStops
  <2>3. s' = NumberAt
    BY <2>1, <2>2 DEF NumberAt
  <2>4. ValidGiven /\ base' = given
    BY <2>1 DEF Reading, Spaces
  <2> QED BY <1>a, <1>b, <2>1, <2>2, <2>3, <2>4, ReferenceStays DEF Reading, Spaces, Signed, Numbered, Read, ResultCorrect
<1>5. CASE Prefix
  <2>1. pc = "prefix" /\ pc' = "digits" /\ save' = s' /\ negative' = negative /\ exact' = exact
    BY <1>5 DEF Prefix
  <2>2. ValidGiven /\ negative = (CharAt(SpacesEnd) = "-") /\ s = NumberAt /\ base = given
    BY <2>1 DEF Reading, Signed, Numbered
  <2>3. HexPrefix <=> IsHex
    BY <2>2 DEF HexPrefix, IsHex
  <2>4. s' = DigitsAt
    BY <1>5, <2>2, <2>3 DEF Prefix, DigitsAt
  <2>5. base' = Radix
    BY <1>5, <2>2, <2>3 DEF Prefix, Radix
  <2>6. s' \in Nat
    BY <1>0, <1>5 DEF Prefix
  <2>7. exact = 0
    BY <2>1 DEF Reading
  <2>8. Horner(s', s', base') = 0
    BY <2>6, HornerSteps
  <2>9. exact' = Horner(save, s, base)'
    BY <1>a, <2>1, <2>7, <2>8 DEF Horner
  <2>10. \A j \in save'..(s' - 1) : IsDigit(j, base)'
    <3>0. \A n \in Nat : n..(n - 1) = {}
      OBVIOUS
    <3>1. save'..(s' - 1) = {}
      BY <2>1, <2>6, <3>0
    <3> QED BY <3>1
  <2> QED BY <1>a, <1>b, <2>1, <2>2, <2>4, <2>5, <2>9, <2>10, ReferenceStays
          DEF Reading, Spaces, Signed, Numbered, Read, ResultCorrect
<1>6. CASE ReadDigit
  <2>1. /\ pc = "digits" /\ pc' = pc /\ IsDigit(s, base) /\ s' = s + 1
        /\ UNCHANGED <<base, save, negative>> /\ exact' = exact * base + DigitValue[CharAt(s)]
    BY <1>6 DEF ReadDigit
  <2>2. /\ ValidGiven /\ negative = (CharAt(SpacesEnd) = "-")
        /\ save = DigitsAt /\ base = Radix
        /\ \A j \in save..(s - 1) : IsDigit(j, base)
        /\ exact = Horner(save, s, base)
    BY <2>1 DEF Reading, Signed, Read
  <2>3. \A j \in save'..(s' - 1) : IsDigit(j, base)'
    <3>1. \A j \in save..s : j = s \/ j \in save..(s - 1)
      BY <1>0
    <3>2. \A j \in save..s : IsDigit(j, base)
      BY <2>1, <2>2, <3>1
    <3>3. save'..(s' - 1) = save..s
      BY <1>0, <2>1
    <3> QED BY <1>a, <2>1, <3>2, <3>3 DEF IsDigit, CharAt
  <2>4. s < Len(in) /\ CharAt(s) = in[s + 1]
    <3>1. CharAt(s) # NUL
      BY <2>1, StrToXAssumption DEF IsDigit
    <3> QED BY <1>0, <3>1, InsideText DEF CharAt
  <2>5. Horner(save, s + 1, base) = Horner(save, s, base) * base + DigitValue[in[s + 1]]
    BY <1>0, HornerSteps
  <2>6. exact' = Horner(save, s + 1, base)
    BY <2>1, <2>2, <2>4, <2>5
  <2>7. exact' = Horner(save, s, base)'
    BY <1>a, <2>1, <2>6 DEF Horner
  <2> QED BY <1>a, <1>b, <2>1, <2>2, <2>3, <2>7, ReferenceStays
          DEF Reading, Spaces, Signed, Numbered, Read, ResultCorrect
<1>7. CASE EndDigits
  <2>1. /\ pc = "digits" /\ ~IsDigit(s, base)
    BY <1>7 DEF EndDigits
  <2>2. pc' = "done" /\ result' = IF s = save THEN NoNumber
                                  ELSE IF overflow THEN Failure("ERANGE")
                                  ELSE Number(IF negative THEN -i ELSE i, s)
    BY <1>7 DEF EndDigits, Return
  <2>3. /\ ValidGiven /\ negative = (CharAt(SpacesEnd) = "-")
        /\ save = DigitsAt /\ base = Radix
        /\ \A j \in save..(s - 1) : IsDigit(j, base)
        /\ exact = Horner(save, s, base)
    BY <2>1 DEF Reading, Signed, Read
  <2>4. DigitsEnd(DigitsAt, Radix) = s
    BY <1>0, <2>1, <2>3, DigitsEndIs
  <2>5. overflow <=> exact > MaxInt
    BY DEF AccumulatorExact
  <2>6. ~overflow => i = exact
    BY DEF AccumulatorExact
  <2>7. Reference = IF save = s THEN NoNumber
                    ELSE IF exact > MaxInt THEN Failure("ERANGE")
                    ELSE Number(IF negative THEN -exact ELSE exact, s)
    BY <2>3, <2>4 DEF Reference, ValidGiven
  <2>8. result' = Reference
    BY <2>2, <2>5, <2>6, <2>7, Zenon
  <2> QED BY <1>a, <1>b, <2>2, <2>8, ReferenceStays DEF Reading, Spaces, Signed, Numbered, Read, ResultCorrect
<1>8. CASE Returned \/ UNCHANGED vars
  <2>1. UNCHANGED vars
    BY <1>8 DEF Returned
  <2>2. IsDigit(0, 0)' = IsDigit(0, 0)
    BY <2>1 DEF vars, IsDigit, CharAt
  <2> QED BY <2>1, ReferenceStays DEF vars, Reading, Spaces, Signed, Numbered, Read, ResultCorrect, Horner, IsDigit, CharAt
<1> QED BY <1>1, <1>2, <1>3, <1>4, <1>5, <1>6, <1>7, <1>8 DEF Next

(* str2i64 returns what the definition says of the text and the base: the  *)
(* value of the longest numeral, its end, EINVAL for a base that is none,  *)
(* ERANGE for a value beyond INT64_MAX.                                    *)
THEOREM StrToXResult == Spec => []ResultCorrect
<1>1. Reading => ResultCorrect
  BY DEF Reading
<1> QED BY <1>1, TypeInit, TypeNext, ExactInit, ExactNext, ReadingInit, ReadingNext, PTL DEF Spec
----------------------------------------------------------------------------
(* What OwnershipKept says of a memory and the variables, with what it     *)
(* rests on: malloc never returns a pointer that is in use.                *)
Kept(m, w) ==
    /\ m \in Owners!Memory /\ w \in [Slots -> Owners!Str(Seq(STRING))]
    /\ ~m.misused
    /\ \A p \in m.live : p < m.next
    /\ \A x \in Slots :
           w[x].owner => w[x].ptr \in m.live /\ w[x].ptr # Owners!NULL /\ w[x].text # <<>>
    /\ \A x, y \in Slots : w[x].owner /\ w[y].owner /\ w[x].ptr = w[y].ptr => x = y
    /\ \A p \in m.live : \E x \in Slots : w[x].owner /\ w[x].ptr = p

(* It is all that OwnershipKept says.                                      *)
LEMMA KeptIsOwnership == Kept(mem, slot) => Owners!OwnershipKept
  BY DEF Kept, Owners!OwnershipKept, Owners!TypeOK, Owners!OneOwner, Owners!NothingLost, Owners!NeverMisused, Owners!Owned
----------------------------------------------------------------------------
(* malloc gives a pointer nobody has, to a variable that owned nothing.    *)
LEMMA AcquireKeeps ==
  ASSUME NEW m, NEW w, Kept(m, w), NEW x \in Slots, ~w[x].owner, NEW chars \in Seq(STRING)
  PROVE  Kept(Owners!Acquire(m, chars).mem, [w EXCEPT ![x] = Owners!Acquire(m, chars).str])
<1>1. CASE chars = <<>>
  <2>1. Owners!Acquire(m, chars).mem = m /\ Owners!Acquire(m, chars).str = Owners!str_empty
    BY <1>1 DEF Owners!Acquire
  <2>2. Owners!str_empty \in Owners!Str(Seq(STRING)) /\ ~Owners!str_empty.owner
    BY DEF Owners!str_empty, Owners!str_lit, Owners!Str, Owners!NULL
  <2>3. \A p \in m.live : \E y \in Slots \ {x} : w[y].owner /\ w[y].ptr = p
    BY DEF Kept
  <2> QED BY <2>1, <2>2, <2>3 DEF Kept
<1>2. CASE chars # <<>>
  <2> DEFINE new == [m EXCEPT !.live = @ \cup {m.next}, !.next = @ + 1]
             str == [ptr |-> m.next, owner |-> TRUE, text |-> chars]
             t   == [w EXCEPT ![x] = str]
  <2>1. Owners!Acquire(m, chars).mem = new /\ Owners!Acquire(m, chars).str = str
    BY <1>2 DEF Owners!Acquire
  <2>2. /\ m.live \subseteq Nat /\ m.next \in Nat /\ m.next # 0 /\ ~m.misused
        /\ m.misused \in BOOLEAN
        /\ m = [live |-> m.live, next |-> m.next, misused |-> m.misused]
    BY DEF Kept, Owners!Memory, Owners!NULL
  <2>3. /\ new.live = m.live \cup {m.next} /\ new.next = m.next + 1 /\ ~new.misused
        /\ new \in Owners!Memory
    <3>1. m.next + 1 \in Nat \ {Owners!NULL}
      BY <2>2 DEF Owners!NULL
    <3>2. ASSUME NEW n \in Nat \ {Owners!NULL}, NEW l \in SUBSET Nat
          PROVE  LET r == [m EXCEPT !.live = l, !.next = n]
                 IN  r \in Owners!Memory /\ r.live = l /\ r.next = n /\ r.misused = m.misused
      BY DEF Kept, Owners!Memory
    <3>3. new = [m EXCEPT !.live = m.live \cup {m.next}, !.next = m.next + 1]
      OBVIOUS
    <3> HIDE DEF new
    <3> QED BY <2>2, <3>1, <3>2, <3>3
  <2>4. str \in Owners!Str(Seq(STRING))
    BY <2>2 DEF Owners!Str
  <2>5. /\ t \in [Slots -> Owners!Str(Seq(STRING))] /\ t[x] = str
        /\ \A y \in Slots \ {x} : t[y] = w[y]
    BY <2>4 DEF Kept
  <2>6. \A y \in Slots : w[y].owner => w[y].ptr \in m.live /\ w[y].ptr # m.next /\ y # x
    BY <2>2 DEF Kept
  <2>7. \A p \in new.live : p < new.next
    BY <2>2, <2>3 DEF Kept
  <2>8. \A y \in Slots : t[y].owner => t[y].ptr \in new.live /\ t[y].ptr # Owners!NULL /\ t[y].text # <<>>
    BY <1>2, <2>2, <2>3, <2>5 DEF Kept, Owners!NULL
  <2>9. \A y, z \in Slots : t[y].owner /\ t[z].owner /\ t[y].ptr = t[z].ptr => y = z
    BY <2>5, <2>6 DEF Kept
  <2>10. \A p \in new.live : \E y \in Slots : t[y].owner /\ t[y].ptr = p
    <3> SUFFICES ASSUME NEW p \in new.live PROVE \E y \in Slots : t[y].owner /\ t[y].ptr = p
      OBVIOUS
    <3>1. CASE p = m.next
      BY <2>5, <3>1
    <3>2. CASE p \in m.live
      <4>1. PICK y \in Slots : w[y].owner /\ w[y].ptr = p
        BY <3>2 DEF Kept
      <4> QED BY <2>5, <2>6, <4>1
    <3> QED BY <2>3, <3>1, <3>2
  <2> HIDE DEF new, str, t
  <2>11. Kept(new, t)
    BY <2>3, <2>5, <2>7, <2>8, <2>9, <2>10 DEF Kept
  <2> QED BY <2>1, <2>11 DEF t
<1> QED BY <1>1, <1>2

(* A reference, or the empty string, in a variable that owned nothing.     *)
LEMMA ReferenceKeeps ==
  ASSUME NEW m, NEW w, Kept(m, w), NEW x \in Slots, ~w[x].owner,
         NEW str \in Owners!Str(Seq(STRING)), ~str.owner
  PROVE  Kept(m, [w EXCEPT ![x] = str])
<1>1. \A p \in m.live : \E y \in Slots \ {x} : w[y].owner /\ w[y].ptr = p
  BY DEF Kept
<1> QED BY <1>1 DEF Kept

(* A text that is freed has its only owner forget it.                      *)
GivenUp(str) == IF str.owner THEN Owners!str_empty ELSE str
LEMMA FreeKeeps ==
  ASSUME NEW m, NEW w, Kept(m, w), NEW x \in Slots
  PROVE  Kept(Owners!str_free(m, w[x]), [w EXCEPT ![x] = GivenUp(w[x])])
<1> DEFINE t == [w EXCEPT ![x] = GivenUp(w[x])]
<1>1. CASE ~w[x].owner
  <2>1. Owners!str_free(m, w[x]) = m /\ t = w
    BY <1>1 DEF Owners!str_free, GivenUp, Kept
  <2> QED BY <2>1
<1>2. CASE w[x].owner
  <2> DEFINE new == [m EXCEPT !.live = @ \ {w[x].ptr}, !.misused = @ \/ w[x].ptr \notin m.live]
  <2>1. Owners!str_free(m, w[x]) = new /\ GivenUp(w[x]) = Owners!str_empty
    BY <1>2 DEF Owners!str_free, GivenUp
  <2>2. Owners!str_empty \in Owners!Str(Seq(STRING)) /\ ~Owners!str_empty.owner
    BY DEF Owners!str_empty, Owners!str_lit, Owners!Str, Owners!NULL
  <2>3. w[x].ptr \in m.live /\ ~m.misused
    BY <1>2 DEF Kept
  <2>4. /\ new.live = m.live \ {w[x].ptr} /\ new.next = m.next /\ ~new.misused
        /\ new \in Owners!Memory
    BY <2>3 DEF Kept, Owners!Memory
  <2>5. /\ t \in [Slots -> Owners!Str(Seq(STRING))] /\ t[x] = Owners!str_empty
        /\ \A y \in Slots \ {x} : t[y] = w[y]
    BY <2>1, <2>2 DEF Kept
  <2>6. \A y \in Slots : t[y].owner =>
            /\ y # x /\ w[y].owner /\ t[y] = w[y]
            /\ t[y].ptr \in new.live /\ t[y].ptr # Owners!NULL /\ t[y].text # <<>>
    BY <1>2, <2>2, <2>4, <2>5 DEF Kept
  <2>7. \A p \in new.live : \E y \in Slots : t[y].owner /\ t[y].ptr = p
    <3> SUFFICES ASSUME NEW p \in new.live PROVE \E y \in Slots : t[y].owner /\ t[y].ptr = p
      OBVIOUS
    <3>1. PICK y \in Slots : w[y].owner /\ w[y].ptr = p
      BY <2>4 DEF Kept
    <3> QED BY <2>4, <2>5, <3>1
  <2>8. \A p \in new.live : p < new.next
    BY <2>4 DEF Kept
  <2>9. \A y, z \in Slots : t[y].owner /\ t[z].owner /\ t[y].ptr = t[z].ptr => y = z
    BY <2>6 DEF Kept
  <2> HIDE DEF new, t
  <2>10. Kept(new, t)
    BY <2>4, <2>5, <2>6, <2>7, <2>8, <2>9 DEF Kept
  <2> QED BY <2>1, <2>10 DEF t
<1> QED BY <1>1, <1>2

(* A reference is a string that owns nothing.                              *)
LEMMA RefIsString ==
  ASSUME NEW str \in Owners!Str(Seq(STRING))
  PROVE  Owners!str_ref(str) \in Owners!Str(Seq(STRING)) /\ ~Owners!str_ref(str).owner
<1> DEFINE T == Seq(STRING)
<1> HIDE DEF T
<1>1. ASSUME str \in Owners!Str(T) PROVE Owners!str_ref(str) \in Owners!Str(T) /\ ~Owners!str_ref(str).owner
  BY <1>1 DEF Owners!Str, Owners!str_ref
<1> QED BY <1>1 DEF T

(* An owner hands its text to a variable that owned nothing, and keeps a   *)
(* reference to it.                                                        *)
LEMMA HandOnKeeps ==
  ASSUME NEW m, NEW w, Kept(m, w), NEW x \in Slots, NEW y \in Slots,
         ~w[x].owner, w[y].owner
  PROVE  Kept(m, [w EXCEPT ![x] = w[y], ![y] = Owners!str_ref(w[y])])
<1> DEFINE t == [w EXCEPT ![x] = w[y], ![y] = Owners!str_ref(w[y])]
<1>1. Owners!str_ref(w[y]) \in Owners!Str(Seq(STRING)) /\ ~Owners!str_ref(w[y]).owner
  BY RefIsString DEF Kept
<1>2. /\ t \in [Slots -> Owners!Str(Seq(STRING))] /\ t[x] = w[y] /\ ~t[y].owner
      /\ \A v \in Slots \ {x, y} : t[v] = w[v]
  BY <1>1 DEF Kept
<1>3. \A v \in Slots : t[v].owner =>
          \/ v = x /\ t[v] = w[y]
          \/ v # x /\ v # y /\ t[v] = w[v]
  BY <1>2
<1>4. \A p \in m.live : \E v \in Slots : t[v].owner /\ t[v].ptr = p
  <2> SUFFICES ASSUME NEW p \in m.live PROVE \E v \in Slots : t[v].owner /\ t[v].ptr = p
    OBVIOUS
  <2>1. PICK v \in Slots : w[v].owner /\ w[v].ptr = p
    BY DEF Kept
  <2>2. CASE v = y
    BY <1>2, <2>1, <2>2
  <2>3. CASE v # y
    BY <1>2, <2>1, <2>3
  <2> QED BY <2>2, <2>3
<1> HIDE DEF t
<1>5. Kept(m, t)
  BY <1>2, <1>3, <1>4 DEF Kept
<1> QED BY <1>5 DEF t

(* str_join frees the parts that own their text, and reads none that is    *)
(* gone, when the rules are kept.                                          *)
LEMMA TakenIsFreed ==
  ASSUME NEW m \in Owners!Memory, NEW a \in Owners!Str(Seq(STRING)), NEW b \in Owners!Str(Seq(STRING)),
         Owners!Readable(m, a), Owners!Readable(m, b),
         a.owner => a.ptr \in m.live /\ b.ptr # a.ptr,
         b.owner => b.ptr \in m.live
  PROVE  Owners!Taken(m, <<a, b>>) = Owners!str_free(Owners!str_free(m, a), b)
<1> DEFINE parts == <<a, b>>
<1>1. Len(parts) = 2 /\ parts[1] = a /\ parts[2] = b
  OBVIOUS
<1>2. 1..2 = {1, 2}
  OBVIOUS
<1>3. Owners!OwnedBy(parts) = (IF a.owner THEN {a.ptr} ELSE {}) \cup (IF b.owner THEN {b.ptr} ELSE {})
  <2> HIDE DEF parts
  <2>1. Owners!OwnedBy(parts) = {parts[k].ptr : k \in {j \in {1, 2} : parts[j].owner}}
    BY <1>1, <1>2 DEF Owners!OwnedBy
  <2>2. ASSUME NEW p
        PROVE  p \in Owners!OwnedBy(parts) <=> \E k \in {1, 2} : parts[k].owner /\ p = parts[k].ptr
    BY <2>1
  <2>3. ASSUME NEW p
        PROVE  p \in Owners!OwnedBy(parts) <=> (a.owner /\ p = a.ptr) \/ (b.owner /\ p = b.ptr)
    BY <1>1, <2>2
  <2> QED BY <2>3
<1>4. ~\E k \in 1..Len(parts) : ~Owners!Readable(m, parts[k])
  <2> HIDE DEF parts
  <2> QED BY <1>1, <1>2
<1>5. ~\E j, k \in 1..Len(parts) : j < k /\ parts[j].owner /\ parts[j].ptr = parts[k].ptr
  <2> HIDE DEF parts
  <2> QED BY <1>1, <1>2
<1>6. m = [live |-> m.live, next |-> m.next, misused |-> m.misused] /\ m.misused \in BOOLEAN
  BY DEF Owners!Memory
<1>7. Owners!Taken(m, parts) = [m EXCEPT !.live = @ \ Owners!OwnedBy(parts), !.misused = @]
  <2> HIDE DEF parts
  <2> QED BY <1>4, <1>5, <1>6 DEF Owners!Taken
<1> HIDE DEF parts
<1>8. Owners!str_free(m, a) = [m EXCEPT !.live = @ \ (IF a.owner THEN {a.ptr} ELSE {})]
  BY <1>6 DEF Owners!str_free
<1>9. b.owner => b.ptr \in Owners!str_free(m, a).live
  BY <1>6, <1>8
<1>10. Owners!str_free(Owners!str_free(m, a), b)
       = [Owners!str_free(m, a) EXCEPT !.live = @ \ (IF b.owner THEN {b.ptr} ELSE {})]
  BY <1>6, <1>8, <1>9 DEF Owners!str_free
<1>11. Owners!Taken(m, parts) = Owners!str_free(Owners!str_free(m, a), b)
  <2> DEFINE ofA == IF a.owner THEN {a.ptr} ELSE {}
             ofB == IF b.owner THEN {b.ptr} ELSE {}
  <2>1. Owners!str_free(m, a) = [live |-> m.live \ ofA, next |-> m.next, misused |-> m.misused]
    BY <1>8 DEF Owners!Memory
  <2>2. Owners!str_free(Owners!str_free(m, a), b)
        = [live |-> (m.live \ ofA) \ ofB, next |-> m.next, misused |-> m.misused]
    <3> DEFINE r == [live |-> m.live \ ofA, next |-> m.next, misused |-> m.misused]
    <3>1. r.live = m.live \ ofA /\ r.next = m.next /\ r.misused = m.misused
      OBVIOUS
    <3>2. Owners!str_free(r, b) = [r EXCEPT !.live = @ \ ofB]
      BY <1>10, <2>1
    <3>3. [r EXCEPT !.live = @ \ ofB]
          = [live |-> r.live \ ofB, next |-> r.next, misused |-> r.misused]
      <4>1. ASSUME NEW q \in Owners!Memory, NEW l
            PROVE  [q EXCEPT !.live = l] = [live |-> l, next |-> q.next, misused |-> q.misused]
        BY DEF Owners!Memory
      <4>2. r \in Owners!Memory
        BY DEF Owners!Memory
      <4> HIDE DEF r
      <4> QED BY <4>1, <4>2
    <3> QED BY <2>1, <3>1, <3>2, <3>3
  <2>3. Owners!Taken(m, parts) = [live |-> m.live \ Owners!OwnedBy(parts), next |-> m.next, misused |-> m.misused]
    BY <1>7 DEF Owners!Memory
  <2>4. m.live \ Owners!OwnedBy(parts) = (m.live \ ofA) \ ofB
    BY <1>3
  <2> QED BY <2>2, <2>3, <2>4
<1> QED BY <1>11 DEF parts
----------------------------------------------------------------------------
(* A variable that may be used names a text that is still allocated.       *)
LEMMA UsableIsReadable ==
  ASSUME Kept(mem, slot), NEW y \in Slots, Owners!Usable(y)
  PROVE  Owners!Readable(mem, slot[y]) /\ Owners!Reads(mem, slot[y]) = mem
<1>1. Owners!Readable(mem, slot[y])
  BY DEF Kept, Owners!Usable, Owners!Owned, Owners!Readable
<1>2. mem = [live |-> mem.live, next |-> mem.next, misused |-> mem.misused]
      /\ mem.misused = FALSE
  BY DEF Kept, Owners!Memory
<1> QED BY <1>1, <1>2 DEF Owners!Reads

(* What is left of a text is a text.                                       *)
LEMMA ShiftedIsString ==
  ASSUME NEW str \in Owners!Str(Seq(STRING)), NEW n \in Nat
  PROVE  Owners!str_shifted(str, n) \in Owners!Str(Seq(STRING)) /\ ~Owners!str_shifted(str, n).owner
<1>1. str.text \in Seq(STRING) /\ str.ptr \in Nat
  BY DEF Owners!Str
<1>2. CASE n >= Len(str.text)
  BY <1>2 DEF Owners!str_shifted, Owners!str_empty, Owners!str_lit, Owners!Str, Owners!NULL
<1>3. CASE ~(n >= Len(str.text))
  <2>1. SubSeq(str.text, n + 1, Len(str.text)) \in Seq(STRING)
    BY <1>1, <1>3, SubSeqProperties
  <2> QED BY <1>1, <1>3, <2>1 DEF Owners!str_shifted, Owners!Str
<1> QED BY <1>2, <1>3

(* Each call keeps who owns what.                                          *)
LEMMA StepKeeps ==
  ASSUME Owners!StringUseAssumption, Kept(mem, slot), Owners!Next
  PROVE  Kept(mem', slot')
<1>1. ASSUME NEW x \in Slots, Owners!Format(x) PROVE Kept(mem', slot')
  <2>1. PICK chars \in StringTexts : Owners!Store(x, Owners!Acquire(mem, chars))
    BY <1>1 DEF Owners!Format, Owners!str_fmt
  <2>2. chars \in Seq(STRING) /\ ~slot[x].owner
    BY <1>1 DEF Owners!StringUseAssumption, Owners!Format, Owners!Free, Owners!Owned
  <2> QED BY <2>1, <2>2, AcquireKeeps DEF Owners!Store
<1>2. ASSUME NEW x \in Slots, Owners!Release(x) PROVE Kept(mem', slot')
  BY <1>2, FreeKeeps DEF Owners!Release, Owners!Given, GivenUp, Owners!Owned
<1>3. ASSUME NEW x \in Slots, NEW y \in Slots, Owners!Refer(x, y) PROVE Kept(mem', slot')
  <2>1. Owners!str_ref(slot[y]) \in Owners!Str(Seq(STRING)) /\ ~Owners!str_ref(slot[y]).owner
    BY RefIsString DEF Kept
  <2> QED BY <1>3, <2>1, ReferenceKeeps DEF Owners!Refer, Owners!Free, Owners!Owned
<1>4. ASSUME NEW x \in Slots, NEW y \in Slots, Owners!Shift(x, y) PROVE Kept(mem', slot')
  <2>1. PICK n \in 0..MaxLength : slot' = [slot EXCEPT ![x] = Owners!str_shifted(slot[y], n)]
    BY <1>4 DEF Owners!Shift
  <2>2. n \in Nat /\ slot[y] \in Owners!Str(Seq(STRING))
    BY DEF Owners!StringUseAssumption, Kept
  <2>3. Owners!str_shifted(slot[y], n) \in Owners!Str(Seq(STRING)) /\ ~Owners!str_shifted(slot[y], n).owner
    BY <2>2, ShiftedIsString
  <2> QED BY <1>4, <2>1, <2>3, ReferenceKeeps DEF Owners!Shift, Owners!Free, Owners!Owned
<1>5. ASSUME NEW x \in Slots, NEW y \in Slots, Owners!Copy(x, y) PROVE Kept(mem', slot')
  <2>1. Owners!str_copy(mem, slot[y]) = Owners!Acquire(mem, slot[y].text)
    BY <1>5, UsableIsReadable DEF Owners!Copy, Owners!str_copy
  <2>2. slot[y].text \in Seq(STRING)
    BY DEF Kept, Owners!Str
  <2> QED BY <1>5, <2>1, <2>2, AcquireKeeps DEF Owners!Copy, Owners!Store, Owners!Free, Owners!Owned
<1>6. ASSUME NEW x \in Slots, NEW y \in Slots, Owners!Move(x, y) PROVE Kept(mem', slot')
  <2>1. ~slot[x].owner /\ x # y
    BY <1>6 DEF Owners!Move, Owners!Free, Owners!Owned
  <2>2. CASE slot[y].owner
    <3>1. mem' = mem /\ slot' = [slot EXCEPT ![x] = slot[y], ![y] = Owners!str_ref(slot[y])]
      BY <1>6, <2>2 DEF Owners!Move, Owners!str_move
    <3> QED BY <2>1, <2>2, <3>1, HandOnKeeps
  <2>3. CASE ~slot[y].owner
    <3> DEFINE new == Owners!Acquire(mem, slot[y].text)
    <3>1. Owners!str_copy(mem, slot[y]) = new
      BY <1>6, UsableIsReadable DEF Owners!Move, Owners!str_copy
    <3>2. mem' = new.mem /\ slot' = [slot EXCEPT ![x] = new.str, ![y] = slot[y]]
      BY <1>6, <2>3, <3>1 DEF Owners!Move, Owners!str_move
    <3> HIDE DEF new
    <3>3. slot' = [slot EXCEPT ![x] = new.str]
      BY <2>1, <3>2 DEF Kept
    <3>4. slot[y].text \in Seq(STRING)
      BY DEF Kept, Owners!Str
    <3>5. Kept(new.mem, [slot EXCEPT ![x] = new.str])
      BY <2>1, <3>4, AcquireKeeps DEF new
    <3> QED BY <3>2, <3>3, <3>5
  <2> QED BY <2>2, <2>3
<1>7. ASSUME NEW x \in Slots, NEW y \in Slots, NEW z \in Slots, Owners!Join(x, y, z)
      PROVE  Kept(mem', slot')
  <2> DEFINE taken == Owners!Taken(mem, <<slot[y], slot[z]>>)
             first == [slot EXCEPT ![y] = GivenUp(slot[y])]
             both  == [first EXCEPT ![z] = GivenUp(first[z])]
  <2>1. PICK sep \in Separators :
            /\ mem' = Owners!str_join(mem, sep, slot[y], slot[z]).mem
            /\ slot' = [slot EXCEPT ![y] = Owners!Given(y), ![z] = Owners!Given(z),
                                    ![x] = Owners!str_join(mem, sep, slot[y], slot[z]).str]
    BY <1>7 DEF Owners!Join
  <2> DEFINE chars   == slot[y].text \o sep \o slot[z].text
             joined == Owners!Acquire(taken, chars)
  <2>2. Owners!str_join(mem, sep, slot[y], slot[z]) = joined
    BY DEF Owners!str_join
  <2>3. /\ Owners!Readable(mem, slot[y]) /\ Owners!Readable(mem, slot[z])
        /\ slot[y].owner => slot[z].ptr # slot[y].ptr
        /\ ~slot[x].owner \/ x \in {y, z}
    BY <1>7, UsableIsReadable DEF Owners!Join, Owners!Owned, Owners!Free
  <2>4. /\ mem \in Owners!Memory /\ slot \in [Slots -> Owners!Str(Seq(STRING))]
        /\ slot[y] \in Owners!Str(Seq(STRING)) /\ slot[z] \in Owners!Str(Seq(STRING))
        /\ slot[y].owner => slot[y].ptr \in mem.live
        /\ slot[z].owner => slot[z].ptr \in mem.live
    BY DEF Kept
  <2>5. taken = Owners!str_free(Owners!str_free(mem, slot[y]), slot[z])
    BY <2>3, <2>4, TakenIsFreed
  <2>6. first[z] = slot[z]
    BY <2>3, <2>4 DEF GivenUp
  <2>7. Kept(taken, both)
    <3>1. Kept(Owners!str_free(mem, slot[y]), first)
      BY FreeKeeps
    <3> HIDE DEF taken, first
    <3>2. Kept(Owners!str_free(Owners!str_free(mem, slot[y]), first[z]), both)
      BY <3>1, FreeKeeps
    <3> QED BY <2>5, <2>6, <3>2
  <2>8. ~both[x].owner
    BY <2>3, <2>4, <2>6 DEF GivenUp, Owners!str_empty, Owners!str_lit
  <2>9. chars \in Seq(STRING)
    <3>1. slot[y].text \in Seq(STRING) /\ slot[z].text \in Seq(STRING) /\ sep \in Seq(STRING)
      <4>1. ASSUME NEW str \in Owners!Str(Seq(STRING)) PROVE str.text \in Seq(STRING)
        BY DEF Owners!Str
      <4> QED BY <2>4, <4>1 DEF Owners!StringUseAssumption
    <3>2. slot[y].text \o sep \in Seq(STRING)
      BY <3>1, ConcatProperties
    <3> QED BY <3>1, <3>2, ConcatProperties
  <2>10. slot' = [both EXCEPT ![x] = joined.str] /\ mem' = joined.mem
    <3> HIDE DEF joined
    <3> QED BY <2>1, <2>2, <2>4, <2>6 DEF Owners!Given, GivenUp, Owners!Owned
  <2> HIDE DEF taken, both, chars
  <2>11. Kept(joined.mem, [both EXCEPT ![x] = joined.str])
    BY <2>7, <2>8, <2>9, AcquireKeeps
  <2> QED BY <2>10, <2>11
<1> QED BY <1>1, <1>2, <1>3, <1>4, <1>5, <1>6, <1>7 DEF Owners!Next

(* Nothing is owned at first.                                              *)
LEMMA InitKept == Owners!Init => Kept(mem, slot)
  BY DEF Owners!Init, Kept, Owners!NewMemory, Owners!Memory, Owners!Str, Owners!str_empty, Owners!str_lit, Owners!NULL

(* Strings that are used by the rules of StringUse, in any number and with *)
(* any texts, are never lost, freed twice or read after they were freed:   *)
(* the owner bit that str_move, str_ref, str_join and str_free set, clear  *)
(* and test in src/core/str.c is enough to keep track of every text.       *)
----------------------------------------------------------------------------
(* A behaviour of the library is one of each of its parts, to which the    *)
(* proofs about a part alone apply.                                        *)
RemovalParts == INSTANCE DelDirProofs

(* The strings of the library are lost, freed twice or read when they are  *)
(* gone in none of its uses (src/core/str.c).                              *)
THEOREM LibraryOwnership == LibrarySpec => []OwnershipKept
<1>1. LibraryInit => Kept(mem, slot)
  BY InitKept DEF LibraryInit
<1>2. Kept(mem, slot) /\ [LibraryNext]_allVars => Kept(mem, slot)'
  <2>1. ASSUME Kept(mem, slot), Owners!Next PROVE Kept(mem, slot)'
    BY <2>1, StepKeeps, LibraryAssumption DEF Kept
  <2>2. ASSUME Kept(mem, slot), UNCHANGED stringVars PROVE Kept(mem, slot)'
    BY <2>2 DEF stringVars, Kept
  <2>3. [LibraryNext]_allVars => Owners!Next \/ UNCHANGED stringVars
    BY DEF LibraryNext, Str2I64, Strings, SlurpFile, Embed, DelDir, allVars
  <2> QED BY <2>1, <2>2, <2>3
<1>3. Kept(mem, slot) => OwnershipKept
  BY KeptIsOwnership DEF OwnershipKept
<1> QED BY <1>1, <1>2, <1>3, PTL DEF LibrarySpec
----------------------------------------------------------------------------
(* slurp_file, that of file.c and the copy of it in embed.c: they differ in*)
(* what they release, and in what a file may contain.                      *)
Gives(T) ==
    \/ File!Open \/ File!Measure \/ File!Malloc \/ File!Read
    \/ /\ step = "end" /\ got' = "ok" /\ step' = "over"
       /\ UNCHANGED <<kind, content, len, text, measured, atRead>>
    \/ /\ step # "over" /\ step' = "over"
       /\ got' \in {"failed to open", "failed to allocate", "failed to read"}
       /\ atRead' \in {atRead, content}
       /\ UNCHANGED <<kind, content, len, text, measured>>
    \/ /\ kind = "regular" /\ step # "over" /\ content' \in T
       /\ UNCHANGED <<kind, fd, len, buf, text, step, got, measured, atRead>>
    \/ UNCHANGED fileVars

(* What is known at each place of the call, and what the text that was read*)
(* has to do with the file at that moment.                                 *)
FileTyped(T) ==
    /\ kind \in File!FileKinds /\ content \in T
    /\ len \in Nat /\ text \in Seq(STRING)
    /\ step \in {"open", "measure", "malloc", "read", "end", "over"}
    /\ got \in {"none", "ok", "failed to open", "failed to allocate", "failed to read"}
    /\ measured \in T /\ atRead \in T
Known ==
    /\ step \in {"open", "measure", "malloc", "read"} => text = <<>>
    /\ step \in {"measure", "malloc", "read", "end"} => kind # "none"
    /\ step # "over" <=> got = "none"
Measured ==
    step \in {"malloc", "read", "end", "over"} /\ got \in {"none", "ok"} =>
        (kind = "regular" => len = Len(measured))
TextRead ==
    step = "end" \/ got = "ok" =>
        /\ kind \in {"regular", "stream"}
        /\ Len(text) = len
        /\ kind = "regular" => len <= Len(atRead) /\ text = SubSeq(atRead, 1, len)
SInv(T) ==
    FileTyped(T) /\ Known /\ Measured /\ TextRead /\ File!TextWasThere /\ File!OnlyFilesHaveText

(* A part from the beginning, and all of it.                               *)
LEMMA PrefixOf ==
  ASSUME NEW t \in Seq(STRING), NEW n \in Nat, n <= Len(t)
  PROVE  /\ SubSeq(t, 1, n) \in Seq(STRING) /\ Len(SubSeq(t, 1, n)) = n
         /\ n = Len(t) => SubSeq(t, 1, n) = t
<1>1. SubSeq(t, 1, n) \in Seq(STRING) /\ Len(SubSeq(t, 1, n)) = n
  OBVIOUS
<1>2. n = Len(t) => SubSeq(t, 1, n) = t
  BY SubSeqFull
<1> QED BY <1>1, <1>2

(* A length of zero leaves no choice.                                      *)
LEMMA NothingBelowZero == \A m, n \in Nat : m <= n /\ n = 0 => m = 0
  OBVIOUS

(* Each step keeps it, the editor's included.                              *)
LEMMA GivesKeeps ==
  ASSUME NEW T, T \subseteq Seq(STRING), DirLength \in Nat, SInv(T), Gives(T)
  PROVE  SInv(T)'
<1> USE DEF SInv, FileTyped, Known, Measured, TextRead,
            File!TextWasThere, File!OnlyFilesHaveText, File!Over
<1>1. CASE File!Open
  BY <1>1 DEF File!Open, File!fileVars
<1>2. CASE File!Measure
  <2>1. File!Length \in Nat /\ (kind = "regular" => File!Length = Len(content))
    <3>1. Len(content) \in Nat /\ DirLength \in Nat
      <4>1. content \in Seq(STRING)
        OBVIOUS
      <4> QED BY <4>1, LenProperties
    <3>2. kind \in {"regular", "dir", "stream"}
      BY <1>2 DEF File!Measure, File!FileKinds
    <3> QED BY <3>1, <3>2 DEF File!Length
  <2> QED BY <1>2, <2>1 DEF File!Measure, File!fileVars
<1>3. CASE File!Malloc
  BY <1>3 DEF File!Malloc, File!fileVars
<1>4. CASE File!Read
  <2>1. /\ kind = "regular" \/ kind = "stream"
        /\ len <= Len(File!Available) /\ len \in Nat
    BY <1>4 DEF File!Read, File!FileKinds
  <2>2. File!Available \in Seq(STRING)
    BY DEF File!Available
  <2>3. text' \in Seq(STRING) /\ Len(text') = len
    BY <1>4, <2>1, <2>2, PrefixOf DEF File!Read
  <2>4. kind # "regular" => text' = <<>>
    <3>1. kind # "regular" => Len(File!Available) = 0
      BY DEF File!Available
    <3>2. kind # "regular" => len = 0
      <4>1. Len(File!Available) \in Nat
        BY <2>2, LenProperties
      <4> QED BY <2>1, <3>1, <4>1, NothingBelowZero
    <3>3. \A t \in Seq(STRING) : Len(t) = 0 => t = <<>>
      BY EmptySeq
    <3> QED BY <2>3, <3>2, <3>3
  <2>5. kind = "regular" => text' = SubSeq(content, 1, len) /\ len <= Len(content)
    BY <1>4, <2>1 DEF File!Read, File!Available
  <2> QED BY <1>4, <2>1, <2>3, <2>4, <2>5 DEF File!Read, File!fileVars
<1>5. CASE /\ step = "end" /\ got' = "ok" /\ step' = "over"
           /\ UNCHANGED <<kind, content, len, text, measured, atRead>>
  <2>1. kind = "regular" /\ Len(atRead) = Len(measured) => text = atRead
    BY <1>5, PrefixOf
  <2> QED BY <1>5, <2>1
<1>6. CASE /\ step # "over" /\ step' = "over"
           /\ got' \in {"failed to open", "failed to allocate", "failed to read"}
           /\ atRead' \in {atRead, content}
           /\ UNCHANGED <<kind, content, len, text, measured>>
  BY <1>6
<1>7. CASE /\ kind = "regular" /\ step # "over" /\ content' \in T
           /\ UNCHANGED <<kind, fd, len, buf, text, step, got, measured, atRead>>
  BY <1>7
<1>8. CASE UNCHANGED fileVars
  BY <1>8 DEF fileVars
<1> QED BY <1>1, <1>2, <1>3, <1>4, <1>5, <1>6, <1>7, <1>8 DEF Gives

(* It holds before the first call.                                         *)
LEMMA GivesStarts ==
  ASSUME NEW T, kind \in File!FileKinds, content \in T, len = 0, text = <<>>,
         step = "open", got = "none", measured = content, atRead = content
  PROVE  SInv(T)
<1>1. <<>> \in Seq(STRING) /\ 0 \in Nat
  OBVIOUS
<1> QED BY <1>1 DEF SInv, FileTyped, Known, Measured, TextRead,
            File!TextWasThere, File!OnlyFilesHaveText, File!Over
----------------------------------------------------------------------------
(* slurp_file of file.c, which closes and frees on each of its ways out.   *)
Held ==
    /\ fd \in BOOLEAN /\ buf \in BOOLEAN
    /\ step = "open" => ~fd /\ ~buf
    /\ step \in {"measure", "malloc"} => ~buf
    /\ step = "end" => (text = <<>> <=> len = 0)
    /\ File!AllReleased
FileInv == used = "slurp_file" => SInv(Contents) /\ Held /\ exit = "none"

LEMMA FileInit == LibraryInit => FileInv
<1> SUFFICES ASSUME LibraryInit, used = "slurp_file" PROVE SInv(Contents) /\ Held /\ exit = "none"
  BY DEF FileInv
<1>1. File!Init /\ exit = "none"
  BY DEF LibraryInit, Tool!InitMain
<1>2. SInv(Contents)
  BY <1>1, GivesStarts DEF File!Init
<1>3. Held
  BY <1>1, Zenon DEF File!Init, Held, File!AllReleased, File!Over
<1> QED BY <1>1, <1>2, <1>3

LEMMA FileHolds ==
  ASSUME SInv(Contents), Held, SInv(Contents)', File!Next \/ UNCHANGED fileVars
  PROVE  Held'
<1> USE DEF Held, File!AllReleased, File!Over
<1>1. CASE File!Open
  BY <1>1 DEF File!Open, File!fileVars
<1>2. CASE File!OpenFails \/ File!MallocFails \/ File!ReadFails
  BY <1>2 DEF File!OpenFails, File!MallocFails, File!ReadFails, File!Fail, File!fileVars
<1>3. CASE File!Measure
  BY <1>3 DEF File!Measure, File!fileVars
<1>4. CASE File!Malloc
  BY <1>4 DEF File!Malloc, File!fileVars
<1>5. CASE File!Read
  <2>1. step' = "end" /\ len' = len /\ fd' = fd /\ buf' = buf
    BY <1>5 DEF File!Read, File!fileVars
  <2>2. text' \in Seq(STRING) /\ Len(text') = len
    BY <2>1 DEF SInv, FileTyped, TextRead
  <2>3. text' = <<>> <=> len = 0
    BY <2>2, EmptySeq
  <2> QED BY <2>1, <2>3
<1>6. CASE File!End
  BY <1>6 DEF File!End, File!fileVars
<1>7. CASE File!Edit
  BY <1>7 DEF File!Edit, File!slurpVars
<1>8. CASE UNCHANGED <<fd, len, buf, text, step, got>>
  BY <1>8
<1>9. UNCHANGED fileVars \/ UNCHANGED File!vars => UNCHANGED <<fd, len, buf, text, step, got>>
  BY DEF fileVars, File!vars, File!slurpVars
<1> QED BY <1>1, <1>2, <1>3, <1>4, <1>5, <1>6, <1>7, <1>8, <1>9 DEF File!Next, File!Slurp

LEMMA FileNext == FileInv /\ [LibraryNext]_allVars => FileInv'
<1> SUFFICES ASSUME FileInv, [LibraryNext]_allVars, used' = "slurp_file"
             PROVE  SInv(Contents)' /\ Held' /\ exit' = "none"
  BY DEF FileInv
<1>1. Contents \subseteq Seq(STRING) /\ DirLength \in Nat
  BY LibraryAssumption DEF File!SlurpAssumption
<1>2. used = "slurp_file" /\ SInv(Contents) /\ Held /\ exit = "none"
  BY DEF FileInv, LibraryNext, Str2I64, Strings, SlurpFile, Embed, DelDir, Uses, allVars
<1>3. (File!Next \/ UNCHANGED fileVars) /\ UNCHANGED toolVars
  BY <1>2 DEF LibraryNext, Str2I64, Strings, SlurpFile, Embed, DelDir, Uses, allVars
<1>4. Gives(Contents)
  BY <1>3 DEF Gives, File!Next, File!vars, File!Over, File!Slurp, File!Edit, File!slurpVars,
     File!fileVars, File!OpenFails, File!MallocFails, File!ReadFails, File!End, File!Fail,
     fileVars
<1>5. SInv(Contents)'
  BY <1>1, <1>2, <1>4, GivesKeeps
<1> QED BY <1>2, <1>3, <1>5, FileHolds DEF toolVars
----------------------------------------------------------------------------
(* The embedding tool: slurp_file beside main, which goes on only when it  *)
(* succeeded, and writes the header before the source.                     *)
Written ==
    /\ at = "input" => exit = "none"
    /\ at \in {"header", "source"} => step = "over" /\ got = "ok" /\ exit = "none"
    /\ at = "source" => header = len
    /\ exit = "success" =>
           /\ at = "end" /\ step = "over" /\ got = "ok"
           /\ header = len /\ source = [len |-> len, text |-> text]
    /\ fd \in BOOLEAN /\ buf \in BOOLEAN

ToolInv == used # "slurp_file" => SInv(InputContents) /\ Written

LEMMA ToolInit == LibraryInit => ToolInv
<1> SUFFICES ASSUME LibraryInit, used # "slurp_file" PROVE SInv(InputContents) /\ Written
  BY DEF ToolInv
<1>1. Tool!Input!Init /\ Tool!InitMain
  BY DEF LibraryInit, Tool!Init
<1>2. SInv(InputContents)
  BY <1>1, GivesStarts DEF Tool!Input!Init, Tool!Input!FileKinds, File!FileKinds
<1>3. Written
  BY <1>1, Zenon DEF Tool!Input!Init, Tool!InitMain, Written
<1> QED BY <1>2, <1>3

(* A step of slurp_file or of the editor.                                  *)
LEMMA InputStep ==
  ASSUME SInv(InputContents), fd \in BOOLEAN, buf \in BOOLEAN, Tool!ReadInput
  PROVE  SInv(InputContents)' /\ fd' \in BOOLEAN /\ buf' \in BOOLEAN
<1>1. InputContents \subseteq Seq(STRING) /\ DirLength \in Nat
  BY LibraryAssumption DEF Tool!EmbedAssumption
<1>2. Gives(InputContents)
  BY DEF Gives, Tool!ReadInput, Tool!Input!Slurp, Tool!Input!Edit, Tool!Input!slurpVars,
     Tool!Input!fileVars, Tool!Input!Open, File!Open, Tool!Input!OpenFails,
     Tool!Input!Measure, File!Measure, Tool!Input!Length, File!Length,
     Tool!Input!Malloc, File!Malloc, Tool!Input!MallocFails, Tool!Input!Read, File!Read,
     Tool!Input!Available, File!Available, Tool!Input!ReadFails, Tool!Input!End,
     Tool!Input!Fail, File!fileVars
<1>3. fd' \in BOOLEAN /\ buf' \in BOOLEAN
  BY DEF Tool!ReadInput, Tool!Input!Slurp, Tool!Input!Edit, Tool!Input!slurpVars,
     Tool!Input!Open, Tool!Input!OpenFails, Tool!Input!Measure, Tool!Input!Malloc,
     Tool!Input!MallocFails, Tool!Input!Read, Tool!Input!ReadFails, Tool!Input!End,
     Tool!Input!Fail
<1> QED BY <1>1, <1>2, <1>3, GivesKeeps

(* main touches what slurp_file left only when that is over, to free the   *)
(* buffer.                                                                 *)
LEMMA MainStep ==
  ASSUME SInv(InputContents), Written, Tool!Main
  PROVE  SInv(InputContents)' /\ Written'
<1>1. SInv(InputContents)'
  <2>1. /\ step = "over" /\ buf' \in {buf, FALSE}
        /\ UNCHANGED <<kind, content, fd, len, text, step, got, measured, atRead>>
    BY DEF Written, Tool!Main, Tool!InputFails, Tool!InputRead, Tool!WriteHeader, Tool!WriteSource,
       Tool!OpenFails, Tool!Frees, Tool!Input!Over, Tool!slurpVars
  <2> QED BY <2>1 DEF SInv, FileTyped, Known, Measured, TextRead, File!TextWasThere,
             File!OnlyFilesHaveText, File!Over
<1>2. CASE Tool!InputFails
  BY <1>1, <1>2 DEF Written, Tool!InputFails, Tool!End, Tool!slurpVars
<1>3. CASE Tool!InputRead
  BY <1>1, <1>3 DEF Written, Tool!InputRead, Tool!Input!Over, Tool!slurpVars
<1>4. CASE Tool!WriteHeader
  BY <1>1, <1>4 DEF Written, Tool!WriteHeader, Tool!slurpVars
<1>5. CASE Tool!WriteSource
  BY <1>1, <1>5 DEF Written, Tool!WriteSource, Tool!Frees, Tool!End
<1>6. CASE Tool!OpenFails
  BY <1>1, <1>6 DEF Written, Tool!OpenFails, Tool!Frees, Tool!End
<1> QED BY <1>1, <1>2, <1>3, <1>4, <1>5, <1>6 DEF Tool!Main

(* The next run of the tool finds the file as it is then.                  *)
LEMMA AgainStep ==
  ASSUME SInv(InputContents), Tool!RunAgain
  PROVE  SInv(InputContents)' /\ Written'
<1>1. /\ kind \in File!FileKinds /\ kind' = kind /\ content' \in InputContents
      /\ fd' = FALSE /\ len' = 0 /\ buf' = FALSE /\ text' = <<>>
      /\ step' = "open" /\ got' = "none" /\ measured' = content' /\ atRead' = content'
      /\ at' = "input" /\ exit' = "none"
  BY DEF Tool!RunAgain, SInv, FileTyped
<1>2. <<>> \in Seq(STRING) /\ 0 \in Nat
  OBVIOUS
<1>4. SInv(InputContents)'
  BY <1>1, <1>2 DEF SInv, FileTyped, Known, Measured, TextRead, File!TextWasThere,
     File!OnlyFilesHaveText, File!Over, File!FileKinds
<1> QED BY <1>1, <1>4 DEF Written

LEMMA ToolNext == ToolInv /\ [LibraryNext]_allVars => ToolInv'
<1> SUFFICES ASSUME ToolInv, [LibraryNext]_allVars, used' # "slurp_file"
             PROVE  SInv(InputContents)' /\ Written'
  BY DEF ToolInv
<1>1. SInv(InputContents) /\ Written
  BY DEF ToolInv, LibraryNext, Str2I64, Strings, SlurpFile, Embed, DelDir, Uses, allVars
<1>2. Tool!Next \/ UNCHANGED <<fileVars, toolVars>>
  BY DEF LibraryNext, Str2I64, Strings, SlurpFile, Embed, DelDir, Uses, allVars
<1>3. CASE Tool!ReadInput
  <2>1. at = "input" /\ UNCHANGED toolVars
    BY <1>3 DEF Tool!ReadInput, Tool!mainVars, toolVars
  <2> QED BY <1>1, <1>3, <2>1, InputStep DEF Written, toolVars
<1>4. CASE Tool!Main
  BY <1>1, <1>4, MainStep
<1>5. CASE Tool!RunAgain
  BY <1>1, <1>5, AgainStep
<1>6. CASE UNCHANGED <<fileVars, toolVars>>
  BY <1>1, <1>6 DEF fileVars, toolVars, Written, SInv, FileTyped, Known,
     Measured, TextRead, File!TextWasThere, File!OnlyFilesHaveText, File!Over, File!FileKinds
<1> QED BY <1>2, <1>3, <1>4, <1>5, <1>6
        DEF Tool!Next, Tool!vars, Tool!slurpVars, Tool!mainVars, fileVars, toolVars
----------------------------------------------------------------------------
(* slurp_file, in file.c and in embed.c, returns a text that the file began*)
(* with when it was read, or an error; file.c releases what it acquired.   *)
THEOREM LibraryFiles == LibrarySpec => []SlurpSound
<1>1. FileInv /\ ToolInv => SlurpSound
  <2>1. SInv(Contents) /\ Held => File!SlurpSound
    BY DEF SInv, Held, FileTyped, File!SlurpSound, File!TypeOK
  <2>2. SInv(InputContents) /\ Written => Tool!Input!SlurpSound
    BY DEF SInv, Written, FileTyped, Tool!Input!SlurpSound, Tool!Input!TypeOK,
       Tool!Input!TextWasThere, File!TextWasThere, Tool!Input!OnlyFilesHaveText,
       File!OnlyFilesHaveText, Tool!Input!Over, File!Over, Tool!Input!FileKinds, File!FileKinds
  <2> QED BY <2>1, <2>2 DEF FileInv, ToolInv, SlurpSound
<1> QED BY <1>1, FileInit, FileNext, ToolInit, ToolNext, PTL DEF LibrarySpec

(* A run of the tool that succeeds leaves a header and a source that agree,*)
(* though the file changes while it is read and an earlier run may have    *)
(* got no further than the header (src/embed/embed.c).                     *)
THEOREM LibraryPairs == LibrarySpec => []PairAgrees
<1>1. FileInv /\ ToolInv => PairAgrees
  <2> SUFFICES ASSUME ToolInv, used # "slurp_file", exit = "success"
               PROVE  /\ header = len /\ source = [len |-> len, text |-> text]
                      /\ Len(text) = len /\ (kind = "regular" => text = SubSeq(atRead, 1, len))
    BY DEF FileInv, PairAgrees, Tool!PairAgrees
  <2> QED BY DEF ToolInv, Written, SInv, TextRead
<1> QED BY <1>1, FileInit, FileNext, ToolInit, ToolNext, PTL DEF LibrarySpec

(* No run of the tool that fails on its input touches the pair, and no     *)
(* source is written whose header was not.                                 *)
THEOREM LibraryPairKept == LibrarySpec => PairKept
<1>1. FileInv /\ ToolInv /\ [LibraryNext]_allVars =>
        [/\ UNCHANGED header \/ (got = "ok" /\ exit' = "none")
         /\ UNCHANGED source \/ (got = "ok" /\ header = source'.len)]_(Tool!vars)
  <2> SUFFICES ASSUME FileInv, ToolInv, [LibraryNext]_allVars
               PROVE  /\ UNCHANGED header \/ (got = "ok" /\ exit' = "none")
                      /\ UNCHANGED source \/ (got = "ok" /\ header = source'.len)
    OBVIOUS
  <2>1. UNCHANGED toolVars \/ (used = "embed" /\ Tool!Next)
    BY DEF LibraryNext, Str2I64, Strings, SlurpFile, Embed, DelDir, Uses, allVars
  <2>2. CASE UNCHANGED toolVars
    BY <2>2 DEF toolVars
  <2>3. CASE used = "embed" /\ Tool!Next
    <3>1. Written
      BY <2>3 DEF ToolInv
    <3>2. CASE Tool!WriteHeader
      BY <3>1, <3>2 DEF Tool!WriteHeader, Written
    <3>3. CASE Tool!WriteSource
      BY <3>1, <3>3 DEF Tool!WriteSource, Written
    <3>4. CASE UNCHANGED <<header, source>>
      BY <3>4
    <3> QED
      BY <2>3, <3>2, <3>3, <3>4
      DEF Tool!Next, Tool!ReadInput, Tool!Main, Tool!InputFails, Tool!InputRead, Tool!OpenFails,
          Tool!RunAgain, Tool!mainVars, Tool!vars
  <2> QED BY <2>1, <2>2, <2>3
<1> QED BY <1>1, FileInit, FileNext, ToolInit, ToolNext, PTL
        DEF LibrarySpec, PairKept, Tool!PairKept
----------------------------------------------------------------------------
(* del_dir is called, or rests. *)
LEMMA RemovalRuns == LibrarySpec => RemovalParts!Spec
<1>1. LibraryInit => RemovalParts!Init
  BY DEF LibraryInit, Removal!Init, RemovalParts!Init
<1>2. Removal!Next => RemovalParts!Next
  BY DEF RemovalParts!Next, Removal!Next, Removal!Call, RemovalParts!Call, Removal!Step, RemovalParts!Step,
         Removal!Over, RemovalParts!Over, Removal!Begun, RemovalParts!Begun, Removal!Returned,
         RemovalParts!Returned, Removal!vars, RemovalParts!vars, Removal!Enter, RemovalParts!Enter,
         Removal!SkipDots, RemovalParts!SkipDots, Removal!EnterChild, RemovalParts!EnterChild,
         Removal!UnlinkChild, RemovalParts!UnlinkChild, Removal!Leave, RemovalParts!Leave,
         Removal!Children, RemovalParts!Children, Removal!Parent, RemovalParts!Parent,
         Removal!DirKinds, RemovalParts!DirKinds, Removal!Dots, RemovalParts!Dots,
         Removal!Running, RemovalParts!Running, Removal!Inner, RemovalParts!Inner,
         Removal!Under, RemovalParts!Under, Removal!Readable, RemovalParts!Readable,
         Removal!Freed, RemovalParts!Freed, Removal!Read, RemovalParts!Read,
         Removal!Misuse, RemovalParts!Misuse, Removal!Resolve, RemovalParts!Resolve,
         Removal!Fails, RemovalParts!Fails, Removal!Remove, RemovalParts!Remove
<1>3. [LibraryNext]_allVars => [RemovalParts!Next]_(RemovalParts!vars)
  BY <1>2 DEF LibraryNext, Str2I64, Strings, SlurpFile, Embed, DelDir, allVars, RemovalParts!vars, dirVars
<1> QED BY <1>1, <1>3, PTL DEF LibrarySpec, RemovalParts!Spec

LEMMA RemovalTrees == RemovalParts!TreesAssumption
BY LibraryAssumption DEF Removal!TreesAssumption, RemovalParts!TreesAssumption,
   Removal!Dots, RemovalParts!Dots, Removal!DirKinds, RemovalParts!DirKinds,
   Removal!FileKinds, RemovalParts!FileKinds

(* Whatever del_dir removes lies in the directory it was called for, and   *)
(* nothing lies in it any more (src/core/dir.c).                           *)
THEOREM LibraryRemovals == LibrarySpec => RemovesOnlyInside
<1>1. RemovalParts!Spec => RemovalParts!RemovesOnlyInside
  BY RemovalTrees, RemovalParts!RemovalStaysInside
<1>2. [\A p \in DOMAIN files \ DOMAIN files' :
         RemovalParts!Within(p, Top) /\ RemovalParts!Children(p) = {}]_(RemovalParts!vars) =>
      [\A p \in DOMAIN files \ DOMAIN files' :
         Removal!Within(p, Top) /\ Removal!Children(p) = {}]_(Removal!vars)
  BY DEF Removal!Within, RemovalParts!Within, Removal!Children, RemovalParts!Children, Removal!vars, RemovalParts!vars,
    Removal!Parent, RemovalParts!Parent
<1> QED BY <1>1, <1>2, RemovalRuns, PTL DEF RemovesOnlyInside, Removal!RemovesOnlyInside, RemovalParts!RemovesOnlyInside

(* When del_dir returns, what is left of the directory is what a system    *)
(* call failed on, or lies in a directory that was not opened; the paths   *)
(* left are those of such directories; and it has used a path that was     *)
(* freed if and only if it was given one with something in it.             *)
THEOREM LibraryRemovalLeaves == LibrarySpec => []RemovalOutcome
<1>1. RemovalParts!Spec => []RemovalParts!RemovalOutcome
  BY RemovalTrees, RemovalParts!RemovalLeaves
<1>2. RemovalParts!RemovalOutcome => RemovalOutcome
  BY DEF RemovalOutcome, Removal!RemovalOutcome, RemovalParts!RemovalOutcome,
    Removal!TypeOK, RemovalParts!TypeOK, Removal!OnlyFailuresStay, RemovalParts!OnlyFailuresStay,
    Removal!MisuseIffOwnedNotEmpty, RemovalParts!MisuseIffOwnedNotEmpty,
    Removal!PathsFreed, RemovalParts!PathsFreed, Removal!BadFrees, RemovalParts!BadFrees,
    Removal!Returned, RemovalParts!Returned, Removal!Begun, RemovalParts!Begun,
    Removal!Within, RemovalParts!Within, Removal!Parent, RemovalParts!Parent,
    Removal!DirKinds, RemovalParts!DirKinds, Removal!FileKinds, RemovalParts!FileKinds,
    Removal!Dots, RemovalParts!Dots
<1> QED BY <1>1, <1>2, RemovalRuns, PTL
=============================================================================
