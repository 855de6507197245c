------------------------------ MODULE StrToX ------------------------------
(* str2i64 of src/src/core/strtox.c, one action per loop iteration or      *)
(* early return.  Characters are one-character strings; `s` counts from 0  *)
(* and the text is followed by the terminator NUL.                         *)
EXTENDS Integers, Sequences

CONSTANTS
    Texts,       (* the strings considered                                   *)
    Bases,       (* the bases considered, valid or not                       *)
    DigitValue,  (* the value of each letter and digit, of either case       *)
    MaxInt       (* INT64_MAX                                                *)

NUL == "NUL"  (* the terminator *)

ASSUME StrToXAssumption ==
    /\ Texts \subseteq Seq(STRING)
    /\ Bases \subseteq Int
    /\ \A c \in DOMAIN DigitValue : DigitValue[c] \in 0..35
    /\ NUL \notin DOMAIN DigitValue
    /\ MaxInt \in Nat

VARIABLES
    in, s,      (* the argument and the character under the cursor           *)
    given, base,  (* the base asked for, and as resolved by the prefix       *)
    negative, save, i, overflow,
    exact,      (* history: the number the digits read so far denote         *)
    pc, result

vars == <<in, given, s, base, negative, save, i, overflow, exact, pc, result>>

Null   == -1
Blanks == {" ", "\t", "\n", "\r"}

CharAt(k)   == IF k < Len(in) THEN in[k + 1] ELSE NUL
IsDigit(k, b) == CharAt(k) \in DOMAIN DigitValue /\ DigitValue[CharAt(k)] < b

cutoff == MaxInt \div base
cutlim == MaxInt % base

Failure(err)       == [err |-> err, value |-> 0, endptr |-> Null]
NoNumber           == [err |-> "OK", value |-> 0, endptr |-> 0]
Number(value, end) == [err |-> "OK", value |-> value, endptr |-> end]
Return(r)          == pc' = "done" /\ result' = r
----------------------------------------------------------------------------
ValidBase == base = 0 \/ base \in 2..36

CheckBase ==
    /\ pc = "base"
    /\ IF ValidBase THEN pc' = "space" /\ UNCHANGED result
                    ELSE Return(Failure("EINVAL"))
    /\ UNCHANGED <<in, given, s, base, negative, save, i, overflow, exact>>

SkipSpaceToTerminator ==
    /\ pc = "space" /\ CharAt(s) \in Blanks \cup {NUL}
    /\ s' = s + 1
    /\ UNCHANGED <<in, given, base, negative, save, i, overflow, exact, pc, result>>
SkipSpace ==
    /\ pc = "space" /\ CharAt(s) \in Blanks
    /\ s' = s + 1
    /\ UNCHANGED <<in, given, base, negative, save, i, overflow, exact, pc, result>>

OnlySpace ==
    /\ pc = "space" /\ CharAt(s) = NUL
    /\ Return(NoNumber)
    /\ UNCHANGED <<in, given, s, base, negative, save, i, overflow, exact>>

Sign ==
    /\ pc = "space" /\ CharAt(s) \notin Blanks \cup {NUL}
    /\ negative' = (CharAt(s) = "-")
    /\ s' = IF CharAt(s) \in {"-", "+"} THEN s + 1 ELSE s
    /\ pc' = "prefix"
    /\ UNCHANGED <<in, given, base, save, i, overflow, exact, result>>

HexPrefix == base \in {0, 16} /\ CharAt(s) = "0" /\ CharAt(s + 1) \in {"x", "X"}

Prefix ==
    /\ pc = "prefix"
    /\ base' = CASE HexPrefix -> 16
                 [] ~HexPrefix /\ base # 0 -> base
                 [] ~HexPrefix /\ base = 0 -> IF CharAt(s) = "0" THEN 8 ELSE 10
    /\ s' = IF HexPrefix THEN s + 2 ELSE s
    /\ save' = s'
    /\ pc' = "digits"
    /\ UNCHANGED <<in, given, negative, i, overflow, exact, result>>

(* Once a digit does not fit, i stays as it is; a later digit may fit it   *)
(* again, which is why the overflow is remembered apart.                   *)
DoesNotFitUnlessAbove(c) == i > cutoff
DoesNotFit(c) == i > cutoff \/ (i = cutoff /\ c > cutlim)

ReadDigit ==
    /\ pc = "digits" /\ IsDigit(s, base)
    /\ LET c == DigitValue[CharAt(s)] IN
       /\ IF DoesNotFit(c) THEN overflow' = TRUE /\ UNCHANGED i
                           ELSE i' = i * base + c /\ UNCHANGED overflow
       /\ exact' = exact * base + c
    /\ s' = s + 1
    /\ UNCHANGED <<in, given, base, negative, save, pc, result>>

EndDigitsForgetsOverflow ==
    /\ pc = "digits" /\ ~IsDigit(s, base)
    /\ IF s = save THEN Return(NoNumber) ELSE Return(Number(IF negative THEN -i ELSE i, s))
    /\ UNCHANGED <<in, given, s, base, negative, save, i, overflow, exact>>
EndDigits ==
    /\ pc = "digits" /\ ~IsDigit(s, base)
    /\ CASE s = save -> Return(NoNumber)
         [] s # save /\ overflow -> Return(Failure("ERANGE"))
         [] s # save /\ ~overflow -> Return(Number(IF negative THEN -i ELSE i, s))
    /\ UNCHANGED <<in, given, s, base, negative, save, i, overflow, exact>>
----------------------------------------------------------------------------
Init ==
    /\ in \in Texts /\ given \in Bases /\ base = given
    /\ s = 0 /\ save = 0 /\ i = 0 /\ exact = 0
    /\ negative = FALSE /\ overflow = FALSE
    /\ pc = "base" /\ result = Failure("none")

Returned == pc = "done" /\ UNCHANGED vars

Next ==
    \/ CheckBase \/ SkipSpace \/ OnlySpace \/ Sign \/ Prefix
    \/ ReadDigit \/ EndDigits \/ Returned

Spec == Init /\ [][Next]_vars
----------------------------------------------------------------------------
(* Properties. *)

(* The variables have their types; s stays on the text or its terminator,  *)
(* so no character after the terminator is read.                           *)
TypeOK ==
    /\ in \in Seq(STRING)
    /\ s \in 0..Len(in) /\ save \in 0..s
    /\ base \in Int /\ (pc \in {"space", "prefix"} => ValidBase)
    /\ pc = "digits" => base \in 2..36
    /\ negative \in BOOLEAN /\ overflow \in BOOLEAN
    /\ i \in Nat /\ exact \in Nat
    /\ pc \in {"base", "space", "prefix", "digits", "done"}

(* The accumulator never leaves int64_t, whatever digits follow, and the   *)
(* flag says exactly whether it still is the number read.                  *)
AccumulatorExact ==
    /\ i <= MaxInt
    /\ overflow <=> exact > MaxInt
    /\ ~overflow => i = exact

(* The value of a text, read off in one piece: spaces, sign, prefix and    *)
(* the longest run of digits of the base, in unbounded arithmetic.         *)
SpacesEnd ==
    CHOOSE k \in 0..Len(in) : CharAt(k) \notin Blanks /\ \A j \in 0..(k - 1) : CharAt(j) \in Blanks
DigitsEnd(a, radix) ==
    CHOOSE k \in a..Len(in) : ~IsDigit(k, radix) /\ \A j \in a..(k - 1) : IsDigit(j, radix)
Horner(a, b, radix) ==
    LET v[k \in a..b] == IF k = a THEN 0 ELSE v[k - 1] * radix + DigitValue[in[k]]
    IN  v[b]
NumberAt == IF CharAt(SpacesEnd) \in {"-", "+"} THEN SpacesEnd + 1 ELSE SpacesEnd
IsHex    == given \in {0, 16} /\ CharAt(NumberAt) = "0" /\ CharAt(NumberAt + 1) \in {"x", "X"}
DigitsAt == IF IsHex THEN NumberAt + 2 ELSE NumberAt
Radix    == CASE IsHex -> 16
              [] ~IsHex /\ given # 0 -> given
              [] ~IsHex /\ given = 0 -> IF CharAt(NumberAt) = "0" THEN 8 ELSE 10
Reference ==
    LET end   == DigitsEnd(DigitsAt, Radix)
        value == Horner(DigitsAt, end, Radix)
    IN  IF given # 0 /\ given \notin 2..36 THEN Failure("EINVAL")
        ELSE IF DigitsAt = end THEN NoNumber
        ELSE IF value > MaxInt THEN Failure("ERANGE")
        ELSE Number(IF CharAt(SpacesEnd) = "-" THEN -value ELSE value, end)

(* What is returned is what the definition says of the text and the base.  *)
ResultCorrect == pc = "done" => result = Reference
=============================================================================
