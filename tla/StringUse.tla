----------------------------- MODULE StringUse -----------------------------
(***************************************************************************)
(* What a user of module Strings has to do so that no text is freed twice, *)
(* read when it is gone, or lost: a variable that owns a text is not       *)
(* overwritten, what was given to str_join is not used again, and a        *)
(* reference is used only while its text has an owner.  The components of  *)
(* the compiler are such users, except where their modules say so.         *)
(***************************************************************************)
EXTENDS Strings

CONSTANTS
    Slots,      (* the variables of type str                                *)
    Texts,      (* the texts that are formatted                             *)
    Separators, (* the texts str_join puts between its parts                *)
    MaxLength,  (* bound on the length of a text                            *)
    MaxAllocations   (* bound on the calls of malloc                        *)

StringUseAssumption ==
    /\ Texts \subseteq Seq(STRING) /\ Separators \subseteq Seq(STRING)
    /\ MaxLength \in Nat /\ MaxAllocations \in Nat

VARIABLES mem, slot

vars == <<mem, slot>>
----------------------------------------------------------------------------
Owned(x)  == slot[x].owner
Free(x)   == ~Owned(x)      (* x may be overwritten                         *)
Usable(x) == slot[x].ptr = NULL \/ \E y \in Slots : Owned(y) /\ slot[y].ptr = slot[x].ptr
MayAllocate(length) == mem.next <= MaxAllocations /\ length <= MaxLength

Store(x, result) == mem' = result.mem /\ slot' = [slot EXCEPT ![x] = result.str]

Format(x) ==
    /\ Free(x)
    /\ \E text \in Texts : MayAllocate(Len(text)) /\ Store(x, str_fmt(mem, text))

Refer(x, y) ==
    /\ Free(x) /\ Usable(y)
    /\ slot' = [slot EXCEPT ![x] = str_ref(slot[y])]
    /\ UNCHANGED mem

Shift(x, y) ==
    /\ Free(x) /\ Usable(y)
    /\ \E n \in 0..MaxLength : slot' = [slot EXCEPT ![x] = str_shifted(slot[y], n)]
    /\ UNCHANGED mem

Copy(x, y) ==
    /\ Free(x) /\ Usable(y)
    /\ MayAllocate(Len(slot[y].text))
    /\ Store(x, str_copy(mem, slot[y]))

Move(x, y) ==
    /\ Free(x) /\ Usable(y) /\ x # y
    /\ MayAllocate(Len(slot[y].text))
    /\ LET moved == str_move(mem, slot[y]) IN
       /\ mem' = moved.mem
       /\ slot' = [slot EXCEPT ![x] = moved.str, ![y] = moved.source]

(* x = str_join(sep, {y, z}): the parts that own their text are given away,*)
(* and a part that is a reference must outlive the part before it.         *)
Given(y) == IF Owned(y) THEN str_empty ELSE slot[y]
Join(x, y, z) ==
    /\ Free(x) \/ x \in {y, z}
    /\ Usable(y) /\ Usable(z)
    /\ Owned(y) => slot[z].ptr # slot[y].ptr
    /\ \E sep \in Separators :
           /\ MayAllocate(Len(slot[y].text) + Len(sep) + Len(slot[z].text))
           /\ LET joined == str_join(mem, sep, slot[y], slot[z]) IN
              /\ mem' = joined.mem
              /\ slot' = [slot EXCEPT ![y] = Given(y), ![z] = Given(z), ![x] = joined.str]

Release(x) ==
    /\ mem' = str_free(mem, slot[x])
    /\ slot' = [slot EXCEPT ![x] = Given(x)]
----------------------------------------------------------------------------
Init == mem = NewMemory /\ slot = [x \in Slots |-> str_empty]

Next ==
    \/ \E x \in Slots : Format(x) \/ Release(x)
    \/ \E x, y \in Slots : Refer(x, y) \/ Shift(x, y) \/ Copy(x, y) \/ Move(x, y)
    \/ \E x, y, z \in Slots : Join(x, y, z)

Spec == Init /\ [][Next]_vars
----------------------------------------------------------------------------
(* Properties. *)

(* The variables have their types; an owner has a text, and never the      *)
(* empty one.                                                              *)
TypeOK ==
    /\ mem \in Memory
    /\ slot \in [Slots -> Str(Seq(STRING))]
    /\ \A x \in Slots : Owned(x) => slot[x].ptr # NULL /\ slot[x].text # <<>>

(* No text has two owners, however it was moved, joined or copied.         *)
OneOwner ==
    \A x, y \in Slots : Owned(x) /\ Owned(y) /\ slot[x].ptr = slot[y].ptr => x = y

(* Every text that is allocated has an owner: nothing leaks.               *)
NothingLost == mem.live = {slot[x].ptr : x \in {y \in Slots : Owned(y)}}

(* Nothing is freed twice, or read after it was freed.                     *)
NeverMisused == ~mem.misused

(* Who keeps the rules of this module is safe: the four above together,    *)
(* none of which is preserved without the others.                          *)
OwnershipKept == TypeOK /\ OneOwner /\ NothingLost /\ NeverMisused
=============================================================================
