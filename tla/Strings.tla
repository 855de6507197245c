------------------------------ MODULE Strings ------------------------------
(***************************************************************************)
(* The strings of src/src/core/str.c: a str has a pointer, a length and a  *)
(* bit that says whether it owns the text.  A text is a sequence and       *)
(* travels with the str; `mem` is what malloc knows: the texts allocated   *)
(* and not freed, the next pointer, and whether memory was ever freed or   *)
(* read that was not allocated.  An operation that allocates returns the   *)
(* memory after it and its result.  A definition that stands right before  *)
(* another and is named for what it gets wrong is a seeded defect.         *)
(***************************************************************************)
EXTENDS Integers, Sequences

NULL == 0       (* the pointer of the empty string, and of literals, which  *)
                (* nobody frees                                             *)
Str(Texts) == [ptr : Nat, owner : BOOLEAN, text : Texts]
Memory     == [live : SUBSET Nat, next : Nat \ {NULL}, misused : BOOLEAN]
NewMemory  == [live |-> {}, next |-> 1, misused |-> FALSE]

str_lit(text) == [ptr |-> NULL, owner |-> FALSE, text |-> text]
str_empty     == str_lit(<<>>)
str_ref(s)    == [s EXCEPT !.owner = FALSE]
str_shifted(s, n) ==
    IF n >= Len(s.text) THEN str_empty
    ELSE [ptr |-> s.ptr, owner |-> FALSE, text |-> SubSeq(s.text, n + 1, Len(s.text))]

(* The characters of s may be read.                                        *)
Readable(mem, s) == s.ptr = NULL \/ s.ptr \in mem.live
Reads(mem, s)    == [mem EXCEPT !.misused = @ \/ ~Readable(mem, s)]

str_free(mem, s) ==
    IF s.owner
    THEN [mem EXCEPT !.live = @ \ {s.ptr}, !.misused = @ \/ s.ptr \notin mem.live]
    ELSE mem

(* malloc and str_acquire: a text of length 0 is freed again.              *)
Acquire(mem, text) ==
    IF text = <<>> THEN [mem |-> mem, str |-> str_empty]
    ELSE [mem |-> [mem EXCEPT !.live = @ \cup {mem.next}, !.next = @ + 1],
          str |-> [ptr |-> mem.next, owner |-> TRUE, text |-> text]]

str_fmt(mem, text) == Acquire(mem, text)
str_copy(mem, s)   == Acquire(Reads(mem, s), s.text)

(* str_move(&s): an owner hands its text on and becomes a reference to it; *)
(* a reference is copied.                                                  *)
str_move(mem, s) ==
    IF s.owner THEN [mem |-> mem, str |-> s, source |-> str_ref(s)]
    ELSE LET new == str_copy(mem, s)
         IN  [mem |-> new.mem, str |-> new.str, source |-> s]

(* str_join: each part is read, and then freed if it owns its text, before *)
(* the next one is read.  The code joins two parts, or three without sep.  *)
OwnedButLast(parts) == {parts[k].ptr : k \in {j \in 1..(Len(parts) - 1) : parts[j].owner}}
OwnedBy(parts)      == {parts[k].ptr : k \in {j \in 1..Len(parts) : parts[j].owner}}
Taken(mem, parts) ==
    [mem EXCEPT
        !.live = @ \ OwnedBy(parts),
        !.misused =
            \/ @
            \/ \E k \in 1..Len(parts) : ~Readable(mem, parts[k])
            \/ \E j, k \in 1..Len(parts) :
                   j < k /\ parts[j].owner /\ parts[j].ptr = parts[k].ptr]

str_join(mem, sep, a, b) ==
    Acquire(Taken(mem, <<a, b>>), a.text \o sep \o b.text)
str_cat(mem, a, b)     == str_join(mem, <<>>, a, b)
str_cat3(mem, a, b, c) ==
    Acquire(Taken(mem, <<a, b, c>>), a.text \o b.text \o c.text)
path_join(mem, a, b)   == str_join(mem, <<"/">>, a, b)
=============================================================================
