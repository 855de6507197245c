----------------------------- MODULE SlurpFile -----------------------------
(***************************************************************************)
(* slurp_file of src/src/core/file.c, system call by system call, beside   *)
(* an editor that may change the file between any two of them.  The copy   *)
(* of it in src/src/embed/embed.c makes the same calls and releases        *)
(* nothing.  A definition that stands right before another and is named    *)
(* for what it gets wrong is a seeded defect.                              *)
(***************************************************************************)
EXTENDS Integers, Sequences

CONSTANTS
    Contents,   (* what the editor may put in the file                      *)
    DirLength,  (* the length fstat gives for a directory                   *)
    Releases    (* file.c closes and frees on its ways out, embed.c does not*)

SlurpAssumption ==
    /\ Contents \subseteq Seq(STRING) /\ Contents # {}
    /\ DirLength \in Nat /\ Releases \in BOOLEAN

FileKinds == {"regular", "dir", "stream", "none"}   (* none: no such file   *)

VARIABLES
    kind, content,   (* the file                                            *)
    fd,              (* is the descriptor open?                             *)
    len,             (* what fstat said                                     *)
    buf,             (* is the buffer allocated?                            *)
    text,            (* what read put into the buffer                       *)
    pc,              (* "open", "measure", "malloc", "read", "end", "over"  *)
    result,          (* "none", "ok" or what the message says               *)
    measured, atRead (* history: the content at fstat and at read           *)

fileVars  == <<kind, content>>
slurpVars == <<fd, len, buf, text, pc, result, measured, atRead>>
vars      == <<fileVars, slurpVars>>
----------------------------------------------------------------------------
(* The editor writes in place; the descriptor sees what it does.           *)
Edit ==
    /\ kind = "regular" /\ pc # "over"
    /\ content' \in Contents
    /\ UNCHANGED <<kind, slurpVars>>

Fail(what) ==
    /\ result' = what
    /\ fd' = (fd /\ ~Releases) /\ buf' = (buf /\ ~Releases)
    /\ pc' = "over"
    /\ UNCHANGED <<fileVars, len, text, measured>>

(* platform_fopen *)
Open ==
    /\ pc = "open" /\ kind # "none"
    /\ fd' = TRUE /\ pc' = "measure"
    /\ UNCHANGED <<fileVars, len, buf, text, result, measured, atRead>>
OpenFails == pc = "open" /\ Fail("failed to open") /\ UNCHANGED atRead

(* platform_filelen: fstat gives 0 for a terminal or a pipe.               *)
Length ==
    CASE kind = "regular" -> Len(content) [] kind = "dir" -> DirLength [] kind = "stream" -> 0
Measure ==
    /\ pc = "measure"
    /\ len' = Length /\ measured' = content
    /\ pc' = "malloc"
    /\ UNCHANGED <<fileVars, fd, buf, text, result, atRead>>

Malloc ==
    /\ pc = "malloc"
    /\ buf' = TRUE /\ pc' = "read"
    /\ UNCHANGED <<fileVars, fd, len, text, result, measured, atRead>>
MallocFails == pc = "malloc" /\ Fail("failed to allocate") /\ UNCHANGED atRead

(* platform_fread has to give all of len.  A directory cannot be read, and *)
(* reading may fail anyhow.                                                *)
Available == IF kind = "regular" THEN content ELSE <<>>
ReadUnchecked ==
    /\ pc = "read"
    /\ text' = SubSeq(Available, 1, IF len < Len(Available) THEN len ELSE Len(Available))
    /\ atRead' = content
    /\ pc' = "end"
    /\ UNCHANGED <<fileVars, fd, len, buf, result, measured>>
Read ==
    /\ pc = "read" /\ kind # "dir" /\ len <= Len(Available)
    /\ text' = SubSeq(Available, 1, len)
    /\ atRead' = content
    /\ pc' = "end"
    /\ UNCHANGED <<fileVars, fd, len, buf, result, measured>>
ReadFails == pc = "read" /\ Fail("failed to read") /\ atRead' = content

(* str_acquire frees a buffer for no characters.                           *)
End ==
    /\ pc = "end"
    /\ result' = "ok"
    /\ fd' = (fd /\ ~Releases) /\ buf' = (len # 0 \/ ~Releases)
    /\ pc' = "over"
    /\ UNCHANGED <<fileVars, len, text, measured, atRead>>
----------------------------------------------------------------------------
Init ==
    /\ kind \in FileKinds /\ content \in Contents
    /\ fd = FALSE /\ len = 0 /\ buf = FALSE /\ text = <<>>
    /\ pc = "open" /\ result = "none"
    /\ measured = content /\ atRead = content

Slurp == Open \/ OpenFails \/ Measure \/ Malloc \/ MallocFails \/ Read \/ ReadFails \/ End
Over  == pc = "over"
Next  == Slurp \/ Edit \/ (Over /\ UNCHANGED vars)

Spec == Init /\ [][Next]_vars
----------------------------------------------------------------------------
(* Properties. *)

(* The variables have their types. *)
TypeOK ==
    /\ kind \in FileKinds /\ content \in Contents
    /\ fd \in BOOLEAN /\ buf \in BOOLEAN
    /\ len \in Nat /\ text \in Seq(STRING)
    /\ pc \in {"open", "measure", "malloc", "read", "end", "over"}
    /\ result \in {"none", "ok", "failed to open", "failed to allocate", "failed to read"}
    /\ measured \in Contents /\ atRead \in Contents

(* Every way out closes the descriptor, and leaves the buffer only to the  *)
(* caller of a call that succeeded, unless it is empty.                    *)
AllReleased == Over => ~fd /\ (buf <=> (result = "ok" /\ text # <<>>))

(* What is returned is what the file began with when it was read: all of   *)
(* it, unless it has grown since it was measured.  A file that has shrunk  *)
(* is an error, never a text with characters nobody read.                  *)
TextWasThere ==
    Over /\ result = "ok" =>
        /\ Len(text) = len
        /\ kind = "regular" => /\ text = SubSeq(atRead, 1, len)
                               /\ len = Len(measured)
                               /\ Len(atRead) = Len(measured) => text = atRead

(* Only a file that can be read gives a text; what has no length, such as a*)
(* pipe, gives the empty one, whatever is in it.                           *)
OnlyFilesHaveText ==
    /\ result = "ok" => kind \in {"regular", "stream"}
    /\ kind # "regular" => text = <<>>

(* What slurp_file gives its caller, whatever is done to the file while it *)
(* runs: a text that was there, or an error; and nothing else is kept.     *)
SlurpSound ==
    TypeOK /\ (Releases => AllReleased) /\ TextWasThere /\ OnlyFilesHaveText
=============================================================================
