------------------------------- MODULE Embed -------------------------------
(***************************************************************************)
(* main of src/src/embed/embed.c: the build turns a file into a C array, a *)
(* header that declares it and a source that defines it.  The build runs   *)
(* the tool again when the file changed; what an earlier run wrote is      *)
(* still there.  A definition that stands right before another and is named*)
(* for what it gets wrong is a seeded defect.                              *)
(***************************************************************************)
EXTENDS Integers, Sequences

CONSTANTS
    Contents,   (* what the file may contain                                *)
    DirLength,  (* the length fstat gives for a directory                   *)
    MaxRuns     (* bound on the runs of the tool                            *)

EmbedAssumption ==
    /\ Contents \subseteq Seq(STRING) /\ Contents # {}
    /\ DirLength \in Nat
    /\ MaxRuns \in Nat \ {0}

VARIABLES
    kind, content, fd, len, buf, text, pc, result, measured, atRead,
                    (* slurp_file's                                         *)
    header,         (* the length the header declares                       *)
    source,         (* the length and the characters the source defines     *)
    at,             (* "input", "header", "source" or "end"                 *)
    exit,           (* "none", "success", "failure" or "crash"              *)
    runs

slurpVars == <<kind, content, fd, len, buf, text, pc, result, measured, atRead>>
mainVars  == <<header, source, at, exit, runs>>
vars      == <<slurpVars, mainVars>>

Input == INSTANCE SlurpFile WITH Releases <- FALSE

Nowhere == -1
Absent  == [len |-> Nowhere, text |-> <<>>]
----------------------------------------------------------------------------
ReadInput ==
    /\ at = "input"
    /\ Input!Slurp \/ Input!Edit
    /\ UNCHANGED mainVars

End(how) == at' = "end" /\ exit' = how

(* str_free(result.value) frees the buffer.                                *)
Frees == buf' = FALSE /\ UNCHANGED <<kind, content, fd, len, text, pc, result, measured, atRead>>

(* str_free(result.error) passes a string literal to free, which may end   *)
(* the program before it returns 1.                                        *)
InputFails ==
    /\ at = "input" /\ Input!Over /\ result # "ok"
    /\ End("failure") \/ End("crash")
    /\ UNCHANGED <<slurpVars, header, source, runs>>

InputReadOrNot ==
    /\ at = "input" /\ Input!Over
    /\ at' = "header"
    /\ UNCHANGED <<slurpVars, header, source, exit, runs>>
InputRead ==
    /\ at = "input" /\ Input!Over /\ result = "ok"
    /\ at' = "header"
    /\ UNCHANGED <<slurpVars, header, source, exit, runs>>

WriteHeader ==
    /\ at = "header"
    /\ header' = len
    /\ at' = "source"
    /\ UNCHANGED <<slurpVars, source, exit, runs>>

WriteSource ==
    /\ at = "source"
    /\ source' = [len |-> len, text |-> text]
    /\ Frees
    /\ End("success")
    /\ UNCHANGED <<header, runs>>

(* fopen fails: the file that should be written stays as it was.           *)
OpenFailsUnnoticed ==
    /\ at \in {"header", "source"}
    /\ Frees
    /\ End(IF at = "source" THEN "success" ELSE "failure")
    /\ UNCHANGED <<header, source, runs>>
OpenFails ==
    /\ at \in {"header", "source"}
    /\ Frees
    /\ End("failure")
    /\ UNCHANGED <<header, source, runs>>

(* The build runs the tool again, on whatever the file contains then.      *)
RunAgain ==
    /\ at = "end" /\ runs < MaxRuns
    /\ content' \in Contents /\ UNCHANGED kind
    /\ fd' = FALSE /\ len' = 0 /\ buf' = FALSE /\ text' = <<>>
    /\ pc' = "open" /\ result' = "none"
    /\ measured' = content' /\ atRead' = content'
    /\ at' = "input" /\ exit' = "none" /\ runs' = runs + 1
    /\ UNCHANGED <<header, source>>
----------------------------------------------------------------------------
InitMain ==
    /\ header = Nowhere /\ source = Absent
    /\ at = "input" /\ exit = "none" /\ runs = 1
Init == Input!Init /\ InitMain

Main == InputFails \/ InputRead \/ WriteHeader \/ WriteSource \/ OpenFails
Next ==
    \/ ReadInput \/ Main \/ RunAgain
    \/ at = "end" /\ runs = MaxRuns /\ UNCHANGED vars

Spec == Init /\ [][Next]_vars
----------------------------------------------------------------------------
(* Properties. *)

(* The variables have their types. *)
TypeOK ==
    /\ Input!TypeOK
    /\ header \in Nat \cup {Nowhere}
    /\ source \in [len : Nat \cup {Nowhere}, text : Seq(STRING)]
    /\ at \in {"input", "header", "source", "end"}
    /\ exit \in {"none", "success", "failure", "crash"}
    /\ runs \in 1..MaxRuns

(* A run that succeeds leaves a header and a source that agree on the      *)
(* length, which is that of the characters, though the file changed while  *)
(* it was read or an earlier run got no further than the header.           *)
PairAgrees ==
    exit = "success" =>
        /\ header = len /\ source = [len |-> len, text |-> text]
        /\ Len(text) = len /\ (kind = "regular" => text = SubSeq(atRead, 1, len))

(* What an earlier run wrote is only replaced by what was read to the end: *)
(* a run that fails on its input, or crashes, leaves the pair as it was,   *)
(* and no source is written whose header was not.                          *)
PairKept ==
    [][/\ UNCHANGED header \/ (result = "ok" /\ exit' = "none")
       /\ UNCHANGED source \/ (result = "ok" /\ header = source'.len)]_vars
=============================================================================
