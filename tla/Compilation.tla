---------------------------- MODULE Compilation ----------------------------
(***************************************************************************)
(* What one run of dragonk promises to whoever starts it, whatever happens *)
(* inside: which file is written, what the exit code says of it, and when  *)
(* a scratch directory may be there.                                       *)
(***************************************************************************)

VARIABLES
    request,   (* what the command line asks for, and the path of the output*)
    output,    (* the output file: its path and what it holds               *)
    scratch,   (* is there a scratch directory?                             *)
    exit,      (* "none", "success", "failure", "crash" or "hang"           *)
    fits       (* does what nasm and ld print of the program fit a pipe?    *)

vars == <<request, output, scratch, exit, fits>>

Asks(what) == request.what = what
Writing    == request.what \in {"assembly", "executable"}
Nothing    == [path |-> <<>>, holds |-> "nothing"]
Result     == [path |-> request.path, holds |-> request.what]
Written    == {Result} \cup (IF Asks("executable")
                             THEN {[path |-> request.path, holds |-> "part"]} ELSE {})
----------------------------------------------------------------------------
Init == output = Nothing /\ scratch = FALSE /\ exit = "none"

MakeScratch ==
    /\ exit = "none" /\ Asks("executable") /\ output = Nothing
    /\ scratch' = TRUE
    /\ UNCHANGED <<request, output, exit, fits>>

(* The file at the path asked for, and no other, is written once, by the   *)
(* compiler or by the linker; the linker may leave a part of it.           *)
Write ==
    /\ exit = "none" /\ Writing /\ output = Nothing
    /\ Asks("executable") => scratch
    /\ output' \in Written
    /\ UNCHANGED <<request, scratch, exit, fits>>

CleanUp ==
    /\ exit = "none" /\ scratch
    /\ scratch' = FALSE
    /\ UNCHANGED <<request, output, exit, fits>>

(* Success means that what was asked for is there, or was printed, and that*)
(* all the tools had to say was heard.                                     *)
Succeed ==
    /\ exit = "none" /\ ~Asks("mistake") /\ (Asks("executable") => fits)
    /\ output = IF Writing THEN Result ELSE Nothing
    /\ exit' = "success"
    /\ UNCHANGED <<request, output, scratch, fits>>

(* Help never fails.  A failure leaves no assembly behind.                 *)
Fail ==
    /\ exit = "none" /\ ~Asks("help")
    /\ output = Nothing \/ Asks("executable")
    /\ exit' = "failure"
    /\ UNCHANGED <<request, output, scratch, fits>>

(* A crash is possible where files are made, before the output is.         *)
Crash ==
    /\ exit = "none" /\ Writing /\ output = Nothing
    /\ exit' = "crash"
    /\ UNCHANGED <<request, output, scratch, fits>>

(* Only a tool that nobody listens to hangs the run, in the middle: the    *)
(* scratch directory stays.                                                *)
Hang ==
    /\ exit = "none" /\ Asks("executable") /\ scratch /\ ~fits
    /\ output = Nothing /\ output' \in {Nothing} \cup Written
    /\ exit' = "hang"
    /\ UNCHANGED <<request, scratch, fits>>

Next == MakeScratch \/ Write \/ CleanUp \/ Succeed \/ Fail \/ Crash \/ Hang

(* A run whose tools can be heard ends, in one of the first three ways.    *)
Spec == Init /\ [][Next]_vars /\ WF_vars(Succeed \/ Fail \/ Crash \/ Hang)
=============================================================================
