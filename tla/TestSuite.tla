----------------------------- MODULE TestSuite -----------------------------
(***************************************************************************)
(* The suite of src/tests/execute.c: each case is compiled with run(), and *)
(* its program is run beside the one gcc makes of it.  A file in the       *)
(* working directory is the number of the case it was made for; of the     *)
(* descriptors only their number matters.  A definition that stands right  *)
(* before another and is named for what it gets wrong is a seeded defect.  *)
(***************************************************************************)
EXTENDS Integers, Sequences

CONSTANT
    Faults      (* FALSE: no system call fails, gcc accepts every case, and *)
                (* what a child prints fits the pipe                        *)

SuiteAssumption == Faults \in BOOLEAN

VARIABLES
    cases,      (* what get_tests returned; nobody changes it               *)
    limit,      (* descriptors the program may hold (RLIMIT_NOFILE): as is  *)
    pos,        (* the case that is tested, from 1                          *)
    at,         (* what is done next                                        *)
    open,       (* the descriptors open                                     *)
    dragonOut, gccOut,      (* the case each file was made for, 0: no file  *)
    dragonCode, gccCode,    (* the case whose program exited, and its code  *)
    passed, failed, skipped (* TestState                                    *)

counters == <<passed, failed, skipped>>
files    == <<dragonOut, gccOut>>
codes    == <<dragonCode, gccCode>>
vars     == <<cases, limit, pos, at, open, files, codes, counters>>
----------------------------------------------------------------------------
Case   == cases[pos]
NoFile == 0
NoCode == [of |-> 0, code |-> 0]
Codes  == {0, 1}

(* process_run (module Process) has up to six descriptors open and leaves  *)
(* Destroyed of them open when the child was destroyed, Abandoned when it  *)
(* was not, and one of NotStarted when it fails: that is a fault, or for   *)
(* lack of descriptors.                                                    *)
Peak          == 6
DestroyedOpen == 4
Destroyed     == 2
Abandoned     == 3
NotStarted    == {0, 2, 3}
Room(n)       == open + n <= limit
Runs          == Room(Peak) /\ open' = open + Destroyed
CannotRun     == (Faults \/ ~Room(Peak)) /\ \E leak \in NotStarted : Room(leak) /\ open' = open + leak

Verdict(counter) ==
    /\ passed'  = passed + IF counter = "passed" THEN 1 ELSE 0
    /\ failed'  = failed + IF counter = "failed" THEN 1 ELSE 0
    /\ skipped' = skipped + IF counter = "skipped" THEN 1 ELSE 0
    /\ pos' = pos + 1 /\ at' = "pipes"
Go(step) == at' = step /\ UNCHANGED <<pos, counters>>

(* Two pipes; the first stays open when the second cannot be made.         *)
PipesRetried ==
    /\ at = "pipes" /\ pos <= Len(cases)
    /\ IF Room(4) THEN open' = open + 4 /\ Go("compile")
                  ELSE UNCHANGED <<open, at, pos, counters>>
    /\ UNCHANGED <<files, codes>>
Pipes ==
    /\ at = "pipes" /\ pos <= Len(cases)
    /\ IF Room(4) THEN open' = open + 4 /\ Go("compile")
                  ELSE /\ open' = open + IF Room(2) THEN 2 ELSE 0
                       /\ Verdict("failed")
    /\ UNCHANGED <<files, codes>>

(* run(): the case is rejected, or nasm or ld fails, or dragon.out is made.*)
(* The two write ends are closed, the read ends never are.                 *)
Reject ==
    /\ at = "compile" /\ (Faults \/ ~Case.isValid)
    /\ open' = open - 2
    /\ Go("res1")
    /\ UNCHANGED <<files, codes>>
NasmFails ==
    /\ at = "compile" /\ (Faults \/ ~Room(Peak))
    /\ \E leak \in NotStarted \cup {Abandoned} : Room(leak) /\ open' = open - 2 + leak
    /\ Go("res1")
    /\ UNCHANGED <<files, codes>>
LdFails ==
    /\ at = "compile" /\ Room(Peak) /\ (Faults \/ ~Room(Destroyed + Peak))
    /\ \E leak \in NotStarted \cup {Abandoned} :
           Room(Destroyed + leak) /\ open' = open - 2 + Destroyed + leak
    /\ dragonOut' \in {dragonOut, pos}
    /\ Go("res1")
    /\ UNCHANGED <<gccOut, codes>>
Compile ==
    /\ at = "compile" /\ Room(Destroyed + Peak)
    /\ open' = open - 2 + 2 * Destroyed
    /\ dragonOut' = pos
    /\ Go("res0")
    /\ UNCHANGED <<gccOut, codes>>

JudgeFailure ==
    /\ at = "res1"
    /\ dragonOut' = IF Case.isValid THEN NoFile ELSE dragonOut
    /\ Verdict(IF ~Case.isValid THEN "passed" ELSE IF Case.skipOnFailure THEN "skipped" ELSE "failed")
    /\ UNCHANGED <<open, gccOut, codes>>
JudgeSuccess ==
    /\ at = "res0"
    /\ IF Case.isValid THEN Go("dragon.out") /\ UNCHANGED dragonOut
                       ELSE Verdict("failed") /\ dragonOut' = NoFile
    /\ UNCHANGED <<open, gccOut, codes>>

RunDragonOut ==
    /\ at = "dragon.out"
    /\ \/ /\ \E code \in Codes : dragonCode' = [of |-> dragonOut, code |-> code]
          /\ Runs
          /\ Go("gcc")
       \/ /\ CannotRun
          /\ Verdict("failed") /\ UNCHANGED dragonCode
    /\ dragonOut' = NoFile
    /\ UNCHANGED <<gccOut, gccCode>>

(* gcc that ran may have failed: its exit code is not looked at, and there *)
(* is no new gcc.out.                                                      *)
RunGcc ==
    /\ at = "gcc"
    /\ \/ gccOut' = pos /\ Runs /\ Go("gcc.out") /\ UNCHANGED dragonOut
       \/ Faults /\ UNCHANGED <<files>> /\ Runs /\ Go("gcc.out")
       \/ /\ CannotRun /\ gccOut' = NoFile /\ dragonOut' = NoFile
          /\ Verdict("failed")
    /\ UNCHANGED codes

RunGccOutKeepsFile ==
    /\ at = "gcc.out"
    /\ \/ /\ gccOut # NoFile
          /\ \E code \in Codes : gccCode' = [of |-> gccOut, code |-> code]
          /\ Runs
          /\ Go("compare") /\ UNCHANGED gccOut
       \/ /\ CannotRun
          /\ Verdict("failed") /\ gccOut' = NoFile /\ UNCHANGED gccCode
    /\ UNCHANGED <<dragonOut, dragonCode>>
RunGccOut ==
    /\ at = "gcc.out"
    /\ \/ /\ gccOut # NoFile
          /\ \E code \in Codes : gccCode' = [of |-> gccOut, code |-> code]
          /\ Runs
          /\ Go("compare")
       \/ /\ CannotRun
          /\ Verdict("failed") /\ UNCHANGED gccCode
    /\ gccOut' = NoFile
    /\ UNCHANGED <<dragonOut, dragonCode>>

(* A child that prints more than the pipe holds is waited for before the   *)
(* pipe is read (module Process): unless somebody kills it, process_run    *)
(* does not return, here or in run(), and holds what it leaves of a child  *)
(* that is not destroyed.  In run() it is the call for nasm, or for ld.    *)
(* dragon.out is not among these children: it prints nothing.              *)
Block ==
    /\ Faults /\ at \in {"compile", "gcc", "gcc.out"}
    /\ at = "gcc.out" => gccOut # NoFile
    /\ \E before \in {0} \cup (IF at = "compile" THEN {Destroyed} ELSE {}) :
           Room(before + Peak) /\ open' = open + before + Abandoned
    /\ Go("blocked")
    /\ UNCHANGED <<files, codes>>

Compare ==
    /\ at = "compare"
    /\ Verdict(IF dragonCode.code = gccCode.code THEN "passed" ELSE "failed")
    /\ UNCHANGED <<open, files, codes>>
----------------------------------------------------------------------------
StandardStreams == 3
Init ==
    /\ pos = 1 /\ at = "pipes" /\ open = StandardStreams
    /\ dragonOut = NoFile /\ gccOut = NoFile
    /\ dragonCode = NoCode /\ gccCode = NoCode
    /\ passed = 0 /\ failed = 0 /\ skipped = 0

Run     == Reject \/ NasmFails \/ LdFails \/ Compile
Done    == at = "pipes" /\ pos > Len(cases)
Blocked == at = "blocked"
Test ==
    /\ \/ Pipes \/ Run \/ JudgeFailure \/ JudgeSuccess
       \/ RunDragonOut \/ RunGcc \/ RunGccOut \/ Block \/ Compare
    /\ UNCHANGED <<cases, limit>>
----------------------------------------------------------------------------
(* Properties. *)

(* The variables have their types, and each case has one verdict.          *)
TypeOK ==
    /\ pos \in 1..(Len(cases) + 1)
    /\ at \in {"pipes", "compile", "res0", "res1", "dragon.out", "gcc", "gcc.out", "compare", "blocked"}
    /\ open \in 0..limit
    /\ dragonOut \in 0..pos /\ gccOut \in 0..pos
    /\ dragonCode \in [of : 0..pos, code : Codes] /\ gccCode \in [of : 0..pos, code : Codes]
    /\ passed + failed + skipped = pos - 1

(* The exit codes compared are those of the programs of the same case, not *)
(* of one an earlier case left in the working directory.                   *)
ComparesOwnPrograms == at = "compare" => dragonCode.of = pos /\ gccCode.of = pos

(* A case leaves no program behind, unless ld failed on one that should not*)
(* have come so far.                                                       *)
DirectoryClean ==
    at = "pipes" =>
        /\ gccOut = NoFile
        /\ dragonOut # NoFile => ~cases[dragonOut].isValid

(* Where no call fails and every case is compiled as it should be, the     *)
(* pipes that are never closed do not use up the descriptors: whatever is  *)
(* run next has all it needs.                                              *)
PipesSuffice == failed = 0 => Room(Peak) \/ pos > Len(cases)

(* Each case has one verdict, about its own two programs, and the next one *)
(* finds the working directory as it should.                               *)
VerdictsSound == TypeOK /\ ComparesOwnPrograms /\ DirectoryClean
=============================================================================
