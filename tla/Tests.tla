------------------------------- MODULE Tests -------------------------------
(***************************************************************************)
(* The test program of src/tests: get_tests (module TestList) lists the    *)
(* cases, and the suite of execute.c (module TestSuite) tests them, where  *)
(* anything may fail.  Or the run the repository makes: stages 1 to 4 have *)
(* 54 valid cases and 18 invalid ones, and nothing fails.                  *)
(***************************************************************************)
EXTENDS TestList

CONSTANT Limits      (* the limits on descriptors where anything may fail   *)

VARIABLES
    limit, pos, at, open, dragonOut, gccOut, dragonCode, gccCode, passed, failed, skipped

suiteVars == <<limit, pos, at, open, dragonOut, gccOut, dragonCode, gccCode, passed, failed, skipped>>
allVars   == <<vars, suiteVars>>

Few == INSTANCE TestSuite WITH Faults <- TRUE
All == INSTANCE TestSuite WITH Faults <- FALSE

ASSUME SuitesAssumption ==
    /\ Few!SuiteAssumption /\ All!SuiteAssumption
    /\ \A l \in Limits : l \in Nat /\ l >= Few!StandardStreams

(* The cases of the repository. *)
A(isValid) == [isValid |-> isValid, skipOnFailure |-> FALSE]
Stage(valid, invalid) == [n \in 1..valid |-> A(TRUE)] \o [n \in 1..invalid |-> A(FALSE)]
FourStages == Stage(6, 6) \o Stage(7, 4) \o Stage(12, 4) \o Stage(29, 4)
Usual      == 1024                    (* the usual limit on descriptors     *)

(* The walk's own variables are gone when its cases are tested.            *)
Listed  == state = "listed"           (* the cases get_tests found          *)
Shipped == state = "shipped"          (* the cases of the repository        *)
Tested  == Listed \/ Shipped
NoTree  == [path \in {} |-> "dir"]

TestsInit ==
    /\ Few!Init
    /\ \/ Init /\ limit = 0
       \/ /\ cases = FourStages /\ limit = Usual
          /\ files = NoTree /\ unread = {} /\ frames = <<>> /\ isValidDir = FALSE
          /\ live = {} /\ unopened = {} /\ state = "shipped"

List == Step /\ UNCHANGED suiteVars
StartSuite ==
    /\ Returned
    /\ cases' = [n \in 1..Len(cases) |-> [isValid |-> cases[n].isValid,
                                          skipOnFailure |-> cases[n].skipOnFailure]]
    /\ files' = NoTree /\ live' = {} /\ unopened' = {} /\ isValidDir' = FALSE
    /\ state' = "listed"
    /\ limit' \in Limits
    /\ UNCHANGED <<unread, frames, pos, at, open, dragonOut, gccOut,
                   dragonCode, gccCode, passed, failed, skipped>>
Suite ==
    /\ \/ Listed /\ Few!Test
       \/ Shipped /\ All!Test
    /\ UNCHANGED vars
Ended   == state = "exit" \/ (Tested /\ Few!Done)
Blocked == Tested /\ Few!Blocked

TestsNext == List \/ StartSuite \/ Suite \/ ((Ended \/ Blocked) /\ UNCHANGED allVars)

(* One thread, which goes on: all calls return but a process_run whose     *)
(* child floods the pipe, where Block is among the steps it may take.      *)
TestsSpec == TestsInit /\ [][TestsNext]_allVars /\ WF_allVars(TestsNext)
----------------------------------------------------------------------------
(* The list is complete when get_tests returns (TestList).                 *)
GetTestsComplete == ~Tested => ListComplete

(* Only a case of a directory "valid" is expected to compile: the suite    *)
(* calls the others "invalid" tests (TestList).                            *)
InvalidCasesListed == ~Tested => InvalidCasesExpected

(* A verdict is about the programs of its case (TestSuite).                *)
VerdictsSound == Tested => Few!VerdictsSound

(* The pipes that are never closed suffice for the cases there are         *)
(* (TestSuite).                                                            *)
PipesSuffice == Shipped => All!PipesSuffice

(* Whatever fails, short of a crash of run() (module Driver), and when the *)
(* descriptors are used up too, the test program comes to its end, unless  *)
(* a process_run waits for ever for a child that prints more than the pipe *)
(* holds.  The repository's cases, where nothing fails and what is printed *)
(* fits, come to their end.                                                *)
SuiteEnds == <>(Ended \/ Blocked) /\ (Shipped => <>Ended)
=============================================================================
