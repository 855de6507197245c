------------------------------ MODULE TestList ------------------------------
(***************************************************************************)
(* get_tests and walk_stage_dir of src/tests/list.c: the test cases found  *)
(* in a tree of files, whose directories readdir lists in any order, and   *)
(* the paths that are allocated.  A definition that stands right before    *)
(* another and is named for what it gets wrong is a seeded defect.         *)
(***************************************************************************)
EXTENDS Integers, Sequences, FiniteSets

CONSTANTS
    Trees,      (* the trees below tests/cases: of each path the d_type,    *)
                (* "dir", "file" or "other"                                 *)
    StageOf,    (* the number str2i64 reads after "stage", for the names it *)
                (* reads one of                                             *)
    CNames, SkipNames,   (* the names that end in ".c", that begin with     *)
                         (* "skip_on_failure_"                              *)
    maxStage    (* IMPLEMENTED_STAGES                                       *)

Parent(path) == SubSeq(path, 1, Len(path) - 1)
NameOf(path) == path[Len(path)]
ASSUME TreesAssumption ==
    /\ maxStage \in Nat /\ CNames \cup SkipNames \subseteq STRING
    /\ \A name \in DOMAIN StageOf : StageOf[name] \in Int
    /\ "valid" \notin DOMAIN StageOf
    /\ \A tree \in Trees : \A path \in DOMAIN tree :
           /\ path \in Seq(STRING) /\ path # <<>>
           /\ tree[path] \in {"dir", "file", "other"}
           /\ \A k \in 1..(Len(path) - 1) :
                  SubSeq(path, 1, k) \in DOMAIN tree /\ tree[SubSeq(path, 1, k)] = "dir"

VARIABLES
    files,      (* the tree; nobody changes it                              *)
    unread,     (* the entries of tests/cases that readdir has not returned *)
    frames,     (* the calls of walk_stage_dir that run, innermost last     *)
    isValidDir, (* TestDirInfo of the stage that is walked                  *)
    cases,      (* the test cases found                                     *)
    live,       (* the paths whose text is allocated                        *)
    unopened,   (* history: the directories opendir failed on               *)
    state       (* "start", "walking", "exit" (1) or "returned"             *)

vars == <<files, unread, frames, isValidDir, cases, live, unopened, state>>
----------------------------------------------------------------------------
Children(dir) == {path \in DOMAIN files : Len(path) > 0 /\ Parent(path) = dir}
IsDir(path)   == files[path] = "dir"
Inner         == frames[Len(frames)]
Under         == SubSeq(frames, 1, Len(frames) - 1)
Walking       == state = "walking" /\ frames # <<>>
InTop         == state = "walking" /\ frames = <<>>

(* stage.value is signed and maxStage is not: a negative number is as large*)
(* as can be.                                                              *)
Selected(path) ==
    /\ IsDir(path) /\ NameOf(path) \in DOMAIN StageOf
    /\ StageOf[NameOf(path)] \in 0..maxStage

(* A call of walk_stage_dir for a path that the caller owns.               *)
Enter(path, stack) ==
    \/ /\ frames' = Append(stack, [dir |-> path, unread |-> Children(path)])
       /\ live' = live \cup {path}
       /\ UNCHANGED unopened
    \/ /\ frames' = stack
       /\ unopened' = unopened \cup {path}
       /\ UNCHANGED live

OpenTop ==
    /\ state = "start"
    /\ unread' = Children(<<>>)
    /\ state' = "walking"
    /\ UNCHANGED <<files, frames, isValidDir, cases, live, unopened>>
OpenTopFails ==
    /\ state = "start"
    /\ state' = "exit"
    /\ UNCHANGED <<files, unread, frames, isValidDir, cases, live, unopened>>

SkipEntry ==
    /\ InTop
    /\ \E path \in unread : ~Selected(path) /\ unread' = unread \ {path}
    /\ UNCHANGED <<files, frames, isValidDir, cases, live, unopened, state>>

EnterStageKeepsInfo ==
    /\ InTop
    /\ \E path \in unread : /\ Selected(path)
                            /\ unread' = unread \ {path}
                            /\ Enter(path, <<>>)
    /\ UNCHANGED <<files, isValidDir, cases, state>>
EnterStage ==
    /\ InTop
    /\ \E path \in unread : /\ Selected(path)
                            /\ unread' = unread \ {path}
                            /\ Enter(path, <<>>)
    /\ isValidDir' = FALSE
    /\ UNCHANGED <<files, cases, state>>

(* One turn of the loop of walk_stage_dir.                                 *)
Rest(path) == [frames EXCEPT ![Len(frames)].unread = @ \ {path}]

EnterDir ==
    /\ Walking
    /\ \E path \in Inner.unread :
           /\ IsDir(path)
           /\ isValidDir' = (isValidDir \/ NameOf(path) = "valid")
           /\ Enter(path, Rest(path))
    /\ UNCHANGED <<files, unread, cases, state>>

(* A test case keeps the path.                                             *)
AddCase ==
    /\ Walking
    /\ \E path \in Inner.unread :
           /\ files[path] = "file" /\ NameOf(path) \in CNames
           /\ cases' = Append(cases, [path |-> path, isValid |-> isValidDir,
                                      skipOnFailure |-> NameOf(path) \in SkipNames])
           /\ live' = live \cup {path}
           /\ frames' = Rest(path)
    /\ UNCHANGED <<files, unread, isValidDir, unopened, state>>

(* The path of anything else is lost.                                      *)
PassBy ==
    /\ Walking
    /\ \E path \in Inner.unread :
           /\ ~IsDir(path) /\ ~(files[path] = "file" /\ NameOf(path) \in CNames)
           /\ live' = live \cup {path}
           /\ frames' = Rest(path)
    /\ UNCHANGED <<files, unread, isValidDir, cases, unopened, state>>

(* closedir, and the caller frees the path.                                *)
LeaveDir ==
    /\ Walking /\ Inner.unread = {}
    /\ frames' = Under
    /\ live' = live \ {Inner.dir}
    /\ UNCHANGED <<files, unread, isValidDir, cases, unopened, state>>

Return ==
    /\ InTop /\ unread = {}
    /\ state' = "returned"
    /\ UNCHANGED <<files, unread, frames, isValidDir, cases, live, unopened>>
----------------------------------------------------------------------------
Init ==
    /\ files \in Trees
    /\ unread = {} /\ frames = <<>> /\ isValidDir = FALSE
    /\ cases = <<>> /\ live = {} /\ unopened = {}
    /\ state = "start"

Step == OpenTop \/ OpenTopFails \/ SkipEntry \/ EnterStage \/ EnterDir \/ AddCase \/ PassBy
        \/ LeaveDir \/ Return
Over == state \in {"exit", "returned"}
Next == Step \/ (Over /\ UNCHANGED vars)

Spec == Init /\ [][Next]_vars
----------------------------------------------------------------------------
(* Properties. *)

Returned == state = "returned"
Within(path, dir) == Len(path) >= Len(dir) /\ SubSeq(path, 1, Len(dir)) = dir

(* The variables have their types; each running call is in a directory of  *)
(* the call below it.                                                      *)
TypeOK ==
    /\ unread \subseteq DOMAIN files /\ unopened \subseteq DOMAIN files
    /\ \A n \in 1..Len(frames) :
           /\ IsDir(frames[n].dir) /\ frames[n].unread \subseteq Children(frames[n].dir)
           /\ Parent(frames[n].dir) = IF n = 1 THEN <<>> ELSE frames[n - 1].dir
    /\ isValidDir \in BOOLEAN
    /\ \A n \in 1..Len(cases) :
           cases[n] \in [path : DOMAIN files, isValid : BOOLEAN, skipOnFailure : BOOLEAN]
    /\ live \subseteq DOMAIN files
    /\ state \in {"start", "walking", "exit", "returned"}

(* The cases are the ".c" files of the stages up to maxStage, in whatever  *)
(* directory, each of them once, but for those in directories that could   *)
(* not be opened.                                                          *)
Implemented == {name \in DOMAIN StageOf : 0 <= StageOf[name] /\ StageOf[name] <= maxStage}
Reached(path) ==
    /\ path[1] \in Implemented /\ Len(path) > 1
    /\ \A dir \in unopened : ~Within(path, dir)
CasesComplete ==
    Returned =>
        /\ {cases[n].path : n \in 1..Len(cases)} =
               {path \in DOMAIN files :
                   files[path] = "file" /\ NameOf(path) \in CNames /\ Reached(path)}
        /\ \A m, n \in 1..Len(cases) : cases[m].path = cases[n].path => m = n

(* What lies in a directory "valid" is expected to compile, and nothing is *)
(* in a stage that has no such directory.                                  *)
In(path, name) == \E n \in 1..(Len(path) - 1) : path[n] = name
ValidCasesExpected ==
    \A n \in 1..Len(cases) :
        LET stage == SubSeq(cases[n].path, 1, 1)
        IN  /\ In(cases[n].path, "valid") => cases[n].isValid
            /\ cases[n].isValid =>
                   \E dir \in DOMAIN files :
                       IsDir(dir) /\ NameOf(dir) = "valid" /\ Within(dir, stage)

(* What lies in a directory "invalid", and in no directory "valid", is     *)
(* expected not to compile.                                                *)
InvalidCasesExpected ==
    \A n \in 1..Len(cases) :
        In(cases[n].path, "invalid") /\ ~In(cases[n].path, "valid") => ~cases[n].isValid

(* Which paths stay allocated: those of the cases, which their suites free,*)
(* and, freed by nobody, those of all other entries but directories.       *)
PathsAccounted ==
    Returned => live = {path \in DOMAIN files : ~IsDir(path) /\ Reached(path)}

(* What get_tests returns, whatever the order of readdir: each case once,  *)
(* those expected to compile marked so, and the paths of the cases.        *)
ListComplete == TypeOK /\ CasesComplete /\ ValidCasesExpected /\ PathsAccounted
=============================================================================
