------------------------------ MODULE Process ------------------------------
(* process_create, process_join, process_destroy and process_run of        *)
(* src/src/core/process.c, together with the child they run and the        *)
(* kernel objects they share: the descriptor table of the parent and the   *)
(* pipe that carries the child's output.  A sequence of calls is made, as  *)
(* the driver (nasm, then ld) and the test suite do.                       *)
EXTENDS Integers, FiniteSets

CONSTANTS
    Capacity,   (* chunks of output the pipe holds                           *)
    Outputs,    (* the amounts of output a child may produce, in chunks      *)
    FdLimit,    (* descriptors the parent may hold (RLIMIT_NOFILE)           *)
    MaxRuns     (* bound on the calls of process_run                         *)

ASSUME ProcessAssumption ==
    /\ Capacity \in Nat /\ Outputs \subseteq Nat
    /\ FdLimit \in Nat /\ MaxRuns \in Nat

VARIABLES
    runs, options,
    open,        (* the pipe ends of this call the parent holds open         *)
    leaked,      (* descriptors earlier calls left open for good             *)
    stray,       (* has a descriptor been closed that was not open?          *)
    actionsLive, argvLive,  (* file actions initialised, argv allocated      *)
    stdinFile, stdoutFile,  (* is the FILE* of the Process present?          *)
    child,       (* "none", "running", "exited", "killed" or "reaped"        *)
    status,      (* the exit status the child will return                    *)
    readsStdin,  (* the child still waits for the end of its input           *)
    size, todo,  (* the chunks the child writes, and those left to write     *)
    pipe,        (* chunks in the output pipe                                *)
    drained,     (* chunks process_run has copied to stderr                  *)
    returnCode,
    pc,
    wrapped,     (* history: the ends fdopen wrapped in a FILE*               *)
    outcome      (* history: how the call ended, or the setup step that failed*)

parentVars == <<open, stray, actionsLive, argvLive, stdinFile, stdoutFile,
                drained, returnCode, wrapped, outcome>>
childVars  == <<readsStdin, todo>>
callVars   == <<runs, options, leaked, status, size>>
vars == <<parentVars, childVars, callVars, child, pipe, pc>>
----------------------------------------------------------------------------
In  == {"in0", "in1"}
Out == {"out0", "out1"}
Err == {"err0", "err1"}
EXIT_FAILURE == 1

(* The options are the indices of process_options.def, not bits, and       *)
(* callers combine them with "|"; "&" on the values 0 and 1.               *)
COMBINED_STDOUT_STDERR == 0
SEARCH_USER_PATH       == 1
BitOr(a, b)  == IF a = 1 \/ b = 1 THEN 1 ELSE 0
BitAnd(a, b) == IF a = 1 /\ b = 1 THEN 1 ELSE 0
Options == {COMBINED_STDOUT_STDERR, BitOr(COMBINED_STDOUT_STDERR, SEARCH_USER_PATH)}

(* The two tests of the flag.  With the flag 0 both hold: the pipe for     *)
(* stderr is made, and then the combined branch is taken, in setting up    *)
(* the child and in the parent; the separate branch (lines 112-134 and     *)
(* 195-198) is never taken.                                                *)
SeparateStderr == BitAnd(options, COMBINED_STDOUT_STDERR) = 0
CombinedStderr == BitAnd(options, COMBINED_STDOUT_STDERR) = COMBINED_STDOUT_STDERR

Close(ends) == open' = open \ ends /\ stray' = (stray \/ ~(ends \subseteq open))
----------------------------------------------------------------------------
(* process_create: the calls that may fail, in order. *)

Setup == {"pipe_in", "pipe_out", "pipe_err", "init", "close_in", "dup_in", "close_out",
          "dup_out", "dup_err", "argv", "spawn"}
After(step) ==
    CASE step = "pipe_in" -> "pipe_out"
      [] step = "pipe_out" -> IF SeparateStderr THEN "pipe_err" ELSE "init"
      [] step = "pipe_err" -> "init"      [] step = "init" -> "close_in"
      [] step = "close_in" -> "dup_in"    [] step = "dup_in" -> "close_out"
      [] step = "close_out" -> "dup_out"  [] step = "dup_out" -> "dup_err"
      [] step = "dup_err" -> "argv"       [] step = "argv" -> "spawn"
      [] step = "spawn" -> "parent"

(* What each failure branch closes: all that is open, except that the      *)
(* combined branch (line 104) forgets the pipe for stderr.                 *)
ClosedWhenFailingKeepsOut(step) ==
    IF step = "pipe_in" THEN {} ELSE IF step \in {"pipe_out", "argv"} THEN In
    ELSE IF step \in {"pipe_err", "dup_err"} THEN In \cup Out ELSE In \cup Out \cup Err
ClosedWhenFailingClosesAll(step) ==
    IF step \in {"pipe_in", "pipe_out"} THEN In ELSE In \cup Out
ClosedWhenFailing(step) ==
    CASE step = "pipe_in" -> {}
      [] step = "pipe_out" -> In
      [] step \in {"pipe_err", "dup_err"} -> In \cup Out
      [] OTHER -> IF SeparateStderr THEN In \cup Out \cup Err ELSE In \cup Out

Call ==
    /\ pc = "over" /\ runs < MaxRuns
    /\ runs' = runs + 1
    /\ leaked' = leaked + Cardinality(open)
    /\ open' = {}
    /\ options' \in Options
    /\ size' \in Outputs /\ todo' = size'
    /\ readsStdin' \in BOOLEAN
    /\ status' \in {0, 2}
    /\ stdinFile' = FALSE /\ stdoutFile' = FALSE
    /\ child' = "none" /\ pipe' = 0 /\ drained' = 0 /\ returnCode' = 0
    /\ wrapped' = {} /\ outcome' = "none"
    /\ pc' = "pipe_in"
    /\ UNCHANGED <<stray, actionsLive, argvLive>>

OpenPipe(step, ends) ==
    /\ pc = step
    /\ Cardinality(open) + leaked + 2 <= FdLimit
    /\ open' = open \cup ends
    /\ pc' = After(step)
    /\ UNCHANGED <<stray, actionsLive, argvLive, stdinFile, stdoutFile, drained,
                   returnCode, wrapped, outcome, childVars, callVars, child, pipe>>

PipeIn  == OpenPipe("pipe_in", In)
PipeOut == OpenPipe("pipe_out", Out)
PipeErr == OpenPipe("pipe_err", Err)

(* posix_spawn_file_actions_*, malloc and posix_spawn: no descriptor of    *)
(* the parent changes.                                                     *)
SetupStep ==
    /\ pc \in Setup \ {"pipe_in", "pipe_out", "pipe_err"}
    /\ actionsLive' = (actionsLive \/ pc = "init")
    /\ argvLive' = (pc = "argv")    (* freed once posix_spawn returned *)
    /\ child' = IF pc = "spawn" THEN "running" ELSE child
    /\ pc' = After(pc)
    /\ UNCHANGED <<open, stray, stdinFile, stdoutFile, drained, returnCode, wrapped,
                   outcome, childVars, callVars, pipe>>

(* Any of them may fail, also for lack of memory or descriptors.           *)
SetupFailsKeepsActions ==
    /\ pc \in Setup
    /\ Close(ClosedWhenFailing(pc))
    /\ argvLive' = FALSE
    /\ outcome' = pc
    /\ pc' = "over"
    /\ UNCHANGED <<actionsLive, stdinFile, stdoutFile, drained, returnCode, wrapped,
                   childVars, callVars, child, pipe>>
SetupFails ==
    /\ pc \in Setup
    /\ Close(ClosedWhenFailing(pc))
    /\ actionsLive' = FALSE /\ argvLive' = FALSE
    /\ outcome' = pc
    /\ pc' = "over"
    /\ UNCHANGED <<stdinFile, stdoutFile, drained, returnCode, wrapped, childVars,
                   callVars, child, pipe>>

(* Lines 188-202: the parent closes the child's ends and wraps its own;    *)
(* fdopen may fail and is not checked.                                     *)
HandoverKeepsOut1 ==
    /\ pc = "parent"
    /\ Close({"in0"})
    /\ wrapped' \in SUBSET {"in1", "out0"}
    /\ stdinFile' = ("in1" \in wrapped') /\ stdoutFile' = ("out0" \in wrapped')
    /\ actionsLive' = FALSE
    /\ pc' = "join"
    /\ UNCHANGED <<argvLive, drained, returnCode, outcome, childVars, callVars, child, pipe>>
Handover ==
    /\ pc = "parent"
    /\ CombinedStderr
    /\ Close({"in0", "out1"})
    /\ wrapped' \in SUBSET {"in1", "out0"}
    /\ stdinFile' = ("in1" \in wrapped') /\ stdoutFile' = ("out0" \in wrapped')
    /\ actionsLive' = FALSE
    /\ pc' = "join"
    /\ UNCHANGED <<argvLive, drained, returnCode, outcome, childVars, callVars, child, pipe>>
----------------------------------------------------------------------------
(* process_join, then the copying loop of process_run. *)

JoinClosesStdin ==
    /\ pc = "join"
    /\ IF stdinFile THEN Close({"in1"}) ELSE UNCHANGED <<open, stray>>
    /\ stdinFile' = FALSE
    /\ pc' = "wait"
    /\ UNCHANGED <<actionsLive, argvLive, stdoutFile, drained, returnCode, wrapped, outcome,
                   childVars, callVars, child, pipe>>

Reap ==
    /\ pc = "wait" /\ child \in {"exited", "killed"}
    /\ returnCode' = IF child = "exited" THEN status ELSE EXIT_FAILURE
    /\ child' = "reaped"
    /\ pc' = "drain"
    /\ UNCHANGED <<open, stray, actionsLive, argvLive, stdinFile, stdoutFile, drained,
                   wrapped, outcome, childVars, callVars, pipe>>

(* waitpid fails with ECHILD when the parent inherited an ignored SIGCHLD; *)
(* process_run returns nothing and its caller has nothing to destroy.      *)
WaitFails ==
    /\ pc = "wait" /\ child \in {"exited", "killed"}
    /\ pc' = "over" /\ outcome' = "lost"
    /\ UNCHANGED <<open, stray, actionsLive, argvLive, stdinFile, stdoutFile, drained,
                   returnCode, wrapped, childVars, callVars, child, pipe>>

DrainUnchecked ==
    /\ pc = "drain" /\ stdoutFile
    /\ pipe' = pipe - 1 /\ drained' = drained + 1
    /\ UNCHANGED <<open, stray, actionsLive, argvLive, stdinFile, stdoutFile, returnCode,
                   wrapped, outcome, childVars, callVars, child, pc>>
Drain ==
    /\ pc = "drain" /\ stdoutFile /\ pipe > 0
    /\ pipe' = pipe - 1 /\ drained' = drained + 1
    /\ UNCHANGED <<open, stray, actionsLive, argvLive, stdinFile, stdoutFile, returnCode,
                   wrapped, outcome, childVars, callVars, child, pc>>

(* fread sees the end of the file once no write end of the pipe is open.   *)
EndDrainAfterOneRead ==
    /\ pc = "drain" /\ (pipe = 0 \/ drained > 0)
    /\ pc' = "returned"
    /\ UNCHANGED <<parentVars, childVars, callVars, child, pipe>>
EndDrain ==
    /\ pc = "drain"
    /\ ~stdoutFile \/ (pipe = 0 /\ "out1" \notin open)
    /\ pc' = "returned"
    /\ UNCHANGED <<parentVars, childVars, callVars, child, pipe>>

Destroy ==
    /\ pc = "returned"
    /\ Close((IF stdinFile THEN {"in1"} ELSE {}) \cup (IF stdoutFile THEN {"out0"} ELSE {}))
    /\ stdinFile' = FALSE /\ stdoutFile' = FALSE
    /\ pc' = "over" /\ outcome' = "destroyed"
    /\ UNCHANGED <<actionsLive, argvLive, drained, returnCode, wrapped, childVars, callVars,
                   child, pipe>>

(* The driver does not destroy a process that failed (run.c:123, 143).     *)
Abandon ==
    /\ pc = "returned" /\ returnCode # 0
    /\ pc' = "over" /\ outcome' = "abandoned"
    /\ UNCHANGED <<open, stray, actionsLive, argvLive, stdinFile, stdoutFile, drained,
                   returnCode, wrapped, childVars, callVars, child, pipe>>
----------------------------------------------------------------------------
(* The child: it may wait for the end of its input, then writes its output *)
(* (stderr goes to the same pipe) and exits; a signal may end it.          *)

ChildReads ==
    /\ child = "running" /\ readsStdin /\ "in1" \notin open
    /\ readsStdin' = FALSE
    /\ UNCHANGED <<parentVars, todo, callVars, child, pipe, pc>>

ChildWrites ==
    /\ child = "running" /\ ~readsStdin /\ todo > 0 /\ pipe < Capacity
    /\ pipe' = pipe + 1 /\ todo' = todo - 1
    /\ UNCHANGED <<parentVars, readsStdin, callVars, child, pc>>

ChildExits ==
    /\ child = "running" /\ ~readsStdin /\ todo = 0
    /\ child' = "exited"
    /\ UNCHANGED <<parentVars, childVars, callVars, pipe, pc>>

ChildKilled ==
    /\ child = "running"
    /\ child' = "killed"
    /\ UNCHANGED <<parentVars, childVars, callVars, pipe, pc>>
----------------------------------------------------------------------------
Init ==
    /\ runs = 0 /\ options = COMBINED_STDOUT_STDERR
    /\ open = {} /\ leaked = 0 /\ stray = FALSE
    /\ actionsLive = FALSE /\ argvLive = FALSE
    /\ stdinFile = FALSE /\ stdoutFile = FALSE
    /\ child = "none" /\ status = 0 /\ readsStdin = FALSE
    /\ size = 0 /\ todo = 0 /\ pipe = 0 /\ drained = 0 /\ returnCode = 0
    /\ pc = "over" /\ wrapped = {} /\ outcome = "none"

Create == PipeIn \/ PipeOut \/ PipeErr \/ SetupStep \/ SetupFails \/ Handover
Run    == JoinClosesStdin \/ Reap \/ WaitFails \/ Drain \/ EndDrain
Parent == Create \/ Run \/ Destroy \/ Abandon
Child  == ChildReads \/ ChildWrites \/ ChildExits
Quiet  == pc = "over" /\ runs = MaxRuns /\ UNCHANGED vars

Next == Call \/ Parent \/ Child \/ ChildKilled \/ Quiet

Spec     == Init /\ [][Next]_vars
FairSpec == Spec /\ WF_vars(Parent) /\ WF_vars(Child)
----------------------------------------------------------------------------
(* Properties. *)

(* The variables have their types. *)
TypeOK ==
    /\ runs \in 0..MaxRuns /\ options \in Options
    /\ open \subseteq In \cup Out \cup Err /\ leaked \in Nat
    /\ {stray, actionsLive, argvLive, stdinFile, stdoutFile, readsStdin} \subseteq BOOLEAN
    /\ child \in {"none", "running", "exited", "killed", "reaped"}
    /\ status \in {0, 2} /\ returnCode \in {0, 2, EXIT_FAILURE}
    /\ size \in Nat /\ todo \in 0..size /\ drained \in 0..size
    /\ pipe \in 0..Capacity
    /\ pc \in Setup \cup {"parent", "join", "wait", "drain", "returned", "over"}
    /\ wrapped \subseteq {"in1", "out0"}
    /\ outcome \in Setup \cup {"none", "lost", "destroyed", "abandoned"}

(* Which descriptors each way out of a call leaves open: none when setting *)
(* up fails, except at the combined dup2, and the pair made for stderr     *)
(* after every call that started a child, even when the caller destroys    *)
(* the process.                                                            *)
LeakedBy(how) ==
    CASE how \in {"lost", "abandoned"} -> Err \cup {"out0"} \cup ({"in1"} \ wrapped)
      [] how = "destroyed" -> Err \cup ({"in1", "out0"} \ wrapped)
      [] how = "dup_err" -> Err
      [] OTHER -> {}
OnlyKnownLeaks == pc = "over" => open = LeakedBy(outcome)

(* No descriptor is closed twice or without having been opened: a second   *)
(* close would hit whatever file took the number meanwhile.                *)
NoStrayClose == ~stray

(* The file actions and the argument vector are released on every way out. *)
SetupReleased == pc \in {"join", "over"} => ~actionsLive /\ ~argvLive

(* A returned call has copied the child's whole output and reports its     *)
(* status, or EXIT_FAILURE for a child ended by a signal.                  *)
OutputForwarded ==
    pc = "returned" =>
        /\ stdoutFile => drained = size - todo
        /\ (returnCode = status /\ todo = 0) \/ returnCode = EXIT_FAILURE

(* process_run joins before it reads: a child that ends by itself has put  *)
(* all its output in the pipe, so a call whose child writes more than the  *)
(* pipe holds returns only if someone kills the child.                     *)
ReturnsOnlyIfOutputFits ==
    pc \in {"drain", "returned"} /\ returnCode # EXIT_FAILURE => size <= Capacity

(* What a call that returned has done is what it says: nothing of the      *)
(* output is lost, and the status is the child's.                          *)
ReturnsHonest == OutputForwarded /\ ReturnsOnlyIfOutputFits

(* A call whose child's output fits the pipe, and whose child sees the end *)
(* of its input, is over eventually.                                       *)
FittingCallReturns ==
    (pc = "wait" /\ size <= Capacity /\ "in1" \notin open) ~> (pc = "over")
=============================================================================
