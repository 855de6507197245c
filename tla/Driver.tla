------------------------------- MODULE Driver -------------------------------
(***************************************************************************)
(* run() of src/src/driver/run.c: from the command line to the output, with*)
(* the argument parser (module ArgParser), the removal of the temporary    *)
(* directory (module DelDir), and whatever the source, the parser, the     *)
(* code generator and the two child processes turn out to do.  `held` is   *)
(* what run() has acquired and not released.  A definition that stands     *)
(* right before another and is named for what it gets wrong is a seeded    *)
(* defect.                                                                 *)
(***************************************************************************)
EXTENDS Integers, Sequences

CONSTANT CommandLines   (* the command lines considered, without argv[0]    *)

VARIABLES
    argv, ofs, i, flagValue, value, numConsumed, extra, error, live, state,
                                          (* the argument parser's          *)
    files, frames, paths, misused, calls, failed,   (* del_dir's            *)
    at,        (* what run() does next                                      *)
    held,      (* the allocations of run()                                  *)
    output,    (* the output file: its path and what it holds               *)
    exit,      (* "none", "success" (0), "failure" (1), "crash", or "hang"  *)
    request,   (* what the command line asks for; run() never looks at it   *)
    floods     (* the tools that print more than the pipe holds on what they*)
               (* are given; nobody looks at that either                    *)

argsVars == <<argv, ofs, i, flagValue, value, numConsumed, extra, error, live, state>>
dirVars  == <<files, frames, paths, misused, calls, failed>>
vars     == <<argsVars, dirVars, at, held, output, exit, request, floods>>
----------------------------------------------------------------------------
Option(kind, shortname, longname) ==
    [kind |-> kind, shortname |-> shortname, longname |-> <<longname>>]
AcceptedOptions ==
    <<Option("POS", "", "FILE"), Option("FLAG", "S", "assembly"),
      Option("FLAG", "", "dump-ast"), Option("FLAG", "h", "help"),
      Option("OPT", "o", "output")>>
assemblyArg == 2
dumpAstArg  == 3
helpArg     == 4
outputArg   == 5

Cwd     == <<"cwd">>
TempDir == <<"cwd", "dragonk-XXXXXX">>
Here    == [path \in {Cwd} |-> "dir"]

Arguments == INSTANCE ArgParser WITH Args <- AcceptedOptions
Removal   == INSTANCE DelDir WITH live <- paths, Top <- TempDir,
                 Trees <- {[path \in {Cwd, TempDir} |-> "dir"]}

(* The last conjunct is one the provers do not know.                       *)
ASSUME DriverAssumption ==
    /\ Arguments!ArgsAssumption /\ Removal!TreesAssumption
    /\ {"a.s", "a.o"} \subseteq STRING

(* codegen_program and nasm put their files in the temporary directory.    *)
With(names) ==
    [path \in DOMAIN files \cup {Append(TempDir, name) : name \in names} |->
        IF path \in DOMAIN files THEN files[path] ELSE "file"]
Nothing == [path |-> <<>>, holds |-> "nothing"]
OutPath(default) == IF value[outputArg] = <<>> THEN default ELSE value[outputArg]
Holds(default, what) == [path |-> OutPath(default), holds |-> what]

Keep  == UNCHANGED <<argsVars, dirVars>>
End(how) == at' = "end" /\ exit' = how
Then(step) == at' = step /\ UNCHANGED exit
----------------------------------------------------------------------------
ParseArguments ==
    /\ at = "arguments"
    /\ Arguments!Parse
    /\ UNCHANGED <<dirVars, at, held, output, exit>>

(* The help is shown whatever the error, whose message is then dropped.    *)
Parsed == at = "arguments" /\ Arguments!Parsed
Help ==
    /\ Parsed /\ flagValue[helpArg]
    /\ End("success")
    /\ Keep /\ UNCHANGED <<held, output>>

ArgumentError ==
    /\ Parsed /\ ~flagValue[helpArg] /\ error # "none"
    /\ live' = live \ {"message"}
    /\ End("failure")
    /\ UNCHANGED <<argv, ofs, i, flagValue, value, numConsumed, extra, error, state>>
    /\ UNCHANGED <<dirVars, held, output>>

ReadSource ==
    /\ Parsed /\ ~flagValue[helpArg] /\ error = "none"
    /\ \/ held' = {"inputContents"} /\ Then("parse")
       \/ UNCHANGED held /\ End("failure")
    /\ Keep /\ UNCHANGED output

ParseSource ==
    /\ at = "parse"
    /\ \/ held' = held \cup {"program"} /\ Then("generate")
       \/ held' = held \ {"inputContents"} /\ End("failure")
    /\ Keep /\ UNCHANGED output

DumpAst ==
    /\ at = "generate" /\ flagValue[dumpAstArg]
    /\ Then("release")
    /\ Keep /\ UNCHANGED <<held, output>>

(* codegen_program does not check its fopen: writing to NULL crashes.      *)
Crash == End("crash") /\ UNCHANGED held
WriteAssembly ==
    /\ at = "generate" /\ ~flagValue[dumpAstArg] /\ flagValue[assemblyArg]
    /\ \/ output' = Holds(<<"a.s">>, "assembly") /\ Then("release") /\ UNCHANGED held
       \/ Crash /\ UNCHANGED output
    /\ Keep

(* Neither is mkdtemp: str_ref(NULL) crashes.                              *)
MakeTempDir ==
    /\ at = "generate" /\ ~flagValue[dumpAstArg] /\ ~flagValue[assemblyArg]
    /\ \/ /\ files' = [path \in {Cwd, TempDir} |-> "dir"]
          /\ held' = held \cup {"tempPath"}
          /\ Then("assemble")
       \/ Crash /\ UNCHANGED files
    /\ UNCHANGED <<argsVars, frames, paths, misused, calls, failed, output>>

CompileToTemp ==
    /\ at = "assemble"
    /\ \/ files' = With({"a.s"}) /\ held' = held \cup {"objPath"} /\ Then("nasm")
       \/ Crash /\ UNCHANGED files
    /\ UNCHANGED <<argsVars, frames, paths, misused, calls, failed, output>>

(* process_run gives no process, or one with its exit code; of a tool that *)
(* floods the pipe only a signal makes it return (module Process), with    *)
(* EXIT_FAILURE.  A tool that fails, or whose status is lost, may have     *)
(* written its file; only a process that succeeded is destroyed.           *)
Tools     == {"nasm", "ld"}
Succeeded == {"zero"}
Outcomes  == {"none", "nonzero"} \cup (IF at \in floods THEN {} ELSE {"zero"})
RunNasmFreesAll ==
    /\ at = "nasm"
    /\ \E result \in Outcomes, written \in SUBSET {"a.o"} :
           /\ files' = With(written)
           /\ IF result \in Succeeded
              THEN written = {"a.o"} /\ held' = held \ {"tempPath"} /\ Then("ld")
              ELSE /\ held' = {}
                   /\ Then("nasm failed")
    /\ UNCHANGED <<argsVars, frames, paths, misused, calls, failed, output>>
RunNasmForgetsDir ==
    /\ at = "nasm"
    /\ \E result \in Outcomes, written \in SUBSET {"a.o"} :
           /\ files' = With(written)
           /\ IF result \in Succeeded
              THEN written = {"a.o"} /\ held' = held \ {"tempPath"} /\ Then("ld")
              ELSE /\ held' = held \cup (IF result = "nonzero" THEN {"nasmProcess"} ELSE {})
                   /\ End("failure")
    /\ UNCHANGED <<argsVars, frames, paths, misused, calls, failed, output>>
RunNasm ==
    /\ at = "nasm"
    /\ \E result \in Outcomes, written \in SUBSET {"a.o"} :
           /\ files' = With(written)
           /\ IF result \in Succeeded
              THEN written = {"a.o"} /\ held' = held \ {"tempPath"} /\ Then("ld")
              ELSE /\ held' = held \cup (IF result = "nonzero" THEN {"nasmProcess"} ELSE {})
                   /\ Then("nasm failed")
    /\ UNCHANGED <<argsVars, frames, paths, misused, calls, failed, output>>

RunLdIgnoresCode ==
    /\ at = "ld"
    /\ \E result \in Outcomes, what \in {"nothing", "part", "executable"} :
           /\ result = "zero" => what = "executable"
           /\ output' = IF what = "nothing" THEN output ELSE Holds(<<"a.out">>, what)
           /\ IF result # "none"
              THEN held' = held \ {"objPath"} /\ Then("linked")
              ELSE UNCHANGED held /\ Then("ld failed")
    /\ Keep
RunLd ==
    /\ at = "ld"
    /\ \E result \in Outcomes, what \in {"nothing", "part", "executable"} :
           /\ result \in Succeeded => what = "executable"
           /\ output' = IF what = "nothing" THEN output ELSE Holds(<<"a.out">>, what)
           /\ IF result \in Succeeded
              THEN held' = held \ {"objPath"} /\ Then("linked")
              ELSE /\ held' = held \cup (IF result = "nonzero" THEN {"ldProcess"} ELSE {})
                   /\ Then("ld failed")
    /\ Keep

(* process_run waits for the tool before it reads what it prints, and a    *)
(* tool that floods the pipe waits for a reader: without a signal neither  *)
(* goes on.                                                                *)
Hang ==
    /\ at \in floods
    /\ \/ /\ at = "nasm" /\ UNCHANGED output
          /\ \E written \in SUBSET {"a.o"} : files' = With(written)
       \/ /\ at = "ld" /\ UNCHANGED files
          /\ \E what \in {"nothing", "part", "executable"} :
                 output' = IF what = "nothing" THEN output ELSE Holds(<<"a.out">>, what)
    /\ at' = "waiting" /\ exit' = "hang"
    /\ UNCHANGED <<argsVars, frames, paths, misused, calls, failed, held>>

(* del_dir(str_ref(tempDir)) on each of the three ways out.                *)
Removing == at \in {"nasm failed", "ld failed", "linked"}
DeleteTemp ==
    /\ Removing
    /\ Removal!Call(FALSE) \/ Removal!Step
    /\ UNCHANGED <<argsVars, at, held, output, exit>>

Leave ==
    /\ Removing /\ Removal!Returned
    /\ CASE at = "nasm failed" -> UNCHANGED held /\ End("failure")
         [] at = "ld failed" -> held' = held \ {"inputContents"} /\ End("failure")
         [] at = "linked" -> Then("release") /\ UNCHANGED held
    /\ Keep /\ UNCHANGED output

Release ==
    /\ at = "release"
    /\ held' = held \ {"program", "inputContents"}
    /\ End("success")
    /\ Keep /\ UNCHANGED output
----------------------------------------------------------------------------
(* The request is read off the command line, not off what the argument     *)
(* parser stored: help if -h comes before the first mistake, else a        *)
(* mistake, else the dump, else the assembly, else an executable.          *)
Request ==
    LET seen  == Arguments!Seen
        On(k) == \E p \in seen : Arguments!TurnsOn(argv[p], k)
        given == Arguments!ExpectedValue(outputArg)
        what  == IF On(helpArg) THEN "help"
                 ELSE IF Arguments!ExpectedError # "none" THEN "mistake"
                 ELSE IF On(dumpAstArg) THEN "dump"
                 ELSE IF On(assemblyArg) THEN "assembly" ELSE "executable"
    IN  [what |-> what,
         path |-> IF given # <<>> THEN given
                  ELSE IF what = "assembly" THEN <<"a.s">> ELSE <<"a.out">>]

Init ==
    /\ Arguments!Init
    /\ files = Here
    /\ frames = <<>> /\ paths = {} /\ misused = FALSE /\ calls = {} /\ failed = {}
    /\ at = "arguments" /\ held = {} /\ exit = "none"
    /\ output = Nothing
    /\ request = Request
    /\ floods \in SUBSET (IF request.what = "executable" THEN Tools ELSE {})

Front == ParseArguments \/ Help \/ ArgumentError \/ ReadSource \/ ParseSource
Back  == DumpAst \/ WriteAssembly \/ MakeTempDir \/ CompileToTemp \/ RunNasm \/ RunLd
         \/ Hang \/ DeleteTemp \/ Leave \/ Release
Ended == at \in {"end", "waiting"} \/ misused

Next ==
    \/ (Front \/ Back) /\ UNCHANGED <<request, floods>>
    \/ Ended /\ UNCHANGED vars

Spec     == Init /\ [][Next]_vars

(* One thread, which goes on: all calls return but that of a tool that     *)
(* floods the pipe, where Hang is among the steps it may take.             *)
FairSpec == Spec /\ WF_vars(Next)
----------------------------------------------------------------------------
(* Properties. *)

(* The variables have their types, those of the parts included. *)
TypeOK ==
    /\ Arguments!TypeOK
    /\ calls # {} => Removal!TypeOK
    /\ at \in {"arguments", "parse", "generate", "assemble", "nasm", "ld",
               "nasm failed", "ld failed", "linked", "release", "waiting", "end"}
    /\ held \subseteq {"inputContents", "program", "tempPath", "objPath",
                       "nasmProcess", "ldProcess"}
    /\ output.holds \in {"nothing", "part", "assembly", "executable"}
    /\ exit \in {"none", "success", "failure", "crash", "hang"}
    /\ floods \subseteq Tools

(* What run() leaves behind: nothing when it succeeds, or fails before the *)
(* temporary directory; when a tool fails, its process, if there is one,   *)
(* the program and the paths made so far, and after nasm, unlike after ld, *)
(* the source.                                                             *)
LeftHeld ==
    at = "end" /\ exit # "crash" =>
        \/ held = {} /\ (exit = "success" \/ calls = {})
        \/ /\ exit = "failure" /\ output = Nothing
           /\ held \ {"nasmProcess"} = {"inputContents", "program", "tempPath", "objPath"}
        \/ /\ exit = "failure" /\ calls # {}
           /\ held \ {"ldProcess"} = {"program", "objPath"}

(* However a compilation that made the temporary directory ends, short of  *)
(* a crash, the directory is gone, unless a system call of del_dir failed; *)
(* and del_dir's misuse of a path it owns cannot happen here: the driver   *)
(* keeps its path, and there are no directories in the temporary one.      *)
TempDirRemoved ==
    /\ ~misused /\ paths = {}
    /\ at = "end" /\ exit # "crash" /\ failed = {} => files = Here

(* The argument parser reads what the command line says, and leaves what   *)
(* is known, for every command line run() is given.                        *)
CommandLineRead ==
    /\ TypeOK /\ Arguments!ReadsCommandLine
    /\ at = "arguments" => Arguments!LeftAllocated

(* Whatever the command line says and whatever fails, run() keeps the      *)
(* promise of Compilation: it succeeds only with what was asked for, and it*)
(* returns or crashes in the end, unless it makes an executable and nasm or*)
(* ld prints more than the pipe of process_run holds; then it may hang,    *)
(* with its scratch directory in place, and cannot succeed.                *)
Promise == INSTANCE Compilation WITH
               scratch <- (TempDir \in DOMAIN files), fits <- (floods = {})
KeepsPromise == Promise!Spec
=============================================================================
