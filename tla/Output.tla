------------------------------- MODULE Output -------------------------------
(***************************************************************************)
(* What run() of src/src/driver/run.c makes of the expression it has       *)
(* parsed: its assembly (Codegen) or, with --dump-ast, its text            *)
(* (AstPrinter).                                                           *)
(***************************************************************************)
EXTENDS Codegen

CONSTANT Dumped   (* the expression trees to print                          *)

VARIABLES
    dumpAst,      (* whether --dump-ast is given                            *)
    tree, mem, calls, result, line, indentStr, stage, dump   (* AstPrinter  *)

dumpVars   == <<tree, mem, calls, result, line, indentStr, stage, dump>>
outputVars == <<vars, dumpAst, dumpVars>>

Dump == INSTANCE AstPrinter
            WITH Programs <- Dumped, ast <- tree, frames <- calls, phase <- stage
ASSUME DumpedAssumption == Dump!ProgramsAssumption

OutputInit == dumpAst \in BOOLEAN /\ Init /\ Dump!Init
OutputNext ==
    /\ \/ ~dumpAst /\ Next /\ UNCHANGED dumpVars
       \/ dumpAst /\ Dump!Next /\ UNCHANGED vars
    /\ UNCHANGED dumpAst
OutputSpec == OutputInit /\ [][OutputNext]_outputVars
----------------------------------------------------------------------------
(* The dump loses what it loses in one place only (AstPrinter).            *)
DumpSound == Dump!DumpSound
=============================================================================
