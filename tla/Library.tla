------------------------------ MODULE Library ------------------------------
(***************************************************************************)
(* The functions of src/src/core that a program calls one at a time, and   *)
(* the embedding tool, which has a copy of one of them: str2i64 (StrToX),  *)
(* the strings (StringUse), slurp_file (SlurpFile), the tool (Embed) and   *)
(* del_dir (DelDir).  A behaviour uses one of them.                        *)
(***************************************************************************)
EXTENDS StrToX

CONSTANTS
    Slots, StringTexts, Separators, MaxLength, MaxAllocations,  (* StringUse *)
    Contents, DirLength,                                        (* SlurpFile *)
    InputContents, MaxRuns,                                     (* Embed     *)
    Trees, Top                                                  (* DelDir    *)

VARIABLES
    used,                                   (* what the behaviour uses      *)
    mem, slot,                              (* module StringUse             *)
    files, frames, live, misused, calls, failed,   (* module DelDir         *)
    kind, content, fd, len, buf, text, step, got, measured, atRead,
                                            (* modules SlurpFile and Embed, *)
                                            (* as pc and result step and got*)
    header, source, at, exit, runs          (* module Embed                 *)

stringVars == <<mem, slot>>
dirVars    == <<files, frames, live, misused, calls, failed>>
fileVars   == <<kind, content, fd, len, buf, text, step, got, measured, atRead>>
toolVars   == <<header, source, at, exit, runs>>
allVars    == <<used, vars, stringVars, dirVars, fileVars, toolVars>>

Owners  == INSTANCE StringUse WITH Texts <- StringTexts
Removal == INSTANCE DelDir
File    == INSTANCE SlurpFile WITH Releases <- TRUE, pc <- step, result <- got
Tool    == INSTANCE Embed WITH Contents <- InputContents, pc <- step, result <- got

ASSUME LibraryAssumption ==
    /\ Owners!StringUseAssumption
    /\ Removal!TreesAssumption
    /\ File!SlurpAssumption /\ Tool!EmbedAssumption
----------------------------------------------------------------------------
Parts == {"str2i64", "strings", "slurp_file", "embed", "del_dir"}

LibraryInit ==
    /\ used \in Parts
    /\ Owners!Init /\ Removal!Init
    /\ IF used = "slurp_file" THEN File!Init /\ Tool!InitMain ELSE Tool!Init
    /\ Init

Uses(what) == used = what /\ UNCHANGED used
Str2I64   == Uses("str2i64") /\ Next /\ UNCHANGED <<stringVars, dirVars, fileVars, toolVars>>
Strings   == Uses("strings") /\ Owners!Next /\ UNCHANGED <<vars, dirVars, fileVars, toolVars>>
SlurpFile == Uses("slurp_file") /\ File!Next /\ UNCHANGED <<vars, stringVars, dirVars, toolVars>>
Embed     == Uses("embed") /\ Tool!Next /\ UNCHANGED <<vars, stringVars, dirVars>>
DelDir    == Uses("del_dir") /\ Removal!Next /\ UNCHANGED <<vars, stringVars, fileVars, toolVars>>

LibraryNext == Str2I64 \/ Strings \/ SlurpFile \/ Embed \/ DelDir
LibrarySpec == LibraryInit /\ [][LibraryNext]_allVars
----------------------------------------------------------------------------
(* The properties of the modules instantiated here. *)

(* No string is lost, freed twice or used when it is gone (StringUse).     *)
OwnershipKept == Owners!OwnershipKept

(* A file gives a text that was there, or an error (SlurpFile).            *)
SlurpSound ==
    /\ used = "slurp_file" => File!SlurpSound
    /\ used = "embed" => Tool!Input!SlurpSound

(* The header and the source of a successful run agree (Embed).            *)
PairAgrees == Tool!PairAgrees

(* A run that fails on its input keeps what was there (Embed).             *)
PairKept == Tool!PairKept

(* What a removal leaves of the files and of the paths (DelDir).           *)
RemovalOutcome == Removal!RemovalOutcome

(* Nothing is removed outside the directory (DelDir).                      *)
RemovesOnlyInside == Removal!RemovesOnlyInside
=============================================================================
