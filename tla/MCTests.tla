------------------------------ MODULE MCTests ------------------------------
(* All trees made of two stages with "valid" and "invalid" directories, a  *)
(* directory nested in one of them, cases, a note, a link, a stage that is *)
(* not implemented, one with a negative number and one without a number.   *)
EXTENDS Tests

CONSTANT MaxEntries   (* bound on the entries besides the stages            *)

Stages == {<<"stage1">>, <<"stage2">>}
Dirs   == {<<"stage1", "valid">>, <<"stage1", "invalid">>, <<"stage1", "invalid", "valid">>,
           <<"stage2", "invalid">>, <<"stage11">>, <<"stage-1">>, <<"stages">>}
Files  == {<<"stage1", "valid", "a.c">>, <<"stage1", "invalid", "b.c">>,
           <<"stage1", "invalid", "valid", "a.c">>, <<"stage2", "invalid", "skip_on_failure_c.c">>,
           <<"stage1", "note">>, <<"a.c">>, <<"stage11", "a.c">>, <<"stage-1", "a.c">>}
Links  == {<<"stage1", "link.c">>}
Others == Dirs \cup Files \cup Links

MCTrees ==
    {[path \in Stages \cup present |->
         CASE path \in Stages \cup Dirs -> "dir" [] path \in Files -> "file"
           [] path \in Links -> "other"] :
        present \in {p \in SUBSET Others :
            /\ Cardinality(p) <= MaxEntries
            /\ \A path \in p : Len(path) = 1 \/ Parent(path) \in p \cup Stages}}

(* As the repository has them: no directory of the one kind in the other.  *)
Siblings == {tree \in MCTrees : <<"stage1", "invalid", "valid">> \notin DOMAIN tree}

MCStageOf ==
    [name \in {"stage1", "stage2", "stage11", "stage-1"} |->
        CASE name = "stage1" -> 1 [] name = "stage2" -> 2 [] name = "stage11" -> 11
          [] name = "stage-1" -> -1]
MCCNames    == {"a.c", "b.c", "skip_on_failure_c.c", "link.c"}
MCSkipNames == {"skip_on_failure_c.c"}
=============================================================================
