----------------------------- MODULE MCLibrary -----------------------------
(* Values for the parts of module Library:                                 *)
(*   str2i64: texts of up to MaxLen characters that hold every role a      *)
(*     character can have (blank, sign, octal and hexadecimal prefix,      *)
(*     decimal digit, letter), in all kinds of bases; with MaxInt = 10 the *)
(*     largest value is reached and passed in each.                        *)
(*   strings: an owner, a reference to its text and a third string.        *)
(*   slurp_file, embed: files of up to three characters, two texts of each *)
(*     length, so that an edit shortens, lengthens or keeps; two runs of   *)
(*     the tool, the second of which finds what the first one left.        *)
(*   del_dir: every tree of up to four entries in the directory, three     *)
(*     deep, and a file beside it.                                         *)
EXTENDS Library

CONSTANT MaxLen

Chars   == {" ", "-", "0", "1", "9", "a", "x", "."}
MCTexts == UNION {[1..n -> Chars] : n \in 0..MaxLen}
MCBases == {-1, 0, 1, 2, 8, 10, 16, 36, 37}
MCDigitValue ==
    [c \in {"0", "1", "9", "a", "x"} |->
        CASE c = "0" -> 0 [] c = "1" -> 1 [] c = "9" -> 9 [] c = "a" -> 10 [] c = "x" -> 33]

MCStringTexts == {<<>>, <<"a">>}
MCSeparators  == {<<>>, <<"/">>}

MCContents      == UNION {[1..n -> {"a", "b"}] : n \in 0..3}
MCInputContents == {<<>>, <<"a">>, <<"b">>, <<"a", "b">>}

MCTop   == <<"cwd", "tmp">>
Outside == {<<"cwd">>, <<"cwd", "keep">>}
Inside  == {MCTop \o names : names \in {<<"a">>, <<"b">>, <<"b", "c">>, <<"b", "c", "d">>}}
Above(path) == SubSeq(path, 1, Len(path) - 1)
MCTrees ==
    LET IsTree(k) == \A path \in Inside :
            k[path] = "absent" \/ Above(path) = MCTop \/ k[Above(path)] \in {"dir", "untyped"}
        Present(k) == {path \in Inside : k[path] # "absent"}
    IN  {[path \in Outside \cup {MCTop} \cup Present(k) |->
             CASE path \in Inside -> k[path]
               [] path = <<"cwd", "keep">> -> "file"
               [] OTHER -> "dir"] :
            k \in {f \in [Inside -> {"absent", "dir", "untyped", "file"}] : IsTree(f)}}
----------------------------------------------------------------------------
(* LibraryInit, where what is not used rests in one of its initial states. *)
MCInit ==
    /\ used \in Parts
    /\ IF used = "str2i64" THEN TRUE ELSE in = <<>> /\ given = 10
    /\ IF used = "del_dir" THEN TRUE
       ELSE files = [path \in Outside \cup {Top} |->
                        IF path = <<"cwd", "keep">> THEN "file" ELSE "dir"]
    /\ IF used \in {"slurp_file", "embed"} THEN TRUE ELSE kind = "none" /\ content = <<>>
    /\ LibraryInit

MCSpec == MCInit /\ [][LibraryNext]_allVars
=============================================================================
