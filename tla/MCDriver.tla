------------------------------ MODULE MCDriver ------------------------------
(* Command lines of up to three arguments for the driver: its options, the *)
(* forms of -o, a file, and three mistakes.                                *)
EXTENDS Driver

Words ==
    {<<"file.c">>, <<"-", "S">>, <<"-", "-", "dump-ast">>, <<"-", "h">>, <<"-", "x">>,
     <<"-", "o">>, <<"-", "S", "o", "out">>, <<"-", "-", "output">>,
     <<"-", "-", "output", "=">>, <<"-", "-", "FILE">>}

MCCommandLines == UNION {[1..n -> Words] : n \in 0..3}
=============================================================================
