------------------------------ MODULE MCLexer ------------------------------
(* Small source texts for the lexer: every concatenation of up to          *)
(* MaxChunks of the chunks, which are chosen so that keywords, directives, *)
(* comments, header names and two-character operators all occur, cut off   *)
(* at every place.  "i" stands for the keyword int and "#i" for #include.  *)
(* The builds with and without assertions lex different sources.           *)
EXTENDS Lexer, TLC

CONSTANTS Chunks, ReleaseChunks, MaxChunks

MCLetters    == {"i", "j"}
MCKeywords   == <<"i">> :> "KW_INT"
MCPPKeywords == <<"#", "i">> :> "PP_INCLUDE"

MixedChunks ==
    {<<"#", "i">>, <<"i">>, <<"j">>, <<"1">>, <<"9">>, <<"<">>, <<">">>, <<"=">>,
     <<"/">>, <<"/", "/">>, <<NL>>, <<" ">>}
OperatorChunks ==
    {<<"!">>, <<"&">>, <<"|">>, <<"=">>, <<"<">>, <<">">>, <<"-">>, <<"$">>, <<"#">>,
     <<"1">>, <<"9">>}

DigitChunks == {<<"1">>, <<"9">>, <<"-">>}

Texts(chunks) ==
    LET upTo[n \in 0..MaxChunks] ==
            IF n = 0 THEN {<<>>}
            ELSE upTo[n - 1] \cup {s \o c : s \in upTo[n - 1], c \in chunks}
    IN  upTo[MaxChunks]
DebugSources   == Texts(Chunks)
ReleaseSources == Texts(ReleaseChunks)
MCSources      == DebugSources \cup ReleaseSources

MCInit == Init /\ src \in (IF ndebug THEN ReleaseSources ELSE DebugSources)
MCSpec == MCInit /\ [][Next]_vars /\ WF_vars(Next)
=============================================================================
