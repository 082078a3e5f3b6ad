------------------------------- MODULE MCSexp -------------------------------
(***************************************************************************)
(* Sexp on all short texts over a few pieces.                              *)
(***************************************************************************)
EXTENDS Sexp

CONSTANT MaxPieces      \* of an s-expression; a text of a program has one less

\* lex_code (core/worker.c:3) and sexp_parse_list.
ProgramLexer == [line_comment |-> <<"/", "/">>, delimiters |-> {}]
SexpLexer == [line_comment |-> <<";">>, delimiters |-> {"(", ")"}]
BothLexers == {ProgramLexer, SexpLexer}

Everywhere == {<<"a">>, <<" ">>, <<Newline>>, <<Quote>>, <<Backslash, "n">>, <<"1">>}

Pieces(l) ==
    Everywhere
    \union IF l = ProgramLexer
           THEN {<<"/">>, <<"/", "/">>, <<"-">>, <<"0", "x">>, <<".">>, <<"(">>}
           ELSE {<<"(">>, <<")">>, <<";">>, <<Backslash, Quote>>, <<Backslash, "0">>}

ShortTexts(l) ==
    LET most == IF l = ProgramLexer THEN MaxPieces - 1 ELSE MaxPieces
    IN  {FlattenSeq(s) : s \in UNION {[1 .. n -> Pieces(l)] : n \in 0 .. most}}
=============================================================================
