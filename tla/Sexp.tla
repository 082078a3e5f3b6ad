-------------------------------- MODULE Sexp --------------------------------
(***************************************************************************)
(* Reading s-expressions and printing them (packages/std/sexp/sexp.c), on  *)
(* top of Lexer.  A text is lexed, its tokens are parsed, the              *)
(* s-expressions are printed, and what was printed is read again.  A       *)
(* lexer of program files only lexes.                                      *)
(*                                                                         *)
(* parse_list and parse_sexp call each other: `parsing` is the stack of    *)
(* the lists they are in the middle of, the outermost first.               *)
(***************************************************************************)
EXTENDS Lexer

VARIABLES
    parsing,        \* the lists under way
    sexp_list,      \* what was read the first time
    turn            \* "lex", "parse", "lex again", "parse again", "done" or "abort"

parser_vars == <<parsing, sexp_list, turn>>
vars == <<lexer_vars, parser_vars>>

Atom(token) == [kind |-> "atom", token |-> token, sexp_list |-> <<>>]
List(sexps) == [kind |-> "list", token |-> [kind |-> "none", string |-> <<>>],
                sexp_list |-> sexps]

Init ==
    /\ LexerInit
    /\ parsing = <<>>
    /\ sexp_list = <<>>
    /\ turn = "lex"

Lex ==
    /\ turn \in {"lex", "lex again"}
    /\ LexerStep
    /\ UNCHANGED parser_vars

\* sexp_parse_list, from lexer_run to parse_list.
StartParsing ==
    /\ turn \in {"lex", "lex again"} /\ lexed = "all" /\ lexer.delimiters # {}
    /\ parsing' = <<<<>>>>
    /\ turn' = IF turn = "lex" THEN "parse" ELSE "parse again"
    /\ lexed' = "taken"
    /\ UNCHANGED <<lexer, text, cursor, place, token_list, sexp_list>>

Parsing == turn \in {"parse", "parse again"}
NextIs(string) == token_list # <<>> /\ Head(token_list).string = <<string>>

\* list_shift; a token that is kept is its kind and its string.
Shift == token_list' = Tail(token_list) /\ UNCHANGED <<lexer, text, cursor, place, lexed>>

\* The list that is under way gets one s-expression more.
Pushed(lists, sexp) == [lists EXCEPT ![Len(lists)] = Append(@, sexp)]

\* The kind of the token is not looked at: a string "(" opens a list, too.
ParseOpen ==
    /\ Parsing /\ NextIs("(")
    /\ Shift
    /\ parsing' = Append(parsing, <<>>)
    /\ UNCHANGED <<sexp_list, turn>>

ParseAtom ==
    /\ Parsing /\ token_list # <<>> /\ ~NextIs("(") /\ ~NextIs(")")
    /\ Shift
    /\ parsing' = Pushed(parsing, Atom([kind |-> Head(token_list).kind,
                                        string |-> Head(token_list).string]))
    /\ UNCHANGED <<sexp_list, turn>>

\* Back from parse_list to parse_sexp, which shifts what is there: ")", or
\* nothing at the end of the tokens.
ParseClose ==
    /\ Parsing /\ Len(parsing) > 1
    /\ \/ NextIs(")") /\ Shift
       \/ token_list = <<>> /\ UNCHANGED lexer_vars
    /\ parsing' = Pushed(Front(parsing), List(Last(parsing)))
    /\ UNCHANGED <<sexp_list, turn>>

-----------------------------------------------------------------------------
\* Fault: nothing is between the elements of a list.
Separator_None == <<>>
Separator == <<" ">>

Separated(texts) ==
    FoldLeft(LAMBDA s, t : IF s = <<>> THEN t ELSE s \o Separator \o t, <<>>, texts)

RECURSIVE sexp_print(_)
sexp_print(sexp) ==
    CASE sexp.kind = "list" ->
            <<"(">> \o Separated([i \in DOMAIN sexp.sexp_list |-> sexp_print(sexp.sexp_list[i])])
            \o <<")">>
      [] sexp.kind = "atom" /\ sexp.token.kind = "string" ->
            <<Quote>> \o sexp.token.string \o <<Quote>>
      [] sexp.kind = "atom" /\ sexp.token.kind # "string" -> sexp.token.string

Printed(sexps) == Separated([i \in DOMAIN sexps |-> sexp_print(sexps[i])])

\* sexp_parse_list comes to its end; an assertion fails when ")" is left over.
\* After the first time, all is printed, and read from the beginning.
EndParsing ==
    /\ Parsing /\ Len(parsing) = 1
    /\ \/ /\ NextIs(")")
          /\ turn' = "abort"
          /\ UNCHANGED <<lexer_vars, parsing, sexp_list>>
       \/ /\ token_list = <<>> /\ turn = "parse again"
          /\ turn' = "done"
          /\ UNCHANGED <<lexer_vars, parsing, sexp_list>>
       \/ /\ token_list = <<>> /\ turn = "parse"
          /\ turn' = "lex again"
          /\ sexp_list' = parsing[1]
          /\ text' = Printed(parsing[1])
          /\ cursor' = 0
          /\ place' = FirstPlace
          /\ lexed' = "not yet"
          /\ parsing' = <<>>
          /\ UNCHANGED <<lexer, token_list>>

\* Nothing is left to do.
Ended ==
    /\ \/ turn \in {"done", "abort"}
       \/ lexed = "abort"
       \/ lexed = "all" /\ lexer.delimiters = {}
    /\ UNCHANGED vars

Next ==
    \/ Lex \/ StartParsing \/ ParseOpen \/ ParseAtom \/ ParseClose \/ EndParsing
    \/ Ended

Spec == Init /\ [][Next]_vars

-----------------------------------------------------------------------------
RECURSIVE Strings(_)
Strings(sexps) ==
    UNION {IF s.kind = "list" THEN Strings(s.sexp_list)
           ELSE IF s.token.kind = "string" THEN {s.token.string} ELSE {} : s \in Range(sexps)}

\* Strings with a character that would have to be escaped again; "TODO handle \n
\* and other \chars" (sexp.c:130).
NeedsEscape == \E s \in Strings(sexp_list) : {Quote, Backslash} \intersect Range(s) # {}

\* What is printed is read as the s-expressions it was printed from, whatever
\* the layout, comments and missing parentheses of the text they came from.
PrintsWhatItReads ==
    sexp_list # <<>> /\ ~NeedsEscape =>
        /\ turn # "abort" /\ lexed # "abort"
        /\ turn = "done" => parsing[1] = sexp_list
=============================================================================
