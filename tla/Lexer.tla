------------------------------- MODULE Lexer -------------------------------
(***************************************************************************)
(* Cutting a text into tokens (packages/std/lexer/lexer.c).  Two parts of  *)
(* the program do it: core/worker.c for the files of programs, which knows *)
(* no delimiters and comments with "//", and sexp.c, with parentheses for  *)
(* delimiters and ";".  One action is one call of lexer_step.              *)
(*                                                                         *)
(* A text is a sequence of characters; cursor, start and end count them    *)
(* from 0 as the code does, so that text[cursor + 1] is the next one.      *)
(***************************************************************************)
EXTENDS Naturals, FiniteSets, SequencesExt

CONSTANTS
    Lexers,             \* the settings of lexers: [line_comment, delimiters]
    Texts(_),           \* what such a lexer may be given
    MAX_TOKEN_LENGTH

\* A string of C's has no NUL in it; a comment ends with its line.
ASSUME LexerAssumption ==
    /\ \A l \in Lexers :
        /\ l.line_comment \in Seq(STRING) /\ "\n" \notin Range(l.line_comment)
        /\ \A t \in Texts(l) : t \in Seq(STRING) /\ "NUL" \notin Range(t)
    /\ MAX_TOKEN_LENGTH \in Nat

VARIABLES
    lexer,              \* the settings of this one
    text,
    cursor,
    place,              \* [lineno, column] of the cursor
    token_list,
    lexed               \* "not yet"; "all" when lexer_run returns; "taken" when a
                        \* parser has the tokens; "abort" when an assertion failed

lexer_vars == <<lexer, text, cursor, place, token_list, lexed>>

Newline == "\n"
Quote == "\""
Backslash == "\\"
NUL == "NUL"

Spaces == {" ", "\t", Newline}
Digits == {"0", "1"}
HexDigits == Digits \union {"a", "b", "e", "f"}
Escapes == [n |-> Newline, t |-> "\t", b |-> "BS", f |-> "FF", r |-> "CR"]
           @@ ("0" :> NUL) @@ (Quote :> Quote) @@ (Backslash :> Backslash)

FirstPlace == [lineno |-> 1, column |-> 1]

\* lexer_run, up to its loop.
LexerInit ==
    /\ lexer \in Lexers
    /\ text \in Texts(lexer)
    /\ cursor = 0
    /\ place = FirstPlace
    /\ token_list = <<>>
    /\ lexed = "not yet"

-----------------------------------------------------------------------------
is_finished == cursor = Len(text)

isspace(i) == text[i + 1] \in Spaces

\* match_delimiter: the delimiters in use are of one character.
match_delimiter(i) == text[i + 1] \in lexer.delimiters

starts_comment(i) == IsPrefix(lexer.line_comment, SubSeq(text, i + 1, Len(text)))

Indices == 0 .. Len(text) - 1

\* The first of `ends` from i on, or the end of the text.
Until(i, ends) == Min({j \in ends : j >= i} \union {Len(text)})

\* One step over a character.
step(p, c) ==
    IF c = Newline THEN [lineno |-> p.lineno + 1, column |-> 1]
    ELSE [p EXCEPT !.column = @ + 1]

PlaceAt(end) ==
    LET at[i \in cursor .. end] == IF i = cursor THEN place ELSE step(at[i - 1], text[i])
    IN  at[end]

\* forward: the cursor goes on to `end`.
Forward(end) ==
    /\ cursor' = end
    /\ place' = PlaceAt(end)
    /\ UNCHANGED <<lexer, text, lexed>>

\* A failing assertion.
Abort ==
    /\ lexed' = "abort"
    /\ UNCHANGED <<lexer, text, cursor, place, token_list>>

\* token_new at `end`; the start is reckoned back from there.
Token(kind, string, end) ==
    [kind |-> kind, string |-> string, start |-> end - Len(string), end |-> end,
     lineno |-> PlaceAt(end).lineno, column |-> PlaceAt(end).column]

Push(token) == token_list' = Append(token_list, token)

-----------------------------------------------------------------------------
\* lexer_step tries these in order.
AtSpace == isspace(cursor)
AtComment == ~AtSpace /\ starts_comment(cursor)
AtDelimiter == ~AtSpace /\ ~AtComment /\ match_delimiter(cursor)
AtString == ~AtSpace /\ ~AtComment /\ ~AtDelimiter /\ text[cursor + 1] = Quote

Lexing == lexed = "not yet" /\ ~is_finished

IgnoreSpace ==
    /\ Lexing /\ AtSpace
    /\ Forward(Until(cursor, {i \in Indices : ~isspace(i)}))
    /\ UNCHANGED token_list

\* To the end of the line, which is part of the comment.
IgnoreComment ==
    LET line == Until(cursor + Len(lexer.line_comment), {i \in Indices : text[i + 1] = Newline})
    IN  /\ Lexing /\ AtComment
        /\ Forward(IF line = Len(text) THEN line ELSE line + 1)
        /\ UNCHANGED token_list

CollectDelimiter ==
    /\ Lexing /\ AtDelimiter
    /\ Forward(cursor + 1)
    /\ Push(Token("delimiter", <<text[cursor + 1]>>, cursor + 1))

\* collect_string, character by character: what is in the buffer, how many
\* characters it took, and what comes next.
CollectChar(s, c) ==
    LET on == [s EXCEPT !.length = @ + 1]
    IN  IF s.next \in {"closed", "unknown"} THEN s
        ELSE IF s.next = "escape"
        THEN IF c \in DOMAIN Escapes
             THEN [on EXCEPT !.buffer = Append(@, Escapes[c]), !.next = "char"]
             ELSE [s EXCEPT !.next = "unknown"]
        ELSE IF c = Backslash THEN [on EXCEPT !.next = "escape"]
        ELSE IF c = Quote THEN [s EXCEPT !.next = "closed"]
        ELSE [on EXCEPT !.buffer = Append(@, c)]

\* From the cursor's quote to the end of the text.
Collected ==
    LET after[i \in cursor + 1 .. Len(text)] ==
            IF i = cursor + 1 THEN [buffer |-> <<>>, length |-> 0, next |-> "char"]
            ELSE CollectChar(after[i - 1], text[i])
    IN  after[Len(text)]

\* What C takes the buffer for: it ends at its first NUL.
CString(buffer) == SubSeq(buffer, 1, SelectInSeq(buffer \o <<NUL>>, LAMBDA c : c = NUL) - 1)

CollectString ==
    LET s == Collected
        end == cursor + 1 + s.length
    IN  /\ Lexing /\ AtString
        /\ IF s.next # "closed" \/ Len(s.buffer) > MAX_TOKEN_LENGTH THEN Abort
           ELSE /\ Forward(end + 1)
                /\ Push(Token("string", CString(s.buffer), end))

\* Fault: a delimiter does not end a word.
WordEnds_AtSpace(i) == isspace(i)
WordEnds(i) == isspace(i) \/ match_delimiter(i)

CollectGeneric ==
    LET end == Until(cursor, {i \in Indices : WordEnds(i)})
    IN  /\ Lexing /\ ~AtSpace /\ ~AtComment /\ ~AtDelimiter /\ ~AtString
        /\ IF end - cursor > MAX_TOKEN_LENGTH THEN Abort
           ELSE /\ Forward(end)
                /\ Push(Token("generic", SubSeq(text, cursor + 1, end), end))

-----------------------------------------------------------------------------
(* Numbers.  Of the C library's strtol and strtod: a sign, digits; strtod    *)
(* takes a point, and both take hexadecimal digits after 0x.                 *)

DropPrefix(s, n) == SubSeq(s, n + 1, Len(s))
Unsigned(s) == IF s # <<>> /\ s[1] \in {"-", "+"} THEN Tail(s) ELSE s
HasHexPrefix(s) == IsPrefix(<<"0", "x">>, s)

AllDigits(s, digits) == s # <<>> /\ Range(s) \subseteq digits

string_is_int_of_base(s, base) ==
    CASE base = 8 \/ base = 10 -> AllDigits(Unsigned(s), Digits)
      [] base = 16 -> \/ AllDigits(Unsigned(s), HexDigits)
                      \/ /\ HasHexPrefix(Unsigned(s))
                         /\ AllDigits(DropPrefix(Unsigned(s), 2), HexDigits)

\* One sign, then a prefix for the base, or none.
string_is_xint(s) ==
    LET u == Unsigned(s)
    IN  CASE u # s /\ Unsigned(u) # u -> FALSE
          [] u = Unsigned(u) /\ HasHexPrefix(u) -> string_is_int_of_base(DropPrefix(u, 2), 16)
          [] u = Unsigned(u) /\ IsPrefix(<<"0", "o">>, u) ->
                 string_is_int_of_base(DropPrefix(u, 2), 8)
          [] OTHER -> string_is_int_of_base(u, 10)

AllDigitsWithPoint(s, digits) ==
    /\ Cardinality({i \in DOMAIN s : s[i] = "."}) <= 1
    /\ AllDigits(SelectSeq(s, LAMBDA c : c # "."), digits)

string_is_double(s) ==
    LET u == Unsigned(s)
    IN  \/ AllDigitsWithPoint(u, Digits)
        \/ HasHexPrefix(u) /\ AllDigitsWithPoint(DropPrefix(u, 2), HexDigits)

\* postprocess_int, postprocess_float.
Kind(token) ==
    IF token.kind # "generic" THEN token.kind
    ELSE IF string_is_xint(token.string) THEN "int"
    ELSE IF string_is_double(token.string) THEN "float"
    ELSE "generic"

\* The end of lexer_run.
EndLexing ==
    /\ lexed = "not yet" /\ is_finished
    /\ lexed' = "all"
    /\ token_list' = [i \in DOMAIN token_list |->
                        [token_list[i] EXCEPT !.kind = Kind(token_list[i])]]
    /\ UNCHANGED <<lexer, text, cursor, place>>

LexerStep ==
    \/ IgnoreSpace \/ IgnoreComment \/ CollectDelimiter \/ CollectString
    \/ CollectGeneric \/ EndLexing

\* Lexing alone; Sexp goes on with what it found.
LexerSpec == LexerInit /\ [][LexerStep]_lexer_vars

-----------------------------------------------------------------------------
(* What a text without backslashes is cut into.                              *)

\* Spaces, and comments up to the ends of their lines.
IsBlank(i) ==
    \/ isspace(i)
    \/ \E j \in 0 .. i : /\ starts_comment(j)
                         /\ \A k \in j .. i : text[k + 1] # Newline

\* Where a token and its quotes begin and end.
Begin(t) == IF t.kind = "string" THEN t.start - 1 ELSE t.start
End(t) == IF t.kind = "string" THEN t.end + 1 ELSE t.end

IsWord(t) == t.kind \in {"generic", "int", "float"}

\* The line that an error message marks (code_lineno_of_index).
LineOf(index) == 1 + Cardinality({i \in 1 .. index : text[i] = Newline})

\* A token as the text has it, with nothing but blanks since `before`.
Fits(t, before) ==
    /\ before <= Begin(t)
    /\ SubSeq(text, t.start + 1, t.end) = t.string
    /\ \A i \in before .. Begin(t) - 1 : IsBlank(i)
    /\ IsWord(t) =>
        /\ ~starts_comment(t.start) /\ text[t.start + 1] # Quote
        /\ \A i \in t.start .. t.end - 1 : ~isspace(i) /\ ~match_delimiter(i)
        /\ t.end = Len(text) \/ isspace(t.end) \/ match_delimiter(t.end)
    /\ t.kind = "delimiter" => match_delimiter(t.start)
    /\ t.kind = "string" => Quote \notin Range(t.string)
    /\ t.lineno = LineOf(t.end)

\* Where the nth token's blanks may begin.
Before(n) == IF n = 1 THEN 0 ELSE End(token_list[n - 1])

\* Nothing of a text is lost or read twice: its tokens are, in order, what is
\* written between their starts and ends, and all that is between them is blank.
\* A word goes as far as it can, and neither a quote nor a comment begins it.
\* The line of a token is the one an error message would mark.
TokensCoverTheText ==
    lexed = "all" /\ Backslash \notin Range(text) =>
        /\ \A n \in DOMAIN token_list : Fits(token_list[n], Before(n))
        /\ \A i \in Before(Len(token_list) + 1) .. Len(text) - 1 : IsBlank(i)
=============================================================================
