--------------------------------- MODULE Utf8 ---------------------------------
(***************************************************************************)
(* UTF-8 strings and texts of code points: packages/std/utf8 and the two   *)
(* conversions of packages/std/text.  A byte is a number; its bits are     *)
(* taken by division.                                                      *)
(***************************************************************************)
EXTENDS Naturals, SequencesExt

CONSTANTS CodePoint,    \* code points above 0, at the borders of the lengths
          MaxLength     \* of a text

\* At larger ones utf8_encode_into exits.
Unicode == {c \in Nat : 1 <= c /\ c <= 1114111}

ASSUME CodePointAssumption == CodePoint \subseteq Unicode /\ MaxLength \in Nat

VARIABLES
    original,       \* the code points of the string at the beginning
    string,         \* its bytes, ending in NUL
    iter_cursor,    \* utf8_iter_t's cursor, or the one of text_to_string
    code_points,    \* text_t's
    dest,           \* the buffer of text_to_string
    phase           \* "read", "write", "reread", "done"

vars == <<original, string, iter_cursor, code_points, dest, phase>>

Terminator == 0
uint8(n) == n % 256

\* The encoding that the source refers to (en.wikipedia.org/wiki/UTF-8).
Tail6(c, unit) == 128 + ((c \div unit) % 64)
Standard(c) ==
    IF c < 128 THEN <<c>>
    ELSE IF c < 2048 THEN <<192 + c \div 64, Tail6(c, 1)>>
    ELSE IF c < 65536 THEN <<224 + c \div 4096, Tail6(c, 64), Tail6(c, 1)>>
    ELSE <<240 + c \div 262144, Tail6(c, 4096), Tail6(c, 64), Tail6(c, 1)>>

StandardString(s) == FlattenSeq([i \in DOMAIN s |-> Standard(s[i])]) \o <<Terminator>>

\* utf8_char_length: by the leading bits; on others the program exits.
utf8_char_length(byte) ==
    IF byte \div 128 = 0 THEN 1
    ELSE IF byte \div 32 = 6 THEN 2
    ELSE IF byte \div 16 = 14 THEN 3
    ELSE IF byte \div 8 = 30 THEN 4
    ELSE 0

\* Fault: the first continuation byte keeps its leading bits.
utf8_decode_Unmasked(s, at) ==
    LET length == utf8_char_length(s[at])
        r(i) == s[at + i] % 64
    IN  IF length = 1 THEN s[at]
        ELSE IF length = 2 THEN (s[at] % 32) * 64 + s[at + 1]
        ELSE IF length = 3 THEN (s[at] % 16) * 4096 + r(1) * 64 + r(2)
        ELSE (s[at] % 8) * 262144 + r(1) * 4096 + r(2) * 64 + r(3)

\* utf8_decode(string + at - 1): the masks cut the bytes to five, four or three
\* bits in front and to six behind.
utf8_decode(s, at) ==
    LET length == utf8_char_length(s[at])
        r(i) == s[at + i] % 64
    IN  IF length = 1 THEN s[at]
        ELSE IF length = 2 THEN (s[at] % 32) * 64 + r(1)
        ELSE IF length = 3 THEN (s[at] % 16) * 4096 + r(1) * 64 + r(2)
        ELSE (s[at] % 8) * 262144 + r(1) * 4096 + r(2) * 64 + r(3)

\* pattern_r | ((uint8_t) n << 2 >> 2): the shifts are made in int, so they
\* give the eight bits back; | sets the highest of them.
Continuation(n) == IF uint8(n) >= 128 THEN uint8(n) ELSE 128 + uint8(n)

\* utf8_encode_into
utf8_encode(c) ==
    IF c <= 127 THEN <<c>>
    ELSE IF c <= 2047 THEN <<192 + c \div 64, Continuation(c)>>
    ELSE IF c <= 65535
    THEN <<224 + c \div 4096, Continuation(c \div 64), Continuation(c)>>
    ELSE <<240 + c \div 262144, Continuation(c \div 4096),
           Continuation(c \div 64), Continuation(c)>>

-----------------------------------------------------------------------------
Init ==
    /\ original \in UNION {[1 .. n -> CodePoint] : n \in 0 .. MaxLength}
    /\ string = StandardString(original)
    /\ iter_cursor = 1 /\ code_points = <<>> /\ dest = <<>> /\ phase = "read"

\* One turn of the loop of text_from_string: utf8_iter_first, utf8_iter_next.
ReadCharacter ==
    /\ phase \in {"read", "reread"}
    /\ string[iter_cursor] # Terminator
    /\ code_points' = Append(code_points, utf8_decode(string, iter_cursor))
    /\ iter_cursor' = iter_cursor + utf8_char_length(string[iter_cursor])
    /\ UNCHANGED <<original, string, dest, phase>>

EndOfString ==
    /\ phase \in {"read", "reread"}
    /\ string[iter_cursor] = Terminator
    /\ phase' = IF phase = "read" THEN "write" ELSE "done"
    /\ iter_cursor' = 1
    /\ UNCHANGED <<original, string, code_points, dest>>

\* One turn of the loop of text_to_string: the cursor goes on by the length
\* that the first byte written announces.
WriteCharacter ==
    /\ phase = "write" /\ code_points # <<>>
    /\ LET bytes == utf8_encode(Head(code_points))
       IN  /\ dest' = SubSeq(dest, 1, iter_cursor - 1) \o bytes
           /\ iter_cursor' = iter_cursor + utf8_char_length(Head(bytes))
    /\ code_points' = Tail(code_points)
    /\ UNCHANGED <<original, string, phase>>

\* The string written is read again.
EndOfText ==
    /\ phase = "write" /\ code_points = <<>>
    /\ string' = Append(dest, Terminator)
    /\ iter_cursor' = 1 /\ phase' = "reread"
    /\ UNCHANGED <<original, code_points, dest>>

Next == ReadCharacter \/ EndOfString \/ WriteCharacter \/ EndOfText

Spec == Init /\ [][Next]_vars

-----------------------------------------------------------------------------
\* A string is read as the characters it was made of, and the string that is
\* made of them is read as the same ones: neither direction gets out of step
\* with the lengths of the characters.
ReadsWhatIsThere ==
    /\ phase \in {"read", "reread"} =>
           iter_cursor \in DOMAIN string /\ utf8_char_length(string[iter_cursor]) > 0
    /\ phase = "write" => iter_cursor = Len(dest) + 1
    /\ phase \in {"read", "reread"} => IsPrefix(code_points, original)
    /\ phase = "done" => code_points = original

\* The tests assert that a string that is decoded and encoded again is the same
\* string (utf8/test_utf8.c:72-75, of "a" and of one Chinese character).
WritesBackTheSame == phase = "reread" => string = StandardString(original)
=============================================================================
