---------------------------- MODULE TaggedValue ----------------------------
(***************************************************************************)
(* Numbers and booleans as words of the machine (value/value.c,            *)
(* value/xint.c, value/xbool.c): the lower three bits of a word say what   *)
(* it is, and numbers have the others.  Pointers have the tag XOBJECT, and *)
(* are not words here.  The programs compute with 64 bits; WORD_SIZE is 11 *)
(* at least, so that the two booleans have the tag XEXTENDED.              *)
(***************************************************************************)
EXTENDS Integers

CONSTANT WORD_SIZE

XINT == 2
XEXTENDED == 7

\* What is left of a number in a word, and a word as a signed number.
word(i) == i % 2^WORD_SIZE
signed(w) == IF w < 2^(WORD_SIZE - 1) THEN w ELSE w - 2^WORD_SIZE

value_tag(w) == w % 8

\* 0x00ff...ff and 0x01ff...ff
xtrue == 2^(WORD_SIZE - 8) - 1
xfalse == 2^(WORD_SIZE - 7) - 1

is_xbool(w) == w \in {xtrue, xfalse}
xbool(target) == IF target THEN xtrue ELSE xfalse
to_bool(w) == w = xtrue

\* Shifted to the left, and back with the sign.
is_xint(w) == value_tag(w) = XINT
xint(target) == word(target * 8) + XINT
to_int64(w) == signed(w) \div 8

\* `/` and `%` of C round towards zero.
Magnitude(i) == IF i < 0 THEN -i ELSE i
Quotient(i, j) ==
    LET q == Magnitude(i) \div Magnitude(j) IN IF (i < 0) = (j < 0) THEN q ELSE -q
Remainder(i, j) == i - j * Quotient(i, j)

\* The product of two such numbers may overflow an int64_t as well; as builds
\* wrap it, the bits that xint keeps are the same.
xint_op(name, i, j) ==
    xint(CASE name = "iadd" -> i + j
           [] name = "isub" -> i - j
           [] name = "imul" -> i * j
           [] name = "idiv" -> Quotient(i, j)
           [] name = "imod" -> Remainder(i, j))

xbool_op(name, p, q) == xbool(IF name = "and" THEN p /\ q ELSE p \/ q)
=============================================================================
