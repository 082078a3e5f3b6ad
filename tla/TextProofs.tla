----------------------------- MODULE TextProofs -----------------------------
(***************************************************************************)
(* Theorems about texts: that strings are read as the code points they     *)
(* were made of (module Utf8), and that nothing of a text is lost or read  *)
(* twice when it is cut into tokens (module Lexer).                        *)
(*                                                                         *)
(* A string is laid out by a function `at`: at[i] is where the encoding of *)
(* its ith character begins (Laid).  The reader is always at one of these. *)
(* The lexer's tokens cover its text up to its cursor (Covered), which is  *)
(* what an induction over its steps needs.                                 *)
(***************************************************************************)
EXTENDS Utf8, Lexer, Integers, FiniteSetTheorems, SequenceTheorems, WellFoundedInduction, TLAPS

-----------------------------------------------------------------------------
(* One character.                                                          *)

\* b is read as c, and is as long as its first byte says.
Encodes(b, c) ==
    /\ b \in Seq(Nat) /\ b # <<>> /\ b[1] # Terminator
    /\ Len(b) = utf8_char_length(b[1])
    /\ utf8_decode(b, 1) = c

\* What the standard has for a character is read as it.
LEMMA StandardEncodes == ASSUME NEW c \in Unicode PROVE Encodes(Standard(c), c)
<1>1. CASE c < 128
    <2>1. Standard(c) = <<c>>
        BY SMT, <1>1 DEF Standard, Tail6, Unicode
    <2>2. c \in Nat /\ c # 0 /\ c \div 128 = 0
        BY SMT, <1>1 DEF Unicode
    <2>3. utf8_char_length(c) = 1
        BY SMT, <2>2 DEF utf8_char_length
    <2> QED
        BY SMT, <2>1, <2>2, <2>3 DEF Encodes, utf8_decode, Terminator
<1>2. CASE c > 127 /\ c < 2048
    <2> DEFINE b1 == 192 + c \div 64
               b2 == 128 + (c % 64)
    <2>1. Standard(c) = <<b1, b2>>
        BY SMT, <1>2 DEF Standard, Tail6, Unicode
    <2>2. /\ b1 \in Nat /\ 192 <= b1 /\ b1 <= 223 /\ b2 \in Nat /\ 128 <= b2 /\ b2 <= 191
          /\ (b1 % 32) * 64 + (b2 % 64) = c
        BY SMT, <1>2 DEF Unicode
    <2> HIDE DEF b1, b2
    <2>3. b1 \div 128 # 0 /\ b1 \div 32 = 6
        BY SMT, <2>2
    <2>4. utf8_char_length(b1) = 2
        BY SMT, <2>3 DEF utf8_char_length
    <2> QED
        BY SMT, <2>1, <2>2, <2>4 DEF Encodes, utf8_decode, utf8_char_length, Terminator
<1>3. CASE c > 2047 /\ c < 65536
    <2> DEFINE b1 == 224 + c \div 4096
               b2 == 128 + ((c \div 64) % 64)
               b3 == 128 + (c % 64)
    <2>1. Standard(c) = <<b1, b2, b3>>
        BY SMT, <1>3 DEF Standard, Tail6, Unicode
    <2>2. /\ b1 \in Nat /\ 224 <= b1 /\ b1 <= 239 /\ b2 \in Nat /\ 128 <= b2 /\ b2 <= 191
          /\ b3 \in Nat /\ 128 <= b3 /\ b3 <= 191
          /\ (b1 % 16) * 4096 + (b2 % 64) * 64 + (b3 % 64) = c
        BY SMT, <1>3 DEF Unicode
    <2> HIDE DEF b1, b2, b3
    <2>3. b1 \div 128 # 0 /\ b1 \div 32 # 6 /\ b1 \div 16 = 14
        BY SMT, <2>2
    <2>4. utf8_char_length(b1) = 3
        BY SMT, <2>3 DEF utf8_char_length
    <2> QED
        BY SMT, <2>1, <2>2, <2>4 DEF Encodes, utf8_decode, utf8_char_length, Terminator
<1>4. CASE c > 65535
    <2> DEFINE b1 == 240 + c \div 262144
               b2 == 128 + ((c \div 4096) % 64)
               b3 == 128 + ((c \div 64) % 64)
               b4 == 128 + (c % 64)
    <2>1. Standard(c) = <<b1, b2, b3, b4>>
        BY SMT, <1>4 DEF Standard, Tail6, Unicode
    <2>2. /\ b1 \in Nat /\ 240 <= b1 /\ b1 <= 247 /\ b2 \in Nat /\ 128 <= b2 /\ b2 <= 191
          /\ b3 \in Nat /\ 128 <= b3 /\ b3 <= 191 /\ b4 \in Nat /\ 128 <= b4 /\ b4 <= 191
          /\ (b1 % 8) * 262144 + (b2 % 64) * 4096 + (b3 % 64) * 64 + (b4 % 64) = c
        BY SMT, <1>4 DEF Unicode
    <2> HIDE DEF b1, b2, b3, b4
    <2>3. b1 \div 128 # 0 /\ b1 \div 32 # 6 /\ b1 \div 16 # 14 /\ b1 \div 8 = 30
        BY SMT, <2>2
    <2>4. utf8_char_length(b1) = 4
        BY SMT, <2>3 DEF utf8_char_length
    <2> QED
        BY SMT, <2>1, <2>2, <2>4 DEF Encodes, utf8_decode, utf8_char_length, Terminator
<1> QED
    BY <1>1, <1>2, <1>3, <1>4, SMT DEF Unicode

\* The bits that utf8_encode_into should have cut are cut by utf8_decode.
LEMMA ContinuationIs ==
    ASSUME NEW n \in Nat PROVE Continuation(n) \in Nat /\ Continuation(n) % 64 = n % 64
BY DEF Continuation, uint8

\* So what utf8_encode_into writes for a character is read as it, too.
LEMMA EncodeEncodes == ASSUME NEW c \in Unicode PROVE Encodes(utf8_encode(c), c)
<1>1. CASE c <= 127
    <2>1. utf8_encode(c) = <<c>>
        BY SMT, <1>1 DEF utf8_encode, Unicode
    <2>2. c \in Nat /\ c # 0 /\ c \div 128 = 0
        BY SMT, <1>1 DEF Unicode
    <2>3. utf8_char_length(c) = 1
        BY SMT, <2>2 DEF utf8_char_length
    <2> QED
        BY SMT, <2>1, <2>2, <2>3 DEF Encodes, utf8_decode, Terminator
<1>2. CASE c > 127 /\ c < 2048
    <2> DEFINE b1 == 192 + c \div 64
               b2 == Continuation(c)
    <2>1. utf8_encode(c) = <<b1, b2>>
        BY SMT, <1>2 DEF utf8_encode, Unicode
    <2>2. b2 \in Nat /\ b2 % 64 = c % 64
        BY SMT, ContinuationIs DEF Unicode
    <2> HIDE DEF b2
    <2>3. b1 \in Nat /\ 192 <= b1 /\ b1 <= 223 /\ (b1 % 32) * 64 + (c % 64) = c
        BY SMT, <1>2 DEF Unicode
    <2> HIDE DEF b1
    <2>4. b1 \div 128 # 0 /\ b1 \div 32 = 6
        BY SMT, <2>3
    <2>5. utf8_char_length(b1) = 2
        BY SMT, <2>4 DEF utf8_char_length
    <2> QED
        BY SMT, <2>1, <2>2, <2>3, <2>5 DEF Encodes, utf8_decode, utf8_char_length, Terminator
<1>3. CASE c > 2047 /\ c < 65536
    <2> DEFINE b1 == 224 + c \div 4096
               b2 == Continuation(c \div 64)
               b3 == Continuation(c)
    <2>1. utf8_encode(c) = <<b1, b2, b3>>
        BY SMT, <1>3 DEF utf8_encode, Unicode
    <2>2. /\ b2 \in Nat /\ b2 % 64 = (c \div 64) % 64
          /\ b3 \in Nat /\ b3 % 64 = c % 64
        BY SMT, ContinuationIs DEF Unicode
    <2> HIDE DEF b2, b3
    <2>3. b1 \in Nat /\ 224 <= b1 /\ b1 <= 239 /\ (b1 % 16) * 4096 + ((c \div 64) % 64) * 64 + (c % 64) = c
        BY SMT, <1>3 DEF Unicode
    <2> HIDE DEF b1
    <2>4. b1 \div 128 # 0 /\ b1 \div 32 # 6 /\ b1 \div 16 = 14
        BY SMT, <2>3
    <2>5. utf8_char_length(b1) = 3
        BY SMT, <2>4 DEF utf8_char_length
    <2> QED
        BY SMT, <2>1, <2>2, <2>3, <2>5 DEF Encodes, utf8_decode, utf8_char_length, Terminator
<1>4. CASE c > 65535
    <2> DEFINE b1 == 240 + c \div 262144
               b2 == Continuation(c \div 4096)
               b3 == Continuation(c \div 64)
               b4 == Continuation(c)
    <2>1. utf8_encode(c) = <<b1, b2, b3, b4>>
        BY SMT, <1>4 DEF utf8_encode, Unicode
    <2>2. /\ b2 \in Nat /\ b2 % 64 = (c \div 4096) % 64
          /\ b3 \in Nat /\ b3 % 64 = (c \div 64) % 64
          /\ b4 \in Nat /\ b4 % 64 = c % 64
        BY SMT, ContinuationIs DEF Unicode
    <2> HIDE DEF b2, b3, b4
    <2>3. /\ b1 \in Nat /\ 240 <= b1 /\ b1 <= 247
          /\ (b1 % 8) * 262144 + ((c \div 4096) % 64) * 4096 + ((c \div 64) % 64) * 64 + (c % 64) = c
        BY SMT, <1>4 DEF Unicode
    <2> HIDE DEF b1
    <2>4. b1 \div 128 # 0 /\ b1 \div 32 # 6 /\ b1 \div 16 # 14 /\ b1 \div 8 = 30
        BY SMT, <2>3
    <2>5. utf8_char_length(b1) = 4
        BY SMT, <2>4 DEF utf8_char_length
    <2> QED
        BY SMT, <2>1, <2>2, <2>3, <2>5 DEF Encodes, utf8_decode, utf8_char_length, Terminator
<1> QED
    BY <1>1, <1>2, <1>3, <1>4, SMT DEF Unicode

\* From a on, s has a character that t also has, from b on.
SameCharacter(s, a, t, b) ==
    /\ a \in Nat /\ b \in Nat /\ utf8_char_length(s[a]) # 0
    /\ \A j \in 0 .. utf8_char_length(s[a]) - 1 : s[a + j] = t[b + j]

\* Reading looks at no more bytes than the first of them says.
LEMMA SameBytes ==
    ASSUME NEW s, NEW t, NEW a, NEW b, SameCharacter(s, a, t, b)
    PROVE  t[b] = s[a] /\ utf8_decode(t, b) = utf8_decode(s, a)
<1> DEFINE n == utf8_char_length(s[a])
<1> a \in Nat /\ b \in Nat
    BY DEF SameCharacter
<1>1. n \in 1 .. 4
    BY DEF utf8_char_length, SameCharacter
<1>2. s[a] = t[b]
    <2>1. 0 \in 0 .. n - 1 /\ a + 0 = a /\ b + 0 = b
        BY <1>1
    <2> QED
        BY <2>1 DEF SameCharacter
<1>3. n >= 2 => s[a + 1] = t[b + 1]
    <2>1. n >= 2 => 1 \in 0 .. n - 1
        BY <1>1
    <2> QED
        BY <2>1 DEF SameCharacter
<1>4. n >= 3 => s[a + 2] = t[b + 2]
    <2>1. n >= 3 => 2 \in 0 .. n - 1
        BY <1>1
    <2> QED
        BY <2>1 DEF SameCharacter
<1>5. n >= 4 => s[a + 3] = t[b + 3]
    <2>1. n >= 4 => 3 \in 0 .. n - 1
        BY <1>1
    <2> QED
        BY <2>1 DEF SameCharacter
<1>6. n = utf8_char_length(t[b])
    BY <1>2
<1> HIDE DEF n
<1>7. CASE n = 1
    BY SMT, <1>2, <1>6, <1>7 DEF utf8_decode, n
<1>8. CASE n = 2
    BY SMT, <1>2, <1>3, <1>6, <1>8 DEF utf8_decode, n
<1>9. CASE n = 3
    BY SMT, <1>2, <1>3, <1>4, <1>6, <1>9 DEF utf8_decode, n
<1>10. CASE n = 4
    BY SMT, <1>2, <1>3, <1>4, <1>5, <1>6, <1>10 DEF utf8_decode, n
<1> QED
    BY <1>1, <1>2, <1>6, <1>7, <1>8, <1>9, <1>10 DEF n

-----------------------------------------------------------------------------
(* Strings.                                                                *)

\* The string s, without its NUL, is the characters of o, each encoded; at[i]
\* is where the ith of them begins.
Laid(s, o, at) ==
    /\ s \in Seq(Nat) /\ o \in Seq(Unicode)
    /\ at \in [1 .. Len(o) + 1 -> Nat \ {0}]
    /\ at[1] = 1 /\ at[Len(o) + 1] = Len(s) + 1
    /\ \A i \in 1 .. Len(o) :
          /\ s[at[i]] # Terminator
          /\ utf8_char_length(s[at[i]]) # 0
          /\ at[i + 1] = at[i] + utf8_char_length(s[at[i]])
          /\ at[i + 1] <= Len(s) + 1
          /\ utf8_decode(s, at[i]) = o[i]

\* Whatever follows a character of a string is not looked at.
LEMMA ReadsInFront ==
    ASSUME NEW s, NEW o, NEW at, Laid(s, o, at), NEW t \in Seq(Nat), NEW i \in 1 .. Len(o)
    PROVE  /\ at[i] \in Nat \ {0} /\ at[i] <= Len(s) /\ at[i + 1] <= Len(s) + 1
           /\ (s \o t)[at[i]] = s[at[i]] /\ s[at[i]] # Terminator
           /\ at[i + 1] = at[i] + utf8_char_length(s[at[i]])
           /\ utf8_char_length(s[at[i]]) \in 1 .. 4
           /\ utf8_decode(s \o t, at[i]) = o[i]
<1> DEFINE a == at[i]
           n == utf8_char_length(s[a])
<1>1. /\ Len(o) \in Nat /\ Len(s) \in Nat /\ i \in 1 .. Len(o) + 1
      /\ a \in Nat \ {0} /\ s \in Seq(Nat)
      /\ s[a] # Terminator /\ n # 0 /\ at[i + 1] = a + n /\ a + n <= Len(s) + 1
      /\ utf8_decode(s, a) = o[i]
    <2>1. /\ s \in Seq(Nat) /\ o \in Seq(Unicode) /\ at \in [1 .. Len(o) + 1 -> Nat \ {0}]
          /\ s[a] # Terminator /\ n # 0 /\ at[i + 1] = a + n /\ at[i + 1] <= Len(s) + 1
          /\ utf8_decode(s, a) = o[i]
        BY DEF Laid
    <2>2. Len(o) \in Nat /\ Len(s) \in Nat /\ i \in 1 .. Len(o) + 1
        BY <2>1
    <2> HIDE DEF n
    <2> QED
        BY <2>1, <2>2
<1>2. n \in 1 .. 4
    BY <1>1 DEF utf8_char_length
<1> HIDE DEF a
<1>3. \A j \in 0 .. n - 1 : s[a + j] = (s \o t)[a + j]
    <2> HIDE DEF n
    <2> QED
        BY <1>1, <1>2, ConcatProperties
<1>4. /\ (s \o t)[a] = s[a]
      /\ utf8_decode(s \o t, a) = utf8_decode(s, a)
    <2> DEFINE u == s \o t
    <2>1. SameCharacter(s, a, u, a)
        BY <1>1, <1>3 DEF SameCharacter
    <2> HIDE DEF u
    <2>2. u[a] = s[a] /\ utf8_decode(u, a) = utf8_decode(s, a)
        BY <2>1, SameBytes
    <2> QED
        BY <2>2 DEF u
<1>5. a <= Len(s)
    <2> HIDE DEF n
    <2> QED
        BY <1>1, <1>2
<1> QED
    BY <1>1, <1>2, <1>4, <1>5 DEF a

\* A string with one more character.
LEMMA Grows ==
    ASSUME NEW s, NEW o, NEW at, Laid(s, o, at),
           NEW c \in Unicode, NEW b, Encodes(b, c)
    PROVE  \E at2 : Laid(s \o b, Append(o, c), at2)
<1> DEFINE k == Len(o)
           last == Len(s) + Len(b) + 1
           at2 == [i \in 1 .. k + 2 |-> IF i = k + 2 THEN last ELSE at[i]]
           t == s \o b
<1>1. /\ s \in Seq(Nat) /\ o \in Seq(Unicode) /\ b \in Seq(Nat)
      /\ Len(s) \in Nat /\ k \in Nat /\ Len(b) \in Nat
    BY DEF Laid, Encodes
<1>2. /\ at \in [1 .. k + 1 -> Nat \ {0}] /\ at[1] = 1 /\ at[k + 1] = Len(s) + 1
    BY DEF Laid
<1>3. t \in Seq(Nat) /\ Len(t) = Len(s) + Len(b)
    BY <1>1, ConcatProperties
<1>4. Append(o, c) \in Seq(Unicode) /\ Len(Append(o, c)) = k + 1
      /\ (\A i \in 1 .. k : Append(o, c)[i] = o[i]) /\ Append(o, c)[k + 1] = c
    BY <1>1, AppendProperties
<1> HIDE DEF k
<1>5. /\ at2 \in [1 .. k + 2 -> Nat \ {0}]
      /\ at2[k + 2] = Len(s) + Len(b) + 1
      /\ \A i \in 1 .. k + 1 : at2[i] = at[i]
    BY <1>1, <1>2
<1> HIDE DEF at2
<1>6. ASSUME NEW i \in 1 .. k
      PROVE  /\ t[at2[i]] # Terminator
             /\ utf8_char_length(t[at2[i]]) # 0
             /\ at2[i + 1] = at2[i] + utf8_char_length(t[at2[i]])
             /\ at2[i + 1] <= Len(t) + 1
             /\ utf8_decode(t, at2[i]) = Append(o, c)[i]
    <2>1. i \in 1 .. k + 1 /\ i + 1 \in 1 .. k + 1
        BY <1>1, <1>6
    <2>2. at2[i] = at[i] /\ at2[i + 1] = at[i + 1] /\ at[i + 1] \in Nat
        BY <1>2, <1>5, <2>1
    <2>3. /\ t[at[i]] = s[at[i]] /\ s[at[i]] # Terminator
          /\ at[i + 1] = at[i] + utf8_char_length(s[at[i]])
          /\ utf8_char_length(s[at[i]]) \in 1 .. 4
          /\ at[i + 1] <= Len(s) + 1
          /\ utf8_decode(t, at[i]) = o[i]
        <3>1. i \in 1 .. Len(o) /\ b \in Seq(Nat)
            BY <1>1 DEF k
        <3> QED
            BY <3>1, ReadsInFront
    <2>4. utf8_char_length(s[at[i]]) # 0
        BY <2>3
    <2>5. at[i + 1] <= Len(t) + 1
        BY <1>1, <1>3, <2>2, <2>3
    <2> QED
        BY <1>4, <2>2, <2>3, <2>4, <2>5
<1>7. /\ t[at2[k + 1]] # Terminator
      /\ utf8_char_length(t[at2[k + 1]]) # 0
      /\ at2[k + 2] = at2[k + 1] + utf8_char_length(t[at2[k + 1]])
      /\ at2[k + 2] <= Len(t) + 1
      /\ utf8_decode(t, at2[k + 1]) = Append(o, c)[k + 1]
    <2>1. at2[k + 1] = Len(s) + 1
        BY <1>1, <1>2, <1>5
    <2>2. /\ b[1] # Terminator /\ Len(b) = utf8_char_length(b[1]) /\ utf8_decode(b, 1) = c
          /\ Len(b) # 0
        BY DEF Encodes
    <2>3. \A j \in 0 .. Len(b) - 1 : b[1 + j] = t[(Len(s) + 1) + j]
        <3>1. ASSUME NEW j \in 0 .. Len(b) - 1 PROVE b[1 + j] = t[(Len(s) + 1) + j]
            <4>1. (Len(s) + 1) + j \in 1 .. Len(s) + Len(b) /\ ~((Len(s) + 1) + j <= Len(s))
                  /\ ((Len(s) + 1) + j) - Len(s) = 1 + j
                BY <1>1
            <4> QED
                BY <1>1, <4>1, ConcatProperties
        <3> QED
            BY <3>1
    <2>4. t[Len(s) + 1] = b[1] /\ utf8_decode(t, Len(s) + 1) = utf8_decode(b, 1)
        <3> HIDE DEF t
        <3>1. SameCharacter(b, 1, t, Len(s) + 1)
            <4>1. Len(s) + 1 \in Nat /\ 1 \in Nat /\ utf8_char_length(b[1]) # 0
                BY <1>1, <2>2
            <4>2. \A j \in 0 .. utf8_char_length(b[1]) - 1 : b[1 + j] = t[(Len(s) + 1) + j]
                BY <2>2, <2>3 DEF t
            <4> QED
                BY <4>1, <4>2, Zenon DEF SameCharacter
        <3> QED
            BY <3>1, SameBytes
    <2>5. at2[k + 2] = at2[k + 1] + Len(b) /\ at2[k + 2] <= Len(t) + 1
        <3> HIDE DEF t
        <3> QED
            BY <1>1, <1>3, <1>5, <2>1
    <2> HIDE DEF t
    <2> QED
        BY <1>4, <2>1, <2>2, <2>4, <2>5
<1>8. at2[1] = 1
    BY <1>1, <1>2, <1>5
<1>9. \A i \in 1 .. k + 1 : i \in 1 .. k \/ i = k + 1
    BY <1>1
<1>10. (k + 1) + 1 = k + 2
    BY <1>1
<1>11. \A i \in 1 .. k + 1 :
          /\ t[at2[i]] # Terminator
          /\ utf8_char_length(t[at2[i]]) # 0
          /\ at2[i + 1] = at2[i] + utf8_char_length(t[at2[i]])
          /\ at2[i + 1] <= Len(t) + 1
          /\ utf8_decode(t, at2[i]) = Append(o, c)[i]
    <2> HIDE DEF t
    <2> QED
        BY <1>6, <1>7, <1>9, <1>10
<1>12. Laid(t, Append(o, c), at2)
    <2> HIDE DEF t
    <2> QED
        BY <1>3, <1>4, <1>5, <1>8, <1>10, <1>11 DEF Laid
<1> QED
    BY <1>12

\* The empty string.
LEMMA NothingIsLaid == \E at : Laid(<<>>, <<>>, at)
<1> DEFINE at == [i \in 1 .. 1 |-> 1]
<1>1. at \in [1 .. 0 + 1 -> Nat \ {0}] /\ at[1] = 1
    OBVIOUS
<1>2. /\ <<>> \in Seq(Nat) /\ <<>> \in Seq(Unicode) /\ Len(<<>>) = 0
      /\ 1 .. 0 = {} /\ 0 + 1 = 1
    OBVIOUS
<1> HIDE DEF at
<1>3. Laid(<<>>, <<>>, at)
    BY <1>1, <1>2 DEF Laid
<1> QED
    BY <1>3

\* The first characters of a text, and one more.
LEMMA FirstAndNext ==
    ASSUME NEW S, NEW o \in Seq(S), NEW k \in 0 .. Len(o)
    PROVE  /\ SubSeq(o, 1, k) \in Seq(S) /\ Len(SubSeq(o, 1, k)) = k
           /\ k < Len(o) => o[k + 1] \in S
                            /\ SubSeq(o, 1, k + 1) = Append(SubSeq(o, 1, k), o[k + 1])
<1>1. Len(o) \in Nat /\ k \in Nat /\ \A i \in 1 .. k : o[i] \in S
    OBVIOUS
<1>2. SubSeq(o, 1, k) \in Seq(S) /\ Len(SubSeq(o, 1, k)) = k
    BY <1>1, SubSeqProperties
<1>3. CASE k < Len(o)
    <2>1. k + 1 \in 1 .. Len(o) /\ (k + 1) - 1 = k /\ 1 \in 1 .. Len(o)
        BY <1>1, <1>3
    <2>2. o[k + 1] \in S
        BY <2>1
    <2>3. SubSeq(o, 1, k + 1) = SubSeq(o, 1, (k + 1) - 1) \o <<o[k + 1]>>
        BY <2>1, SubSeqRecursiveSecond
    <2>4. Append(SubSeq(o, 1, k), o[k + 1]) = SubSeq(o, 1, k) \o <<o[k + 1]>>
        BY <1>2, <2>2, AppendIsConcat
    <2> QED
        BY <1>2, <2>1, <2>2, <2>3, <2>4
<1> QED
    BY <1>2, <1>3

-----------------------------------------------------------------------------
(* The string of the beginning.                                            *)

\* A property of 0 that goes from each number below k to the next holds up to k.
LEMMA Induct ==
    ASSUME NEW k \in Nat, NEW S, 0 \in S, \A i \in 0 .. k - 1 : i \in S => i + 1 \in S
    PROVE  0 .. k \subseteq S
<1> DEFINE T == {i \in 0 .. k : i \notin S}
<1> SUFFICES ASSUME T # {} PROVE FALSE
    OBVIOUS
<1>1. \E x \in T : \A y \in T : <<y, x>> \notin OpToRel(<, Nat)
    <2>1. T \subseteq Nat
        OBVIOUS
    <2> HIDE DEF T
    <2> QED
        BY <2>1, WFMin, NatLessThanWellFounded, Zenon
<1>2. PICK x \in T : \A y \in T : ~(y < x)
    <2>1. \A y \in T : y \in Nat
        OBVIOUS
    <2> HIDE DEF T
    <2> QED
        BY <1>1, <2>1, Zenon DEF OpToRel
<1>3. x - 1 \in 0 .. k - 1 /\ x - 1 \in S
    BY <1>2
<1> QED
    BY <1>2, <1>3

\* The members of a sequence up to each, one after the other (FlattenSeq).
Joined(f, s, n) == f = [i \in 1 .. n |-> IF i = 1 THEN s[i] ELSE f[i - 1] \o s[i]]

\* There is a function like this.
LEMMA JoinedIs == ASSUME NEW s, NEW n \in Nat PROVE \E f : Joined(f, s, n)
<1> DEFINE S == {k \in 0 .. n : \E f : Joined(f, s, k)}
<1>1. 0 \in S
    <2>1. Joined([i \in 1 .. 0 |-> s], s, 0)
        BY DEF Joined
    <2> QED
        BY <2>1
<1>2. ASSUME NEW k \in 0 .. n - 1, k \in S PROVE k + 1 \in S
    <2>1. PICK f : Joined(f, s, k)
        BY <1>2
    <2> DEFINE last == IF k = 0 THEN s[1] ELSE f[k] \o s[k + 1]
               g == [i \in 1 .. k + 1 |-> IF i = k + 1 THEN last ELSE f[i]]
               h == [i \in 1 .. k + 1 |-> IF i = 1 THEN s[i] ELSE g[i - 1] \o s[i]]
    <2>2. \A i \in 1 .. k : f[i] = IF i = 1 THEN s[i] ELSE f[i - 1] \o s[i]
        BY <2>1 DEF Joined
    <2>3. g[k + 1] = last /\ \A i \in 1 .. k : g[i] = f[i]
        <3>1. k + 1 \in 1 .. k + 1 /\ \A i \in 1 .. k : i \in 1 .. k + 1 /\ i # k + 1
            OBVIOUS
        <3> HIDE DEF last
        <3> QED
            BY <3>1
    <2>4. ASSUME NEW i \in 1 .. k + 1 PROVE g[i] = h[i]
        <3>1. h[i] = IF i = 1 THEN s[i] ELSE g[i - 1] \o s[i]
            OBVIOUS
        <3>2. CASE i = 1
            <4> HIDE DEF g, h
            <4>1. k # 0 => 1 \in 1 .. k /\ f[1] = s[1]
                BY <2>2
            <4> QED
                BY <2>3, <3>1, <3>2, <4>1
        <3>3. CASE i # 1 /\ i \in 1 .. k
            <4>1. i - 1 \in 1 .. k
                BY <3>3
            <4> HIDE DEF g, h
            <4> QED
                BY <2>2, <2>3, <3>1, <3>3, <4>1
        <3>4. CASE i # 1 /\ i = k + 1
            <4>1. k \in 1 .. k /\ i - 1 = k /\ k # 0
                BY <3>4
            <4> HIDE DEF g, h
            <4> QED
                BY <2>3, <3>1, <3>4, <4>1
        <3> QED
            BY <3>2, <3>3, <3>4
    <2>5. g = h
        BY <2>4
    <2>6. Joined(g, s, k + 1)
        BY <2>5 DEF Joined
    <2> HIDE DEF g
    <2> QED
        BY <2>6
<1>3. 0 .. n \subseteq S
    <2> HIDE DEF S
    <2> QED
        BY <1>1, <1>2, Induct
<1> QED
    BY <1>3

\* What the standard has for a text is laid out as it.
LEMMA StandardIsLaid ==
    ASSUME NEW o \in Seq(Unicode)
    PROVE  \E s, at : Laid(s, o, at) /\ StandardString(o) = s \o <<Terminator>>
<1> DEFINE n == Len(o)
           s == [i \in DOMAIN o |-> Standard(o[i])]
           all == FlattenSeq(s)
           Rec(f) == Joined(f, s, n)
           f == CHOOSE g : Rec(g)
           Good(k) == \E at : Laid(f[k + 1], SubSeq(o, 1, k + 1), at)
           S == {k \in 0 .. n - 1 : Good(k)}
<1>1. n \in Nat /\ DOMAIN o = 1 .. n /\ \A i \in 1 .. n : o[i] \in Unicode
    OBVIOUS
<1>2. Len(s) = n /\ \A i \in 1 .. n : s[i] = Standard(o[i])
    BY <1>1
<1>3. StandardString(o) = all \o <<Terminator>>
    BY DEF StandardString
<1>4. CASE n = 0
    <2>1. o = <<>> /\ s = <<>>
        BY <1>1, <1>4
    <2>2. all = <<>>
        BY <2>1 DEF FlattenSeq
    <2> HIDE DEF all
    <2> QED
        BY <1>3, <2>1, <2>2, NothingIsLaid
<1>5. CASE n # 0
    <2>1. n - 1 \in Nat /\ n \in Nat \ {0}
        BY <1>1, <1>5
    <2> HIDE DEF n
    <2>2. all = f[n]
        <3> HIDE DEF s
        <3> QED
            BY <1>2, <2>1 DEF FlattenSeq, Joined
    <2> HIDE DEF s, all
    <2>3. Rec(f)
        <3>1. \E g : Rec(g)
            BY <2>1, JoinedIs
        <3> HIDE DEF Rec
        <3> QED
            BY <3>1
    <2> HIDE DEF f
    <2>4. \A i \in 1 .. n : f[i] = IF i = 1 THEN s[i] ELSE f[i - 1] \o s[i]
        BY <2>3 DEF Joined
    <2>5. 0 \in S
        <3>1. f[1] = Standard(o[1]) /\ 0 \in 0 .. n - 1 /\ o[1] \in Unicode /\ 0 < n
            BY <1>1, <1>2, <2>1, <2>4
        <3>2. SubSeq(o, 1, 0 + 1) = Append(SubSeq(o, 1, 0), o[0 + 1]) /\ SubSeq(o, 1, 0) = <<>>
            BY <1>1, <3>1, FirstAndNext DEF n
        <3>3. PICK at : Laid(<<>>, <<>>, at)
            BY NothingIsLaid
        <3>4. Encodes(Standard(o[1]), o[1])
            BY <3>1, StandardEncodes
        <3>5. \E at2 : Laid(<<>> \o Standard(o[1]), Append(<<>>, o[1]), at2)
            BY <3>1, <3>3, <3>4, Grows
        <3>6. <<>> \o Standard(o[1]) = Standard(o[1])
            BY <3>4, ConcatEmptySeq DEF Encodes
        <3>7. 0 + 1 = 1
            OBVIOUS
        <3>8. SubSeq(o, 1, 1) = Append(<<>>, o[1])
            BY <3>2, <3>7
        <3>9. Good(0)
            BY <3>1, <3>5, <3>6, <3>7, <3>8
        <3> QED
            BY <3>1, <3>9
    <2>6. ASSUME NEW k \in 0 .. (n - 1) - 1, k \in S PROVE k + 1 \in S
        <3>1. /\ k + 1 \in 0 .. n - 1 /\ k + 1 \in 0 .. n /\ k + 1 < n /\ (k + 1) + 1 \in 1 .. n
              /\ (k + 1) + 1 # 1 /\ ((k + 1) + 1) - 1 = k + 1
            BY <2>1
        <3> DEFINE c == o[(k + 1) + 1]
        <3>2. c \in Unicode /\ SubSeq(o, 1, (k + 1) + 1) = Append(SubSeq(o, 1, k + 1), c)
            BY <3>1, FirstAndNext DEF n
        <3>3. f[(k + 1) + 1] = f[k + 1] \o Standard(c)
            BY <1>2, <2>4, <3>1
        <3> HIDE DEF c
        <3>4. PICK at : Laid(f[k + 1], SubSeq(o, 1, k + 1), at)
            BY <2>6
        <3>5. Encodes(Standard(c), c)
            BY <3>2, StandardEncodes
        <3>6. \E at2 : Laid(f[k + 1] \o Standard(c), Append(SubSeq(o, 1, k + 1), c), at2)
            BY <3>2, <3>4, <3>5, Grows
        <3> QED
            BY <3>1, <3>2, <3>3, <3>6
    <2>7. 0 .. n - 1 \subseteq S
        <3> HIDE DEF S
        <3> QED
            BY <2>1, <2>5, <2>6, Induct
    <2>8. Good(n - 1) /\ (n - 1) + 1 = n
        <3>1. n - 1 \in 0 .. n - 1 /\ (n - 1) + 1 = n
            BY <2>1
        <3> QED
            BY <2>7, <3>1
    <2>9. SubSeq(o, 1, n) = o
        BY SubSeqFull DEF n
    <2> QED
        BY <1>3, <2>2, <2>8, <2>9
<1> QED
    BY <1>4, <1>5

-----------------------------------------------------------------------------
(* The loops.                                                              *)

\* The first k characters are read.
Reads ==
    \E s, at : \E k \in 0 .. Len(original) :
        /\ Laid(s, original, at) /\ string = s \o <<Terminator>>
        /\ code_points = SubSeq(original, 1, k) /\ iter_cursor = at[k + 1]

\* The first k characters are written.
Writes ==
    \E at : \E k \in 0 .. Len(original) :
        /\ Laid(dest, SubSeq(original, 1, k), at)
        /\ code_points = SubSeq(original, k + 1, Len(original))
        /\ iter_cursor = Len(dest) + 1

\* What ReadsWhatIsThere needs to be inductive: where the cursor stands, and
\* that the string it stands in is the original text's.
IInv ==
    /\ original \in Seq(Unicode)
    /\ phase \in {"read", "write", "reread", "done"}
    /\ phase \in {"read", "reread"} => Reads
    /\ phase = "read" => dest = <<>>
    /\ phase = "write" => Writes
    /\ phase = "done" => code_points = original

LEMMA IInvInit == Init => IInv
<1> SUFFICES ASSUME Init PROVE IInv
    OBVIOUS
<1>1. original \in Seq(Unicode)
    <2>1. PICK n \in 0 .. MaxLength : original \in [1 .. n -> CodePoint]
        BY DEF Init
    <2>2. CodePoint \subseteq Unicode /\ n \in Nat
        BY CodePointAssumption
    <2> QED
        BY <2>1, <2>2
<1>2. PICK s, at : Laid(s, original, at) /\ string = s \o <<Terminator>>
    BY <1>1, StandardIsLaid DEF Init
<1>3. 0 \in 0 .. Len(original) /\ 0 + 1 = 1 /\ SubSeq(original, 1, 0) = <<>>
    <2>1. 0 \in 0 .. Len(original)
        BY <1>1
    <2>2. 0 < 1 /\ 0 \in Int /\ 1 \in Int
        OBVIOUS
    <2> QED
        BY <2>1, <2>2, SubSeqEmpty
<1>4. at[1] = 1
    BY <1>2 DEF Laid
<1>5. Reads
    BY <1>2, <1>3, <1>4 DEF Reads, Init
<1> QED
    BY <1>1, <1>5 DEF IInv, Init

\* A reader of t is behind k characters of o.
Behind(t, s, o, at, k) == Laid(s, o, at) /\ k \in 0 .. Len(o) /\ t = s \o <<Terminator>>

\* What the cursor of a reader stands on: a character, or the NUL.
LEMMA AtTheCursor ==
    ASSUME NEW s, NEW o, NEW at, NEW k, NEW t, Behind(t, s, o, at, k)
    PROVE  /\ Len(t) = Len(s) + 1 /\ at[k + 1] \in DOMAIN t
           /\ utf8_char_length(t[at[k + 1]]) # 0 /\ utf8_char_length(t[at[k + 1]]) \in Nat
           /\ t[at[k + 1]] = Terminator <=> k = Len(o)
           /\ k < Len(o) => /\ utf8_decode(t, at[k + 1]) = o[k + 1]
                            /\ at[(k + 1) + 1] = at[k + 1] + utf8_char_length(t[at[k + 1]])
<1> Laid(s, o, at) /\ k \in 0 .. Len(o) /\ t = s \o <<Terminator>>
    BY DEF Behind
<1>1. /\ s \in Seq(Nat) /\ Len(s) \in Nat /\ Len(o) \in Nat /\ at[Len(o) + 1] = Len(s) + 1
      /\ <<Terminator>> \in Seq(Nat) /\ Len(<<Terminator>>) = 1 /\ <<Terminator>>[1] = Terminator
    <2>1. s \in Seq(Nat) /\ o \in Seq(Unicode) /\ at[Len(o) + 1] = Len(s) + 1
        BY DEF Laid
    <2> QED
        BY <2>1 DEF Terminator
<1>2. Len(t) = Len(s) + 1 /\ DOMAIN t = 1 .. Len(s) + 1 /\ t[Len(s) + 1] = Terminator
    <2>1. t \in Seq(Nat) /\ Len(t) = Len(s) + 1
        BY <1>1, ConcatProperties
    <2>2. Len(s) + 1 \in 1 .. Len(s) + 1 /\ ~(Len(s) + 1 <= Len(s)) /\ (Len(s) + 1) - Len(s) = 1
        BY <1>1
    <2>3. t[Len(s) + 1] = <<Terminator>>[(Len(s) + 1) - Len(s)]
        BY <1>1, <2>2, ConcatProperties
    <2> QED
        BY <1>1, <2>1, <2>2, <2>3
<1>3. CASE k = Len(o)
    <2>1. at[k + 1] = Len(s) + 1 /\ Len(s) + 1 \in DOMAIN t /\ ~(k < Len(o))
        BY <1>1, <1>2, <1>3
    <2>2. utf8_char_length(Terminator) = 1
        BY DEF utf8_char_length, Terminator
    <2> QED
        BY <1>2, <1>3, <2>1, <2>2
<1>4. CASE k < Len(o)
    <2> DEFINE i == k + 1
    <2>1. i \in 1 .. Len(o) /\ k # Len(o)
        BY <1>1, <1>4
    <2> HIDE DEF i
    <2>2. /\ at[i] \in Nat \ {0} /\ at[i] <= Len(s)
          /\ t[at[i]] = s[at[i]] /\ s[at[i]] # Terminator
          /\ at[i + 1] = at[i] + utf8_char_length(s[at[i]])
          /\ utf8_char_length(s[at[i]]) \in 1 .. 4
          /\ utf8_decode(t, at[i]) = o[i]
        <3> DEFINE u == <<Terminator>>
        <3>1. u \in Seq(Nat)
            BY <1>1
        <3>2. t = s \o u
            OBVIOUS
        <3> HIDE DEF u
        <3>3. /\ at[i] \in Nat \ {0} /\ at[i] <= Len(s)
              /\ (s \o u)[at[i]] = s[at[i]] /\ s[at[i]] # Terminator
              /\ at[i + 1] = at[i] + utf8_char_length(s[at[i]])
              /\ utf8_char_length(s[at[i]]) \in 1 .. 4
              /\ utf8_decode(s \o u, at[i]) = o[i]
            BY <2>1, <3>1, ReadsInFront
        <3> QED
            BY <3>2, <3>3
    <2>3. at[i] \in DOMAIN t
        BY <1>1, <1>2, <2>2
    <2>4. utf8_char_length(s[at[i]]) # 0 /\ utf8_char_length(s[at[i]]) \in Nat
        BY <2>2
    <2> QED
        BY <1>2, <2>1, <2>2, <2>3, <2>4 DEF i
<1> QED
    BY <1>1, <1>3, <1>4

LEMMA ReadCharacterKeeps == IInv /\ ReadCharacter => IInv'
<1> SUFFICES ASSUME IInv, ReadCharacter PROVE IInv'
    OBVIOUS
<1>1. /\ original \in Seq(Unicode) /\ phase \in {"read", "reread"}
      /\ phase = "read" => dest = <<>>
    BY DEF IInv, ReadCharacter
<1>2. PICK s, at : \E k \in 0 .. Len(original) :
          /\ Laid(s, original, at) /\ string = s \o <<Terminator>>
          /\ code_points = SubSeq(original, 1, k) /\ iter_cursor = at[k + 1]
    BY <1>1 DEF IInv, Reads
<1>3. PICK k \in 0 .. Len(original) :
          /\ Laid(s, original, at) /\ string = s \o <<Terminator>>
          /\ code_points = SubSeq(original, 1, k) /\ iter_cursor = at[k + 1]
    BY <1>2
<1>4. Behind(string, s, original, at, k)
    BY <1>3 DEF Behind
<1>5. k + 1 \in 0 .. Len(original) /\ k < Len(original)
    <2>1. string[iter_cursor] # Terminator /\ iter_cursor = at[k + 1]
        BY <1>3 DEF ReadCharacter
    <2>2. k # Len(original)
        BY <1>4, <2>1, AtTheCursor
    <2> QED
        BY <1>1, <2>2
<1>6. utf8_decode(string, iter_cursor) = original[k + 1]
      /\ at[(k + 1) + 1] = iter_cursor + utf8_char_length(string[iter_cursor])
    <2>1. iter_cursor = at[k + 1]
        BY <1>3
    <2> QED
        BY <1>4, <1>5, <2>1, AtTheCursor
<1>7. SubSeq(original, 1, k + 1) = Append(SubSeq(original, 1, k), original[k + 1])
    BY <1>1, <1>5, FirstAndNext
<1>8. code_points' = SubSeq(original, 1, k + 1) /\ iter_cursor' = at[(k + 1) + 1]
    BY <1>3, <1>6, <1>7 DEF ReadCharacter
<1>9. UNCHANGED <<original, string, dest, phase>>
    BY DEF ReadCharacter
<1>10. Reads'
    BY <1>3, <1>5, <1>8, <1>9 DEF Reads
<1> QED
    BY <1>1, <1>9, <1>10 DEF IInv

LEMMA EndOfStringKeeps == IInv /\ EndOfString => IInv'
<1> SUFFICES ASSUME IInv, EndOfString PROVE IInv'
    OBVIOUS
<1>1. /\ original \in Seq(Unicode) /\ phase \in {"read", "reread"}
      /\ phase = "read" => dest = <<>>
    BY DEF IInv, EndOfString
<1>2. PICK s, at : \E k \in 0 .. Len(original) :
          /\ Laid(s, original, at) /\ string = s \o <<Terminator>>
          /\ code_points = SubSeq(original, 1, k) /\ iter_cursor = at[k + 1]
    BY <1>1 DEF IInv, Reads
<1>3. PICK k \in 0 .. Len(original) :
          /\ Laid(s, original, at) /\ string = s \o <<Terminator>>
          /\ code_points = SubSeq(original, 1, k) /\ iter_cursor = at[k + 1]
    BY <1>2
<1>4. k = Len(original)
    <2>1. string[iter_cursor] = Terminator /\ iter_cursor = at[k + 1]
        BY <1>3 DEF EndOfString
    <2>2. Behind(string, s, original, at, k)
        BY <1>3 DEF Behind
    <2> QED
        BY <2>1, <2>2, AtTheCursor
<1>5. code_points = original
    BY <1>1, <1>3, <1>4, SubSeqFull
<1>6. UNCHANGED <<original, code_points, dest>> /\ iter_cursor' = 1
    BY DEF EndOfString
<1>7. CASE phase = "read"
    <2>1. phase' = "write" /\ dest' = <<>>
        BY <1>1, <1>6, <1>7 DEF EndOfString
    <2>2. 0 \in 0 .. Len(original) /\ 0 + 1 = 1 /\ Len(<<>>) + 1 = 1
        BY <1>1
    <2>3. SubSeq(original, 1, 0) = <<>>
        BY SubSeqEmpty
    <2>4. SubSeq(original, 0 + 1, Len(original)) = original
        BY <1>1, <2>2, SubSeqFull
    <2>5. Writes'
        BY <1>5, <1>6, <2>1, <2>2, <2>3, <2>4, NothingIsLaid DEF Writes
    <2> QED
        BY <1>1, <1>6, <2>1, <2>5 DEF IInv
<1>8. CASE phase = "reread"
    BY <1>1, <1>5, <1>6, <1>8 DEF IInv, EndOfString
<1> QED
    BY <1>1, <1>7, <1>8

LEMMA WriteCharacterKeeps == IInv /\ WriteCharacter => IInv'
<1> SUFFICES ASSUME IInv, WriteCharacter PROVE IInv'
    OBVIOUS
<1>1. original \in Seq(Unicode) /\ phase = "write" /\ code_points # <<>> /\ Len(original) \in Nat
    BY DEF IInv, WriteCharacter
<1>2. PICK at : \E k \in 0 .. Len(original) :
          /\ Laid(dest, SubSeq(original, 1, k), at)
          /\ code_points = SubSeq(original, k + 1, Len(original))
          /\ iter_cursor = Len(dest) + 1
    BY <1>1 DEF IInv, Writes
<1>3. PICK k \in 0 .. Len(original) :
          /\ Laid(dest, SubSeq(original, 1, k), at)
          /\ code_points = SubSeq(original, k + 1, Len(original))
          /\ iter_cursor = Len(dest) + 1
    BY <1>2
<1> DEFINE c == original[k + 1]
           b == utf8_encode(c)
<1>4. k + 1 \in 1 .. Len(original) /\ k < Len(original) /\ k + 1 \in 0 .. Len(original)
    <2>1. CASE k = Len(original)
        <3>1. Len(original) < k + 1 /\ k + 1 \in Int /\ Len(original) \in Int
            BY <1>1, <2>1
        <3> QED
            BY <1>1, <1>3, <3>1, SubSeqEmpty
    <2> QED
        BY <1>1, <2>1
<1>5. Head(code_points) = c /\ Tail(code_points) = SubSeq(original, (k + 1) + 1, Len(original))
    <2>1. Len(original) \in k + 1 .. Len(original)
        BY <1>1, <1>4
    <2> QED
        BY <1>1, <1>3, <1>4, <2>1, HeadTailOfSubSeq
<1>6. c \in Unicode /\ SubSeq(original, 1, k + 1) = Append(SubSeq(original, 1, k), c)
    BY <1>1, <1>4, FirstAndNext
<1> HIDE DEF c
<1>7. Encodes(b, c)
    BY <1>6, EncodeEncodes
<1> HIDE DEF b
<1>8. b \in Seq(Nat) /\ Head(b) = b[1] /\ Len(b) \in Nat /\ dest \in Seq(Nat) /\ Len(dest) \in Nat
    BY <1>3, <1>7 DEF Encodes, Laid
<1>9. dest' = dest \o b
    <2>1. SubSeq(dest, 1, iter_cursor - 1) = dest
        <3>1. iter_cursor - 1 = Len(dest)
            BY <1>3, <1>8
        <3> QED
            BY <1>8, <3>1, SubSeqFull
    <2> QED
        BY <1>5, <2>1 DEF WriteCharacter, b
<1>10. iter_cursor' = Len(dest') + 1
    <2>1. iter_cursor' = iter_cursor + utf8_char_length(Head(b))
        BY <1>5 DEF WriteCharacter, b
    <2>2. iter_cursor' = iter_cursor + Len(b)
        <3>1. utf8_char_length(Head(b)) = Len(b)
            BY <1>7, <1>8 DEF Encodes
        <3> QED
            BY <2>1, <3>1
    <2>3. Len(dest \o b) = Len(dest) + Len(b)
        BY <1>8, ConcatProperties
    <2>4. iter_cursor = Len(dest) + 1 /\ Len(dest') = Len(dest) + Len(b)
        BY <1>3, <1>9, <2>3
    <2> QED
        BY <1>8, <2>2, <2>4
<1>11. \E at2 : Laid(dest \o b, Append(SubSeq(original, 1, k), c), at2)
    BY <1>3, <1>6, <1>7, Grows
<1>12. code_points' = Tail(code_points) /\ UNCHANGED <<original, string, phase>>
    BY DEF WriteCharacter
<1>13. Writes'
    BY <1>4, <1>5, <1>6, <1>9, <1>10, <1>11, <1>12 DEF Writes
<1> QED
    BY <1>1, <1>12, <1>13 DEF IInv

LEMMA EndOfTextKeeps == IInv /\ EndOfText => IInv'
<1> SUFFICES ASSUME IInv, EndOfText PROVE IInv'
    OBVIOUS
<1>1. /\ original \in Seq(Unicode) /\ Len(original) \in Nat /\ phase = "write" /\ code_points = <<>>
      /\ string' = Append(dest, Terminator) /\ iter_cursor' = 1 /\ phase' = "reread"
      /\ UNCHANGED <<original, code_points, dest>>
    BY DEF IInv, EndOfText
<1>2. PICK at : \E k \in 0 .. Len(original) :
          /\ Laid(dest, SubSeq(original, 1, k), at)
          /\ code_points = SubSeq(original, k + 1, Len(original))
    BY <1>1 DEF IInv, Writes
<1>3. PICK k \in 0 .. Len(original) :
          /\ Laid(dest, SubSeq(original, 1, k), at)
          /\ code_points = SubSeq(original, k + 1, Len(original))
    BY <1>2
<1>4. k = Len(original)
    <2>1. CASE k < Len(original)
        <3>1. k + 1 \in Int /\ Len(original) \in Int /\ k + 1 <= Len(original)
              /\ \A i \in k + 1 .. Len(original) : original[i] \in Unicode
            BY <1>1, <2>1
        <3>2. Len(SubSeq(original, k + 1, Len(original))) = Len(original) - (k + 1) + 1
            BY <3>1, SubSeqProperties
        <3>3. Len(code_points) = 0 /\ Len(code_points) = Len(original) - (k + 1) + 1
            BY <1>1, <1>3, <3>2
        <3> QED
            BY <1>1, <2>1, <3>3
    <2> QED
        BY <1>1, <2>1
<1>5. Laid(dest, original, at)
    BY <1>1, <1>3, <1>4, SubSeqFull
<1>6. string' = dest \o <<Terminator>>
    <2>1. dest \in Seq(Nat) /\ Terminator \in Nat
        BY <1>5 DEF Laid, Terminator
    <2> QED
        BY <1>1, <2>1, AppendIsConcat
<1>7. 0 \in 0 .. Len(original) /\ 0 + 1 = 1
    BY <1>1
<1>8. SubSeq(original, 1, 0) = <<>>
    BY SubSeqEmpty
<1>9. at[1] = 1
    BY <1>5 DEF Laid
<1>10. Reads'
    BY <1>1, <1>5, <1>6, <1>7, <1>8, <1>9 DEF Reads
<1> QED
    BY <1>1, <1>10 DEF IInv

LEMMA IInvReads == IInv => ReadsWhatIsThere
<1> SUFFICES ASSUME IInv PROVE ReadsWhatIsThere
    OBVIOUS
<1>1. CASE phase \in {"read", "reread"}
    <2>1. PICK s, at : \E k \in 0 .. Len(original) :
              /\ Laid(s, original, at) /\ string = s \o <<Terminator>>
              /\ code_points = SubSeq(original, 1, k) /\ iter_cursor = at[k + 1]
        BY <1>1 DEF IInv, Reads
    <2>2. PICK k \in 0 .. Len(original) :
              /\ Laid(s, original, at) /\ string = s \o <<Terminator>>
              /\ code_points = SubSeq(original, 1, k) /\ iter_cursor = at[k + 1]
        BY <2>1
    <2>3. iter_cursor \in DOMAIN string /\ utf8_char_length(string[iter_cursor]) > 0
        <3>1. /\ iter_cursor \in DOMAIN string
              /\ utf8_char_length(string[iter_cursor]) # 0 /\ utf8_char_length(string[iter_cursor]) \in Nat
            <4>1. Behind(string, s, original, at, k) /\ iter_cursor = at[k + 1]
                BY <2>2 DEF Behind
            <4> QED
                BY <4>1, AtTheCursor
        <3> QED
            BY <3>1
    <2>4. IsPrefix(code_points, original)
        <3>1. original \in Seq(Unicode) /\ Len(original) \in Nat /\ k <= Len(original)
            BY DEF IInv
        <3>2. Len(code_points) = k
            BY <2>2, <3>1, FirstAndNext
        <3>3. SubSeq(code_points, 1, k) = code_points
            <4>1. code_points \in Seq(Unicode)
                BY <2>2, <3>1, FirstAndNext
            <4> QED
                BY <3>2, <4>1, SubSeqFull
        <3> QED
            BY <2>2, <3>1, <3>2, <3>3 DEF IsPrefix
    <2> QED
        BY <1>1, <2>3, <2>4 DEF ReadsWhatIsThere
<1>2. CASE phase = "write"
    BY <1>2 DEF IInv, Writes, ReadsWhatIsThere
<1>3. CASE phase = "done"
    BY <1>3 DEF IInv, ReadsWhatIsThere
<1> QED
    BY <1>1, <1>2, <1>3 DEF IInv

\* text_from_string and text_to_string never get out of step with the lengths
\* of the characters, for any text of code points that utf8_encode_into takes:
\* what is read is a prefix of what is there, and a text that was written is
\* read again as the same.
THEOREM TextsAreRead == Spec => []ReadsWhatIsThere
<1>1. IInv /\ [Next]_vars => IInv'
    <2> SUFFICES ASSUME IInv, [Next]_vars PROVE IInv'
        OBVIOUS
    <2>1. CASE UNCHANGED vars
        BY <2>1 DEF IInv, Reads, Writes, vars
    <2>2. CASE Next
        BY <2>2, ReadCharacterKeeps, EndOfStringKeeps, WriteCharacterKeeps, EndOfTextKeeps DEF Next
    <2> QED
        BY <2>1, <2>2
<1> QED
    BY <1>1, IInvInit, IInvReads, PTL DEF Spec

-----------------------------------------------------------------------------
(* Tokens: where a search ends, and which line it is then.                 *)

LEMMA LeastIs ==
    ASSUME NEW S, S \subseteq Nat, S # {}
    PROVE  Min(S) \in S /\ \A y \in S : Min(S) <= y
<1>1. \E x \in S : \A y \in S : <<y, x>> \notin OpToRel(<, Nat)
    BY WFMin, NatLessThanWellFounded, Zenon
<1>2. PICK x \in S : \A y \in S : ~(y < x)
    <2>1. \A y \in S : y \in Nat
        OBVIOUS
    <2> QED
        BY <1>1, <2>1, Zenon DEF OpToRel
<1>3. x \in S /\ \A y \in S : x <= y
    BY <1>2
<1> QED
    BY <1>3 DEF Min

\* Until finds the first of the ends, or the end of the text.
LEMMA UntilIs ==
    ASSUME text \in Seq(STRING), NEW i \in 0 .. Len(text), NEW ends \in SUBSET Indices
    PROVE  /\ Until(i, ends) \in i .. Len(text)
           /\ \A k \in i .. Until(i, ends) - 1 : k \notin ends
           /\ Until(i, ends) = Len(text) \/ Until(i, ends) \in ends
<1> DEFINE S == {j \in ends : j >= i} \union {Len(text)}
<1>1. Len(text) \in Nat /\ i \in Nat /\ \A j \in ends : j \in 0 .. Len(text) - 1
    BY DEF Indices
<1>2. S \subseteq Nat /\ S # {} /\ Len(text) \in S
    BY <1>1
<1>3. Until(i, ends) = Min(S)
    BY DEF Until
<1>4. Min(S) \in S /\ \A y \in S : Min(S) <= y
    <2> HIDE DEF S
    <2> QED
        BY <1>2, LeastIs
<1>5. Min(S) \in i .. Len(text)
    BY <1>1, <1>2, <1>4
<1>6. ASSUME NEW k \in i .. Min(S) - 1, k \in ends PROVE FALSE
    BY <1>1, <1>4, <1>5, <1>6
<1> QED
    BY <1>3, <1>4, <1>5, <1>6

LEMMA LineOfNext ==
    ASSUME text \in Seq(STRING), NEW i \in 0 .. Len(text)
    PROVE  /\ LineOf(i) \in Nat /\ LineOf(0) = 1
           /\ i < Len(text) =>
                LineOf(i + 1) = IF text[i + 1] = Newline THEN LineOf(i) + 1 ELSE LineOf(i)
<1> DEFINE N(k) == {j \in 1 .. k : text[j] = Newline}
<1>1. i \in Nat /\ 1 .. 0 = {} /\ 1 .. i + 1 = (1 .. i) \union {i + 1}
    OBVIOUS
<1>2. IsFiniteSet(N(i)) /\ Cardinality(N(i)) \in Nat
    <2>1. IsFiniteSet(1 .. i) /\ N(i) \in SUBSET (1 .. i)
        BY <1>1, FS_Interval
    <2> HIDE DEF N
    <2> QED
        BY <2>1, FS_Subset, FS_CardinalityType
<1>3. N(0) = {} /\ Cardinality({}) = 0
    BY <1>1, FS_EmptySet
<1>4. i + 1 \notin N(i)
    BY <1>1
<1>5. N(i + 1) = IF text[i + 1] = Newline THEN N(i) \union {i + 1} ELSE N(i)
    BY <1>1
<1>6. Cardinality(N(i) \union {i + 1}) = Cardinality(N(i)) + 1
    <2> HIDE DEF N
    <2> QED
        BY <1>2, <1>4, FS_AddElement
<1>7. /\ LineOf(i) = 1 + Cardinality(N(i)) /\ LineOf(0) = 1 + Cardinality(N(0))
      /\ LineOf(i + 1) = 1 + Cardinality(N(i + 1))
    BY DEF LineOf
<1> HIDE DEF N
<1>8. LineOf(i) \in Nat /\ LineOf(0) = 1
    <2>1. Cardinality(N(0)) = 0
        BY <1>3
    <2>2. LineOf(0) = 1
        BY <1>7, <2>1
    <2> QED
        BY <1>2, <1>7, <2>2
<1>9. CASE text[i + 1] = Newline
    <2>1. Cardinality(N(i + 1)) = Cardinality(N(i)) + 1
        BY <1>5, <1>6, <1>9
    <2>2. LineOf(i + 1) = LineOf(i) + 1
        BY <1>2, <1>7, <2>1
    <2> QED
        BY <1>8, <1>9, <2>2
<1>10. CASE text[i + 1] # Newline
    <2>1. LineOf(i + 1) = LineOf(i)
        BY <1>5, <1>7, <1>10
    <2> QED
        BY <1>8, <1>10, <2>1
<1> QED
    BY <1>9, <1>10

\* k steps in D, from `first` at a; the ith is the function G[i].
Steps(a, k, D, first, G) ==
    /\ a \in Nat /\ k \in Nat /\ first \in D /\ G \in [a + 1 .. a + k -> [D -> D]]

\* They are taken.
Taken(f, a, k, D, first, G) ==
    /\ f \in [a .. a + k -> D] /\ f[a] = first
    /\ \A i \in a + 1 .. a + k : f[i] = G[i][f[i - 1]]

LEMMA StepsAreTaken ==
    ASSUME NEW a, NEW k, NEW D, NEW first, NEW G, Steps(a, k, D, first, G)
    PROVE  \E f : Taken(f, a, k, D, first, G)
<1> a \in Nat /\ k \in Nat /\ first \in D /\ G \in [a + 1 .. a + k -> [D -> D]]
    BY DEF Steps
<1> DEFINE Good(j, f) == /\ f \in [a .. a + j -> D] /\ f[a] = first
                         /\ \A i \in a + 1 .. a + j : f[i] = G[i][f[i - 1]]
           S == {j \in 0 .. k : \E f : Good(j, f)}
<1>1. 0 \in S
    <2>1. a \in a .. a + 0 /\ a + 1 .. a + 0 = {}
        OBVIOUS
    <2>2. [i \in a .. a + 0 |-> first] \in [a .. a + 0 -> D]
        OBVIOUS
    <2>3. Good(0, [i \in a .. a + 0 |-> first])
        BY <2>1, <2>2
    <2> HIDE DEF Good
    <2> QED
        BY <2>3
<1>2. ASSUME NEW j \in 0 .. k - 1, j \in S PROVE j + 1 \in S
    <2>1. PICK f : Good(j, f)
        BY <1>2
    <2> DEFINE last == G[a + (j + 1)][f[a + j]]
               g == [i \in a .. a + (j + 1) |-> IF i = a + (j + 1) THEN last ELSE f[i]]
    <2>2. last \in D
        BY <2>1
    <2>3. /\ g \in [a .. a + (j + 1) -> D] /\ g[a + (j + 1)] = last
          /\ \A i \in a .. a + j : g[i] = f[i]
        <3> HIDE DEF last
        <3> QED
            BY <2>1, <2>2
    <2>4. ASSUME NEW i \in a + 1 .. a + (j + 1) PROVE g[i] = G[i][g[i - 1]]
        <3>1. CASE i = a + (j + 1)
            <4>1. i - 1 = a + j /\ a + j \in a .. a + j
                BY <3>1
            <4> HIDE DEF g
            <4> QED
                BY <2>3, <3>1, <4>1
        <3>2. CASE i # a + (j + 1)
            <4>1. i \in a + 1 .. a + j /\ i \in a .. a + j /\ i - 1 \in a .. a + j
                BY <3>2
            <4> HIDE DEF g
            <4> QED
                BY <2>1, <2>3, <4>1
        <3> QED
            BY <3>1, <3>2
    <2>5. g[a] = first
        BY <2>1, <2>3
    <2> HIDE DEF g
    <2>6. Good(j + 1, g)
        BY <2>3, <2>4, <2>5
    <2> QED
        BY <2>6
<1>3. k \in S
    <2> HIDE DEF S
    <2>1. 0 .. k \subseteq S
        BY <1>1, <1>2, Induct
    <2> QED
        BY <2>1
<1>4. \A f : Good(k, f) => Taken(f, a, k, D, first, G)
    BY DEF Taken
<1> HIDE DEF Good
<1> QED
    BY <1>3, <1>4

\* A place in a text.
Somewhere == [lineno : Nat, column : Nat]

LEMMA StepIs ==
    ASSUME NEW p \in Somewhere, NEW c
    PROVE  /\ step(p, c) \in Somewhere
           /\ step(p, c).lineno = IF c = Newline THEN p.lineno + 1 ELSE p.lineno
BY DEF Somewhere, step

\* The line of a place that the lexer goes on to.
LEMMA PlaceAtIs ==
    ASSUME text \in Seq(STRING), cursor \in 0 .. Len(text),
           place \in Somewhere, place.lineno = LineOf(cursor),
           NEW end \in cursor .. Len(text)
    PROVE  PlaceAt(end) \in Somewhere /\ PlaceAt(end).lineno = LineOf(end)
<1> DEFINE k == end - cursor
           Is(f) == f = [i \in cursor .. end |-> IF i = cursor THEN place ELSE step(f[i - 1], text[i])]
           at == CHOOSE f : Is(f)
           G == [i \in cursor + 1 .. cursor + k |-> [p \in Somewhere |-> step(p, text[i])]]
           S == {j \in 0 .. k : at[cursor + j] \in Somewhere
                                /\ at[cursor + j].lineno = LineOf(cursor + j)}
<1>1. /\ cursor \in Nat /\ k \in Nat /\ Len(text) \in Nat /\ end \in Nat
      /\ cursor + k = end
    OBVIOUS
<1> HIDE DEF k
<1>2. PlaceAt(end) = at[end]
    BY DEF PlaceAt
<1>3. \E f : Is(f)
    <2>1. G \in [cursor + 1 .. cursor + k -> [Somewhere -> Somewhere]]
        BY StepIs
    <2> HIDE DEF G
    <2>2. PICK f : /\ f \in [cursor .. cursor + k -> Somewhere] /\ f[cursor] = place
                   /\ \A i \in cursor + 1 .. cursor + k : f[i] = G[i][f[i - 1]]
        <3>1. Steps(cursor, k, Somewhere, place, G)
            BY <1>1, <2>1 DEF Steps
        <3>2. \E f : Taken(f, cursor, k, Somewhere, place, G)
            BY <3>1, StepsAreTaken
        <3> QED
            BY <3>2 DEF Taken
    <2>3. ASSUME NEW i \in cursor .. end
          PROVE  f[i] = IF i = cursor THEN place ELSE step(f[i - 1], text[i])
        <3>1. CASE i = cursor
            BY <2>2, <3>1
        <3>2. CASE i # cursor
            <4>1. i \in cursor + 1 .. cursor + k /\ i - 1 \in cursor .. cursor + k
                BY <1>1, <3>2
            <4>2. f[i - 1] \in Somewhere /\ f[i] = G[i][f[i - 1]]
                BY <2>2, <4>1
            <4> QED
                BY <3>2, <4>1, <4>2 DEF G
        <3> QED
            BY <3>1, <3>2
    <2>4. f = [i \in cursor .. end |-> f[i]]
        BY <1>1, <2>2
    <2>5. Is(f)
        BY <2>3, <2>4
    <2> QED
        BY <2>5
<1> HIDE DEF G
<1>4. Is(at)
    <2> HIDE DEF Is
    <2> QED
        BY <1>3
<1> HIDE DEF at
<1>5. \A i \in cursor .. end : at[i] = IF i = cursor THEN place ELSE step(at[i - 1], text[i])
    BY <1>4
<1> HIDE DEF Is
<1>6. 0 \in S
    BY <1>1, <1>5
<1>7. ASSUME NEW j \in 0 .. k - 1, j \in S PROVE j + 1 \in S
    <2>1. /\ cursor + j \in 0 .. Len(text) /\ cursor + j < Len(text)
          /\ (cursor + j) + 1 = cursor + (j + 1) /\ (cursor + (j + 1)) - 1 = cursor + j
          /\ cursor + (j + 1) # cursor /\ cursor + (j + 1) \in cursor .. end
          /\ j + 1 \in 0 .. k
        BY <1>1
    <2>2. at[cursor + (j + 1)] = step(at[cursor + j], text[cursor + (j + 1)])
        BY <1>5, <2>1
    <2>3. at[cursor + j] \in Somewhere /\ at[cursor + j].lineno = LineOf(cursor + j)
        BY <1>7
    <2>4. LineOf(cursor + (j + 1))
          = IF text[cursor + (j + 1)] = Newline THEN LineOf(cursor + j) + 1 ELSE LineOf(cursor + j)
        BY <2>1, LineOfNext
    <2>5. at[cursor + (j + 1)] \in Somewhere
          /\ at[cursor + (j + 1)].lineno = LineOf(cursor + (j + 1))
        BY <2>2, <2>3, <2>4, StepIs
    <2> QED
        BY <2>1, <2>5
<1>8. k \in S
    <2> HIDE DEF S
    <2>1. 0 .. k \subseteq S
        BY <1>1, <1>6, <1>7, Induct
    <2> QED
        BY <1>1, <2>1
<1> QED
    BY <1>1, <1>2, <1>8

-----------------------------------------------------------------------------
(* Strings in a text.                                                      *)

\* What is in the buffer of collect_string, if nothing is escaped.
Buffers == [buffer : Seq(STRING), length : Nat, next : {"char", "closed"}]

LEMMA CollectCharIs ==
    ASSUME NEW s \in Buffers, NEW c \in STRING, c # Backslash
    PROVE  /\ CollectChar(s, c) \in Buffers
           /\ s.next = "closed" => CollectChar(s, c) = s
           /\ s.next = "char" /\ c = Quote =>
                CollectChar(s, c) = [buffer |-> s.buffer, length |-> s.length, next |-> "closed"]
           /\ s.next = "char" /\ c # Quote =>
                CollectChar(s, c) = [buffer |-> Append(s.buffer, c), length |-> s.length + 1,
                                     next |-> "char"]
<1>1. /\ s.buffer \in Seq(STRING) /\ s.length \in Nat /\ s.next \in {"char", "closed"}
      /\ s = [buffer |-> s.buffer, length |-> s.length, next |-> s.next]
      /\ Append(s.buffer, c) \in Seq(STRING)
    BY DEF Buffers
<1>2. CASE s.next = "closed"
    BY <1>2 DEF CollectChar
<1>3. CASE s.next = "char" /\ c = Quote
    <2>1. CollectChar(s, c) = [s EXCEPT !.next = "closed"]
        BY <1>3 DEF CollectChar
    <2>2. [s EXCEPT !.next = "closed"]
          = [buffer |-> s.buffer, length |-> s.length, next |-> "closed"]
        BY <1>1
    <2> QED
        BY <1>1, <1>3, <2>1, <2>2 DEF Buffers
<1>4. CASE s.next = "char" /\ c # Quote
    <2>1. CollectChar(s, c) = [[s EXCEPT !.length = @ + 1] EXCEPT !.buffer = Append(@, c)]
        BY <1>4 DEF CollectChar
    <2>2. [[s EXCEPT !.length = @ + 1] EXCEPT !.buffer = Append(@, c)]
          = [buffer |-> Append(s.buffer, c), length |-> s.length + 1, next |-> "char"]
        <3> DEFINE on == [s EXCEPT !.length = @ + 1]
        <3>1. on = [buffer |-> s.buffer, length |-> s.length + 1, next |-> "char"]
            BY <1>1, <1>4
        <3> DEFINE more == Append(on.buffer, c)
        <3>2. more = Append(s.buffer, c)
            BY <3>1
        <3>3. [on EXCEPT !.buffer = more]
              = [buffer |-> more, length |-> s.length + 1, next |-> "char"]
            <4> HIDE DEF on, more
            <4> QED
                BY <3>1
        <3> QED
            BY <3>2, <3>3
    <2> QED
        BY <1>1, <1>4, <2>1, <2>2 DEF Buffers
<1> QED
    BY <1>1, <1>2, <1>3, <1>4

\* The string that the lexer collects ends before the first quote after the
\* cursor's.
LEMMA CollectedIs ==
    ASSUME text \in Seq(STRING), cursor \in 0 .. Len(text) - 1, Backslash \notin Range(text),
           Collected.next = "closed"
    PROVE  \E q \in cursor + 2 .. Len(text) :
               /\ text[q] = Quote
               /\ \A i \in cursor + 2 .. q - 1 : text[i] # Quote
               /\ Collected.buffer = SubSeq(text, cursor + 2, q - 1)
               /\ Collected.length = (q - 1) - (cursor + 1)
<1> DEFINE a == cursor + 1
           n == Len(text)
           k == n - a
           first == [buffer |-> <<>>, length |-> 0, next |-> "char"]
           Is(f) == f = [i \in a .. n |-> IF i = a THEN first ELSE CollectChar(f[i - 1], text[i])]
           f == CHOOSE g : Is(g)
           G == [i \in a + 1 .. a + k |-> [s \in Buffers |-> CollectChar(s, text[i])]]
           Open(i) == /\ f[i] = [buffer |-> SubSeq(text, a + 1, i), length |-> i - a, next |-> "char"]
                      /\ \A m \in a + 1 .. i : text[m] # Quote
           Closed(i) == \E q \in a + 1 .. i :
                           /\ text[q] = Quote /\ \A m \in a + 1 .. q - 1 : text[m] # Quote
                           /\ f[i] = [buffer |-> SubSeq(text, a + 1, q - 1),
                                      length |-> (q - 1) - a, next |-> "closed"]
           S == {j \in 0 .. k : Open(a + j) \/ Closed(a + j)}
<1>1. /\ a \in Nat \ {0} /\ n \in Nat /\ k \in Nat /\ a + k = n /\ a + 1 = cursor + 2
      /\ \A i \in 1 .. n : text[i] \in STRING /\ text[i] # Backslash
    BY DEF Range
<1>2. Collected = f[n]
    BY DEF Collected
<1> HIDE DEF a, n, k
<1>3. first \in Buffers
    BY DEF Buffers
<1> HIDE DEF first
<1>4. \E g : Is(g)
    <2>1. G \in [a + 1 .. a + k -> [Buffers -> Buffers]]
        <3>1. \A i \in a + 1 .. a + k : i \in 1 .. n
            BY <1>1
        <3> QED
            BY <1>1, <3>1, CollectCharIs
    <2> HIDE DEF G
    <2>2. PICK g : /\ g \in [a .. a + k -> Buffers] /\ g[a] = first
                   /\ \A i \in a + 1 .. a + k : g[i] = G[i][g[i - 1]]
        <3>1. Steps(a, k, Buffers, first, G)
            BY <1>1, <1>3, <2>1 DEF Steps
        <3>2. \E g : Taken(g, a, k, Buffers, first, G)
            BY <3>1, StepsAreTaken
        <3> QED
            BY <3>2 DEF Taken
    <2>3. ASSUME NEW i \in a .. n
          PROVE  g[i] = IF i = a THEN first ELSE CollectChar(g[i - 1], text[i])
        <3>1. CASE i = a
            BY <2>2, <3>1
        <3>2. CASE i # a
            <4>1. i \in a + 1 .. a + k /\ i - 1 \in a .. a + k
                BY <1>1, <3>2
            <4>2. g[i - 1] \in Buffers /\ g[i] = G[i][g[i - 1]]
                BY <2>2, <4>1
            <4> QED
                BY <3>2, <4>1, <4>2 DEF G
        <3> QED
            BY <3>1, <3>2
    <2>4. g = [i \in a .. n |-> g[i]]
        BY <1>1, <2>2
    <2>5. Is(g)
        BY <2>3, <2>4
    <2> QED
        BY <2>5
<1> HIDE DEF G
<1>5. Is(f)
    <2> HIDE DEF Is
    <2> QED
        BY <1>4
<1> HIDE DEF f
<1>6. \A i \in a .. n : f[i] = IF i = a THEN first ELSE CollectChar(f[i - 1], text[i])
    BY <1>5
<1> HIDE DEF Is
<1>7. 0 \in S
    <2>1. a + 0 = a /\ a \in a .. n /\ a + 1 .. a = {} /\ a - a = 0 /\ a < a + 1
        BY <1>1
    <2>2. SubSeq(text, a + 1, a) = <<>>
        BY <1>1, <2>1, SubSeqEmpty
    <2>3. f[a] = first
        BY <1>6, <2>1
    <2>4. Open(a)
        BY <2>1, <2>2, <2>3 DEF first
    <2> HIDE DEF Open
    <2> QED
        BY <1>1, <2>1, <2>4
<1>8. ASSUME NEW j \in 0 .. k - 1, j \in S PROVE j + 1 \in S
    <2> DEFINE i == a + j
               c == text[i + 1]
    <2>1. /\ i \in a .. n /\ i + 1 \in a .. n /\ i + 1 # a /\ (i + 1) - 1 = i /\ i + 1 \in 1 .. n
          /\ i + 1 = a + (j + 1) /\ i + 1 \in a + 1 .. i + 1 /\ i \in Nat /\ j + 1 \in 0 .. k
        BY <1>1
    <2>2. Open(i) \/ Closed(i)
        BY <1>8
    <2> HIDE DEF i
    <2>3. f[i + 1] = CollectChar(f[i], c) /\ c \in STRING /\ c # Backslash
        BY <1>1, <1>6, <2>1
    <2>4. CASE Open(i)
        <3> DEFINE b == SubSeq(text, a + 1, i)
        <3>1. \A m \in a + 1 .. i : text[m] \in STRING
            BY <1>1, <2>1
        <3>2. b \in Seq(STRING)
            BY <1>1, <2>1, <3>1, SubSeqProperties
        <3>3. f[i] = [buffer |-> b, length |-> i - a, next |-> "char"] /\ i - a \in Nat
              /\ \A m \in a + 1 .. i : text[m] # Quote
            BY <1>1, <2>1, <2>4
        <3>4. f[i] \in Buffers /\ f[i].buffer = b /\ f[i].length = i - a /\ f[i].next = "char"
            <4> HIDE DEF b
            <4> QED
                BY <3>2, <3>3 DEF Buffers
        <3>5. CASE c = Quote
            <4>1. f[i + 1] = [buffer |-> b, length |-> i - a, next |-> "closed"]
                BY <2>3, <3>4, <3>5, CollectCharIs
            <4>2. (i + 1) - 1 = i
                BY <2>1
            <4>3. Closed(i + 1)
                BY <2>1, <3>3, <3>5, <4>1, <4>2
            <4> HIDE DEF Closed
            <4> QED
                BY <2>1, <4>3
        <3>6. CASE c # Quote
            <4>1. f[i + 1] = [buffer |-> Append(b, c), length |-> (i - a) + 1, next |-> "char"]
                BY <2>3, <3>4, <3>6, CollectCharIs
            <4>2. Append(b, c) = SubSeq(text, a + 1, i + 1)
                <5>1. a + 1 \in 1 .. Len(text) /\ i + 1 \in a + 1 .. Len(text)
                    BY <1>1, <2>1 DEF n
                <5>2. SubSeq(text, a + 1, i + 1) = SubSeq(text, a + 1, (i + 1) - 1) \o <<text[i + 1]>>
                    BY <5>1, SubSeqRecursiveSecond
                <5>3. Append(b, c) = b \o <<c>>
                    BY <2>3, <3>2, AppendIsConcat
                <5> QED
                    BY <2>1, <5>2, <5>3
            <4>3. (i - a) + 1 = (i + 1) - a
                BY <1>1, <2>1
            <4>4. \A m \in a + 1 .. i + 1 : text[m] # Quote
                <5>1. \A m \in a + 1 .. i + 1 : m \in a + 1 .. i \/ m = i + 1
                    BY <1>1, <2>1
                <5> QED
                    BY <3>3, <3>6, <5>1
            <4>5. Open(i + 1)
                BY <4>1, <4>2, <4>3, <4>4
            <4> HIDE DEF Open
            <4> QED
                BY <2>1, <4>5
        <3> QED
            BY <3>5, <3>6
    <2>5. CASE Closed(i)
        <3>1. PICK q \in a + 1 .. i :
                  /\ text[q] = Quote /\ \A m \in a + 1 .. q - 1 : text[m] # Quote
                  /\ f[i] = [buffer |-> SubSeq(text, a + 1, q - 1),
                             length |-> (q - 1) - a, next |-> "closed"]
            BY <2>5
        <3> DEFINE b == SubSeq(text, a + 1, q - 1)
        <3>2. b \in Seq(STRING)
            <4>1. \A m \in a + 1 .. q - 1 : text[m] \in STRING
                BY <1>1, <2>1
            <4>2. a + 1 \in Int /\ q - 1 \in Int
                BY <1>1, <2>1
            <4> QED
                BY <4>1, <4>2, SubSeqProperties
        <3>3. (q - 1) - a \in Nat /\ q \in a + 1 .. i + 1
            BY <1>1, <2>1
        <3>4. f[i] \in Buffers /\ f[i].next = "closed"
            <4> HIDE DEF b
            <4> QED
                BY <3>1, <3>2, <3>3 DEF Buffers, b
        <3>5. f[i + 1] = f[i]
            BY <2>3, <3>4, CollectCharIs
        <3>6. Closed(i + 1)
            BY <3>1, <3>3, <3>5
        <3> HIDE DEF Closed
        <3> QED
            BY <2>1, <3>6
    <2> QED
        BY <2>2, <2>4, <2>5
<1>9. k \in S
    <2> HIDE DEF S
    <2>1. 0 .. k \subseteq S
        BY <1>1, <1>7, <1>8, Induct
    <2> QED
        BY <1>1, <2>1
<1>10. ~Open(n)
    BY <1>2
<1>11. Closed(n)
    <2> HIDE DEF Open, Closed
    <2> QED
        BY <1>1, <1>9, <1>10
<1>12. PICK q \in a + 1 .. n :
          /\ text[q] = Quote /\ \A m \in a + 1 .. q - 1 : text[m] # Quote
          /\ f[n] = [buffer |-> SubSeq(text, a + 1, q - 1), length |-> (q - 1) - a, next |-> "closed"]
    BY <1>11
<1> QED
    BY <1>1, <1>2, <1>12 DEF a, n

\* A string without NUL is copied whole.
LEMMA CStringIs ==
    ASSUME NEW b \in Seq(STRING), \A i \in 1 .. Len(b) : b[i] # NUL
    PROVE  CString(b) = b
<1> DEFINE D == STRING \union {NUL}
           t == b \o <<NUL>>
           I == {i \in 1 .. Len(t) : t[i] = NUL}
           at == SelectInSeq(t, LAMBDA c : c = NUL)
<1>1. b \in Seq(D) /\ <<NUL>> \in Seq(D)
    <2>1. b \in Seq(D)
        <3>1. Len(b) \in Nat /\ DOMAIN b = 1 .. Len(b) /\ \A i \in 1 .. Len(b) : b[i] \in D
            OBVIOUS
        <3> HIDE DEF D, t, I, at
        <3> QED
            BY <3>1
    <2>2. NUL \in D
        OBVIOUS
    <2> HIDE DEF D, t, I, at
    <2> QED
        BY <2>1, <2>2
<1>2. Len(b) \in Nat /\ Len(<<NUL>>) = 1 /\ <<NUL>>[1] = NUL
    OBVIOUS
<1> HIDE DEF D
<1>3. /\ Len(t) = Len(b) + 1
      /\ \A i \in 1 .. Len(b) + 1 : t[i] = IF i <= Len(b) THEN b[i] ELSE <<NUL>>[i - Len(b)]
    BY <1>2, <1>1, ConcatProperties
<1>4. I = {Len(b) + 1}
    <2> HIDE DEF t
    <2> QED
        BY <1>2, <1>3
<1>5. at = IF I # {} THEN Min(I) ELSE 0
    <2> HIDE DEF t
    <2> QED
        BY DEF SelectInSeq
<1>6. Min(I) = Len(b) + 1
    <2>1. I \subseteq Nat /\ I # {}
        BY <1>2, <1>4
    <2> HIDE DEF I
    <2> QED
        BY <1>4, <2>1, LeastIs
<1>7. CString(b) = SubSeq(b, 1, at - 1)
    BY DEF CString
<1>8. at - 1 = Len(b)
    <2> HIDE DEF I, at
    <2> QED
        BY <1>2, <1>4, <1>5, <1>6
<1> HIDE DEF at
<1> QED
    BY <1>7, <1>8, SubSeqFull

-----------------------------------------------------------------------------
(* Tokens cover the text.                                                  *)

TokenKinds == {"delimiter", "string", "generic", "int", "float"}
TokenRec == [kind : TokenKinds, string : Seq(STRING),
             start : Nat, end : Nat, lineno : Nat, column : Nat]

\* The texts that the theorem is about.
Plain == Backslash \notin Range(text)

\* A text and a lexer of C's.
Given ==
    /\ text \in Seq(STRING) /\ NUL \notin Range(text)
    /\ lexer.line_comment \in Seq(STRING) /\ Newline \notin Range(lexer.line_comment)
    /\ lexed \in {"not yet", "all", "abort"}

\* Where the cursor is, and in which line.
Here ==
    /\ cursor \in 0 .. Len(text)
    /\ place \in Somewhere /\ place.lineno = LineOf(cursor)
    /\ lexed = "all" => cursor = Len(text)

\* The tokens so far, and nothing but blanks from the last of them to the cursor.
Covered ==
    /\ token_list \in Seq(TokenRec)
    /\ \A n \in 1 .. Len(token_list) : Fits(token_list[n], Before(n))
    /\ Before(Len(token_list) + 1) \in 0 .. cursor
    /\ \A i \in Before(Len(token_list) + 1) .. cursor - 1 : IsBlank(i)

LexInv == Given /\ (Plain => Here /\ Covered)

LEMMA PartOfText ==
    ASSUME text \in Seq(STRING), NEW i \in 0 .. Len(text), NEW j \in i .. Len(text)
    PROVE  /\ SubSeq(text, i + 1, j) \in Seq(STRING) /\ Len(SubSeq(text, i + 1, j)) = j - i
           /\ \A m \in 1 .. j - i : SubSeq(text, i + 1, j)[m] = text[i + m]
<1>1. /\ i + 1 \in Int /\ j \in Int /\ \A m \in i + 1 .. j : text[m] \in STRING
      /\ \A m \in 1 .. j - i : (i + 1) + m - 1 = i + m
      /\ j - (i + 1) + 1 = j - i /\ (i + 1 <= j \/ j - i = 0)
    OBVIOUS
<1>2. /\ SubSeq(text, i + 1, j) \in Seq(STRING)
      /\ Len(SubSeq(text, i + 1, j)) = IF i + 1 <= j THEN j - (i + 1) + 1 ELSE 0
      /\ \A m \in 1 .. j - (i + 1) + 1 : SubSeq(text, i + 1, j)[m] = text[(i + 1) + m - 1]
    BY <1>1, SubSeqProperties
<1> QED
    BY <1>1, <1>2

LEMMA OneElement ==
    ASSUME NEW D, NEW s \in Seq(D), Len(s) = 1
    PROVE  s = <<s[1]>>
OBVIOUS

LEMMA OneCharacter ==
    ASSUME text \in Seq(STRING), NEW i \in 0 .. Len(text) - 1
    PROVE  SubSeq(text, i + 1, i + 1) = <<text[i + 1]>>
<1>1. i \in 0 .. Len(text) /\ i + 1 \in i .. Len(text) /\ (i + 1) - i = 1 /\ 1 \in 1 .. 1
    OBVIOUS
<1>2. /\ SubSeq(text, i + 1, i + 1) \in Seq(STRING) /\ Len(SubSeq(text, i + 1, i + 1)) = 1
      /\ SubSeq(text, i + 1, i + 1)[1] = text[i + 1]
    <2>1. text[i + 1] = text[(i + 1)]
        OBVIOUS
    <2> QED
        BY <1>1, PartOfText
<1> QED
    BY <1>2, OneElement

NotYet == lexed = "not yet"

LEMMA GivenText == Given => text \in Seq(STRING) /\ Len(text) \in Nat
<1> SUFFICES ASSUME Given PROVE text \in Seq(STRING) /\ Len(text) \in Nat
    OBVIOUS
<1>1. text \in Seq(STRING)
    BY Zenon DEF Given
<1> QED
    BY <1>1, LenProperties

LEMMA LexInvInit == LexerInit => LexInv
<1> SUFFICES ASSUME LexerInit PROVE LexInv
    OBVIOUS
<1>1. Given
    <2>1. lexer \in Lexers /\ text \in Texts(lexer) /\ lexed = "not yet"
        BY DEF LexerInit
    <2>2. /\ lexer.line_comment \in Seq(STRING) /\ "\n" \notin Range(lexer.line_comment)
          /\ text \in Seq(STRING) /\ "NUL" \notin Range(text)
        BY <2>1, LexerAssumption
    <2> QED
        BY <2>1, <2>2 DEF Given, NUL, Newline
<1>2. Here
    <2>1. text \in Seq(STRING) /\ 0 \in 0 .. Len(text)
        BY <1>1, GivenText
    <2>2. LineOf(0) = 1
        BY <2>1, LineOfNext
    <2> QED
        BY <2>1, <2>2 DEF LexerInit, Here, Somewhere, FirstPlace
<1>3. Covered
    <2>1. token_list = <<>> /\ cursor = 0 /\ Len(token_list) = 0
        BY DEF LexerInit
    <2>2. Before(1) = 0
        BY DEF Before
    <2>3. token_list \in Seq(TokenRec)
        BY <2>1
    <2> QED
        BY <2>1, <2>2, <2>3 DEF Covered
<1> QED
    BY <1>1, <1>2, <1>3 DEF LexInv

\* Where the lexer goes.
LEMMA Goes ==
    ASSUME Given, Here, NEW end \in cursor .. Len(text), Forward(end), NotYet
    PROVE  Given' /\ Here'
<1>1. PlaceAt(end) \in Somewhere /\ PlaceAt(end).lineno = LineOf(end)
    BY PlaceAtIs DEF Given, Here
<1>2. Given'
    BY DEF Given, Forward
<1>3. cursor' = end /\ place' = PlaceAt(end) /\ text' = text
    BY DEF Forward
<1>4. LineOf(end)' = LineOf(end)
    BY <1>3 DEF LineOf
<1>5. cursor' \in 0 .. Len(text')
    <2>1. Len(text) \in Nat /\ cursor \in 0 .. Len(text)
        BY GivenText DEF Here
    <2> QED
        BY <1>3, <2>1
<1>6. place'.lineno = LineOf(cursor)'
    BY <1>1, <1>3, <1>4 DEF LineOf
<1>7. Here'
    BY <1>1, <1>3, <1>5, <1>6 DEF Here, NotYet, Forward
<1> QED
    BY <1>2, <1>7

\* Over blanks.
LEMMA GoesOverBlanks ==
    ASSUME Given, Here, Covered, NotYet,
           NEW end \in cursor .. Len(text), Forward(end), UNCHANGED token_list,
           \A i \in cursor .. end - 1 : IsBlank(i)
    PROVE  LexInv'
<1>1. Given' /\ Here'
    BY Goes
<1> DEFINE last == Before(Len(token_list) + 1)
<1>2. cursor' = end /\ UNCHANGED <<lexer, text>> /\ cursor \in Nat /\ end \in Nat /\ cursor <= end
    <2>1. Len(text) \in Nat /\ cursor \in 0 .. Len(text)
        BY GivenText DEF Here
    <2> QED
        BY <2>1 DEF Forward
<1>3. \A n : Before(n)' = Before(n)
    BY DEF Before, End
<1>4. last \in 0 .. cursor /\ \A i \in last .. cursor - 1 : IsBlank(i)
    BY DEF Covered
<1>5. last' = last
    BY DEF Before, End
<1> HIDE DEF last
<1>6. last \in 0 .. end
    BY <1>2, <1>4
<1>7. ASSUME NEW i \in last .. end - 1 PROVE IsBlank(i)'
    <2>1. i \in last .. cursor - 1 \/ i \in cursor .. end - 1
        BY <1>2, <1>4, <1>7
    <2>2. IsBlank(i)
        BY <1>4, <2>1
    <2> QED
        BY <1>2, <2>2 DEF IsBlank, isspace, starts_comment
<1>8. token_list' = token_list
    OBVIOUS
<1>9. /\ token_list' \in Seq(TokenRec)
      /\ \A n \in 1 .. Len(token_list') : Fits(token_list[n], Before(n))'
    <2>1. ASSUME NEW n \in 1 .. Len(token_list) PROVE Fits(token_list[n], Before(n))'
        <3>1. Fits(token_list[n], Before(n))
            BY DEF Covered
        <3>2. Fits(token_list[n], Before(n))' <=> Fits(token_list[n], Before(n))
            BY <1>2, <1>3 DEF Fits, IsBlank, isspace, starts_comment, match_delimiter, LineOf,
                             Begin, IsWord
        <3> QED
            BY <3>1, <3>2
    <2> QED
        BY <2>1 DEF Covered
<1>10. last' \in 0 .. cursor' /\ \A i \in last' .. cursor' - 1 : IsBlank(i)'
    BY <1>2, <1>5, <1>6, <1>7
<1>11. Covered'
    BY <1>9, <1>10 DEF Covered, last
<1> QED
    BY <1>1, <1>11 DEF LexInv

\* Over a token.
LEMMA GoesOverToken ==
    ASSUME Given, Here, Covered, NotYet,
           NEW end \in cursor .. Len(text), Forward(end),
           NEW t \in TokenRec, Push(t), End(t) = end,
           Fits(t, Before(Len(token_list) + 1))
    PROVE  LexInv'
<1>1. Given' /\ Here'
    BY Goes
<1> DEFINE k == Len(token_list)
<1>2. cursor' = end /\ UNCHANGED <<lexer, text>> /\ end \in Nat
    <2>1. Len(text) \in Nat /\ cursor \in 0 .. Len(text)
        BY GivenText DEF Here
    <2> QED
        BY <2>1 DEF Forward
<1>3. /\ token_list \in Seq(TokenRec) /\ token_list' = Append(token_list, t) /\ k \in Nat
      /\ \A n \in 1 .. k : Fits(token_list[n], Before(n))
    <2>1. token_list \in Seq(TokenRec)
        BY DEF Covered
    <2>2. k \in Nat
        BY <2>1, LenProperties
    <2> QED
        BY <2>1, <2>2 DEF Covered, Push
<1>4. /\ token_list' \in Seq(TokenRec) /\ Len(token_list') = k + 1
      /\ \A n \in 1 .. k : token_list'[n] = token_list[n]
      /\ token_list'[k + 1] = t
    BY <1>3, AppendProperties
<1> HIDE DEF k
<1>5. ASSUME NEW n \in 1 .. k + 1 PROVE Before(n)' = Before(n)
    <2>1. CASE n = 1
        BY <2>1 DEF Before
    <2>2. CASE n # 1
        <3>1. n - 1 \in 1 .. k
            BY <1>3, <2>2
        <3>2. token_list'[n - 1] = token_list[n - 1]
            BY <1>4, <3>1
        <3> QED
            BY <2>2, <3>2 DEF Before, End
    <2> QED
        BY <2>1, <2>2
<1>6. ASSUME NEW n \in 1 .. k + 1, NEW u, token_list[n]' = u, Fits(u, Before(n))
      PROVE  Fits(token_list[n], Before(n))'
    <2>1. Before(n)' = Before(n)
        BY <1>5
    <2> QED
        BY <1>2, <1>6, <2>1 DEF Fits, IsBlank, isspace, starts_comment, match_delimiter, LineOf,
                                Begin, IsWord
<1>7. ASSUME NEW n \in 1 .. k + 1 PROVE Fits(token_list[n], Before(n))'
    <2>1. CASE n \in 1 .. k
        BY <1>3, <1>4, <1>6, <2>1
    <2>2. CASE n = k + 1
        <3>1. Fits(t, Before(k + 1))
            BY DEF k
        <3>2. Fits(t, Before(n)) /\ token_list[n]' = t
            BY <1>4, <2>2, <3>1
        <3> QED
            BY <1>6, <3>2
    <2>3. n \in 1 .. k \/ n = k + 1
        BY <1>3
    <2> QED
        BY <2>1, <2>2, <2>3
<1>8. Before(Len(token_list) + 1)' = end
    <2>1. (k + 1) + 1 # 1 /\ ((k + 1) + 1) - 1 = k + 1
        BY <1>3
    <2>2. Len(token_list') + 1 # 1 /\ token_list'[(Len(token_list') + 1) - 1] = t
        BY <1>4, <2>1
    <2> QED
        BY <2>2 DEF Before, End
<1>9. Before(Len(token_list) + 1)' \in 0 .. cursor'
    BY <1>2, <1>8
<1>10. \A i \in Before(Len(token_list) + 1)' .. cursor' - 1 : IsBlank(i)'
    BY <1>2, <1>8
<1>11. Covered'
    BY <1>4, <1>7, <1>9, <1>10 DEF Covered
<1> QED
    BY <1>1, <1>11 DEF LexInv

LEMMA IgnoreSpaceKeeps ==
    ASSUME Given, Here, Covered, NotYet, IgnoreSpace
    PROVE  LexInv'
<1> DEFINE ends == {i \in Indices : ~isspace(i)}
           end == Until(cursor, ends)
<1>1. /\ text \in Seq(STRING) /\ Len(text) \in Nat /\ cursor \in 0 .. Len(text)
      /\ ends \in SUBSET Indices
    BY GivenText DEF Here
<1>2. Forward(end) /\ UNCHANGED token_list
    BY DEF IgnoreSpace
<1> HIDE DEF ends
<1>3. /\ Until(cursor, ends) \in cursor .. Len(text)
      /\ \A k \in cursor .. Until(cursor, ends) - 1 : k \notin ends
    BY <1>1, UntilIs
<1> HIDE DEF end
<1>4. ASSUME NEW k \in cursor .. end - 1 PROVE IsBlank(k)
    <2>1. k \in Indices
        BY <1>1, <1>3 DEF Indices, end
    <2>2. k \notin ends
        BY <1>3 DEF end
    <2> QED
        BY <2>1, <2>2 DEF ends, IsBlank
<1>5. end \in cursor .. Len(text)
    BY <1>3 DEF end
<1> QED
    BY <1>2, <1>4, <1>5, GoesOverBlanks

\* A comment is as long as its mark, which has no newline, at least.
LEMMA CommentIs ==
    ASSUME Given, NEW i \in 0 .. Len(text), starts_comment(i)
    PROVE  /\ Len(lexer.line_comment) \in 0 .. Len(text) - i
           /\ \A m \in 1 .. Len(lexer.line_comment) : text[i + m] # Newline
<1> DEFINE mark == lexer.line_comment
           rest == SubSeq(text, i + 1, Len(text))
<1>1. text \in Seq(STRING) /\ Len(text) \in Nat /\ Len(text) \in i .. Len(text)
    BY GivenText
<1>2. mark \in Seq(STRING)
    BY Zenon DEF Given
<1>3. IsPrefix(mark, rest)
    BY DEF starts_comment
<1>4. Newline \notin Range(mark)
    BY Zenon DEF Given
<1>5. /\ rest \in Seq(STRING) /\ Len(rest) = Len(text) - i
      /\ \A m \in 1 .. Len(text) - i : rest[m] = text[i + m]
    BY <1>1, PartOfText
<1> HIDE DEF mark, rest
<1>6. Len(mark) \in Nat /\ Len(mark) <= Len(rest) /\ SubSeq(mark, 1, Len(mark)) = SubSeq(rest, 1, Len(mark))
    BY <1>2, <1>3, LenProperties DEF IsPrefix
<1>7. SubSeq(mark, 1, Len(mark)) = mark
    BY <1>2, SubSeqFull
<1>8. ASSUME NEW m \in 1 .. Len(mark) PROVE text[i + m] # Newline
    <2>1. m \in 1 .. Len(text) - i
        BY <1>1, <1>5, <1>6
    <2>2. mark[m] = rest[m]
        <3>1. SubSeq(rest, 1, Len(mark))[m] = rest[m]
            BY <1>5, <1>6
        <3> QED
            BY <1>6, <1>7, <3>1
    <2>3. mark[m] \in Range(mark)
        BY <1>2 DEF Range
    <2> QED
        BY <1>4, <1>5, <2>1, <2>2, <2>3
<1>9. Len(mark) \in 0 .. Len(text) - i
    BY <1>1, <1>5, <1>6
<1> QED
    BY <1>8, <1>9 DEF mark

LEMMA IgnoreCommentKeeps ==
    ASSUME Given, Here, Covered, NotYet, IgnoreComment
    PROVE  LexInv'
<1> DEFINE m == Len(lexer.line_comment)
           ends == {i \in Indices : text[i + 1] = Newline}
           line == Until(cursor + m, ends)
           end == IF line = Len(text) THEN line ELSE line + 1
<1>1. /\ text \in Seq(STRING) /\ Len(text) \in Nat /\ cursor \in 0 .. Len(text)
      /\ ends \in SUBSET Indices
    BY GivenText DEF Here
<1>2. Forward(end) /\ UNCHANGED token_list /\ starts_comment(cursor)
    BY DEF IgnoreComment, AtComment
<1>3. /\ m \in 0 .. Len(text) - cursor
      /\ \A k \in 1 .. m : text[cursor + k] # Newline
    BY <1>1, <1>2, CommentIs
<1> HIDE DEF m, ends
<1>4. cursor + m \in 0 .. Len(text)
    BY <1>1, <1>3
<1>5. /\ Until(cursor + m, ends) \in cursor + m .. Len(text)
      /\ \A k \in cursor + m .. Until(cursor + m, ends) - 1 : k \notin ends
      /\ Until(cursor + m, ends) = Len(text) \/ Until(cursor + m, ends) \in ends
    BY <1>1, <1>4, UntilIs
<1>6. /\ line \in cursor + m .. Len(text)
      /\ \A k \in cursor + m .. line - 1 : k \notin ends
      /\ line = Len(text) \/ line \in ends
    BY <1>5
<1> HIDE DEF line
<1>7. ASSUME NEW k \in cursor .. line - 1 PROVE text[k + 1] # Newline
    <2>1. CASE k < cursor + m
        <3>1. (k + 1) - cursor \in 1 .. m /\ cursor + ((k + 1) - cursor) = k + 1
            BY <1>1, <1>3, <1>6, <2>1
        <3> QED
            BY <1>3, <3>1
    <2>2. CASE k >= cursor + m
        <3>1. k \in cursor + m .. line - 1 /\ k \in Indices
            BY <1>1, <1>3, <1>6, <2>2 DEF Indices
        <3> QED
            BY <1>6, <3>1 DEF ends
    <2> QED
        BY <1>1, <1>3, <2>1, <2>2
<1>8. end \in cursor .. Len(text)
    <2>1. line \in cursor .. Len(text) /\ (line # Len(text) => line + 1 \in cursor .. Len(text))
        BY <1>1, <1>3, <1>6
    <2> QED
        BY <2>1
<1>9. end = line \/ (end = line + 1 /\ line # Len(text))
    <2>1. CASE line = Len(text)
        BY <2>1
    <2>2. CASE line # Len(text)
        BY <2>2
    <2> QED
        BY <2>1, <2>2
<1> HIDE DEF end
<1>10. ASSUME NEW k \in cursor .. end - 1 PROVE IsBlank(k)
    <2>1. CASE k = line
        <3>1. line \in ends
            BY <1>1, <1>3, <1>6, <1>8, <1>9, <2>1
        <3> QED
            BY <2>1, <3>1 DEF ends, IsBlank, isspace, Spaces
    <2>2. CASE k # line
        <3>1. k \in cursor .. line - 1
            <4>1. line \in Nat /\ cursor \in Nat /\ end \in Nat
                BY <1>1, <1>3, <1>6, <1>8
            <4>2. k \in Nat /\ cursor <= k /\ k < end
                BY <4>1
            <4>3. k < line
                BY <1>9, <2>2, <4>1, <4>2
            <4> QED
                BY <4>1, <4>2, <4>3
        <3>2. \A l \in cursor .. k : text[l + 1] # Newline
            <4>1. ASSUME NEW l \in cursor .. k PROVE l \in cursor .. line - 1
                BY <1>1, <1>3, <1>6, <3>1
            <4> QED
                BY <1>7, <4>1
        <3>3. cursor \in 0 .. k
            BY <1>1, <3>1
        <3> QED
            BY <1>2, <3>2, <3>3 DEF IsBlank
    <2> QED
        BY <2>1, <2>2
<1> QED
    BY <1>2, <1>8, <1>10, GoesOverBlanks

HasToken(t, kind, chars, start, end) ==
    /\ t \in TokenRec
    /\ t.kind = kind /\ t.string = chars /\ t.start = start /\ t.end = end
    /\ t.lineno = LineOf(end)

LEMMA TokenIs ==
    ASSUME Given, Here, NEW end \in cursor .. Len(text), NEW kind \in TokenKinds,
           NEW chars \in Seq(STRING), Len(chars) <= end
    PROVE  HasToken(Token(kind, chars, end), kind, chars, end - Len(chars), end)
<1>1. text \in Seq(STRING) /\ cursor \in 0 .. Len(text) /\ Len(text) \in Nat
    BY GivenText DEF Here
<1>2. PlaceAt(end) \in Somewhere /\ PlaceAt(end).lineno = LineOf(end)
    BY <1>1, PlaceAtIs DEF Here
<1>3. end - Len(chars) \in Nat /\ end \in Nat
    <2>1. Len(chars) \in Nat
        BY LenProperties
    <2> QED
        BY <1>1, <2>1
<1>4. PlaceAt(end).lineno \in Nat /\ PlaceAt(end).column \in Nat
    BY <1>2 DEF Somewhere
<1> QED
    BY <1>2, <1>3, <1>4 DEF Token, TokenRec, HasToken

LEMMA CollectDelimiterKeeps ==
    ASSUME Given, Here, Covered, NotYet, CollectDelimiter
    PROVE  LexInv'
<1> DEFINE end == cursor + 1
           chars == <<text[cursor + 1]>>
           t == Token("delimiter", chars, end)
           before == Before(Len(token_list) + 1)
<1>1. text \in Seq(STRING) /\ Len(text) \in Nat /\ cursor \in 0 .. Len(text)
    BY GivenText DEF Here
<1>2. Forward(end) /\ Push(t) /\ match_delimiter(cursor) /\ cursor # Len(text)
    BY DEF CollectDelimiter, AtDelimiter, Lexing, is_finished
<1>3. cursor \in 0 .. Len(text) - 1 /\ end \in cursor .. Len(text) /\ end \in Nat /\ end - 1 = cursor
    BY <1>1, <1>2
<1>4. before \in 0 .. cursor /\ \A i \in before .. cursor - 1 : IsBlank(i)
    BY DEF Covered
<1>5. chars \in Seq(STRING) /\ Len(chars) = 1 /\ SubSeq(text, cursor + 1, end) = chars
    <2>1. SubSeq(text, cursor + 1, cursor + 1) = <<text[cursor + 1]>>
        BY <1>1, <1>3, OneCharacter
    <2>2. SubSeq(text, cursor + 1, cursor + 1) \in Seq(STRING)
        BY <1>1, <1>3, PartOfText
    <2> QED
        BY <2>1, <2>2
<1> HIDE DEF end, chars, before
<1>6. /\ t \in TokenRec /\ t.kind = "delimiter" /\ t.string = chars
      /\ t.start = cursor /\ t.end = end /\ t.lineno = LineOf(end)
    <2>1. "delimiter" \in TokenKinds
        BY DEF TokenKinds
    <2>2. Len(chars) <= end /\ end - Len(chars) = cursor
        BY <1>1, <1>3, <1>5
    <2>3. HasToken(t, "delimiter", chars, end - Len(chars), end)
        BY <1>3, <1>5, <2>1, <2>2, TokenIs
    <2> HIDE DEF t
    <2> QED
        BY <2>2, <2>3 DEF HasToken
<1> HIDE DEF t
<1>7. Begin(t) = cursor /\ End(t) = end
    BY <1>6 DEF Begin, End
<1>8. Fits(t, before)
    <2>1. before <= Begin(t) /\ \A i \in before .. Begin(t) - 1 : IsBlank(i)
        BY <1>1, <1>4, <1>7
    <2>2. ~IsWord(t) /\ t.kind # "string"
        BY <1>6 DEF IsWord
    <2> QED
        BY <1>2, <1>5, <1>6, <2>1, <2>2 DEF Fits
<1> QED
    BY <1>2, <1>3, <1>6, <1>7, <1>8, GoesOverToken DEF before

\* When an assertion fails, or nothing happens.
LEMMA StaysKeeps ==
    ASSUME LexInv, UNCHANGED <<lexer, text, cursor, place, token_list>>,
           lexed' = "abort" \/ UNCHANGED lexed
    PROVE  LexInv'
<1>1. Given => Given'
    BY DEF Given
<1>2. Plain' => Plain
    BY DEF Plain
<1>3. ASSUME Here PROVE Here'
    <2>1. LineOf(cursor)' = LineOf(cursor)
        BY DEF LineOf
    <2>2. lexed' = "all" => lexed = "all"
        OBVIOUS
    <2>3. /\ cursor' \in 0 .. Len(text') /\ place' \in Somewhere
          /\ lexed = "all" => cursor' = Len(text')
        BY <1>3 DEF Here
    <2>4. place'.lineno = LineOf(cursor)'
        BY <1>3, <2>1 DEF Here
    <2> QED
        BY <2>2, <2>3, <2>4 DEF Here
<1>4. ASSUME Covered PROVE Covered'
    <2> DEFINE last == Before(Len(token_list) + 1)
    <2>1. ASSUME NEW n \in 1 .. Len(token_list) PROVE Fits(token_list[n], Before(n))'
        <3>1. Fits(token_list[n], Before(n))
            BY <1>4 DEF Covered
        <3>2. Before(n)' = Before(n)
            BY DEF Before, End
        <3> QED
            BY <3>1, <3>2 DEF Fits, IsBlank, isspace, starts_comment, match_delimiter, LineOf,
                              Begin, IsWord
    <2>2. last' = last
        BY DEF Before, End
    <2>3. last \in 0 .. cursor /\ \A i \in last .. cursor - 1 : IsBlank(i)
        BY <1>4 DEF Covered
    <2> HIDE DEF last
    <2>4. ASSUME NEW i \in last .. cursor - 1 PROVE IsBlank(i)'
        BY <2>3 DEF IsBlank, isspace, starts_comment
    <2>5. last' \in 0 .. cursor' /\ \A i \in last' .. cursor' - 1 : IsBlank(i)'
        BY <2>2, <2>3, <2>4
    <2>6. /\ token_list' \in Seq(TokenRec)
          /\ \A n \in 1 .. Len(token_list') : Fits(token_list[n], Before(n))'
        <3>1. token_list \in Seq(TokenRec)
            BY <1>4 DEF Covered
        <3> QED
            BY <2>1, <3>1
    <2> QED
        BY <2>5, <2>6 DEF Covered, last
<1> QED
    BY <1>1, <1>2, <1>3, <1>4 DEF LexInv

LEMMA CollectStringKeeps ==
    ASSUME Given, Here, Covered, NotYet, Plain, CollectString
    PROVE  LexInv'
<1> DEFINE s == Collected
           end == cursor + 1 + s.length
           t == Token("string", CString(s.buffer), end)
           before == Before(Len(token_list) + 1)
<1>1. text \in Seq(STRING) /\ Len(text) \in Nat /\ cursor \in 0 .. Len(text)
    BY GivenText DEF Here
<1>2. text[cursor + 1] = Quote /\ cursor # Len(text)
    BY DEF CollectString, AtString, Lexing, is_finished
<1>3. cursor \in 0 .. Len(text) - 1 /\ (cursor + 1) + 1 = cursor + 2
    BY <1>1, <1>2
<1>4. before \in 0 .. cursor /\ \A i \in before .. cursor - 1 : IsBlank(i)
    BY DEF Covered
<1>5. CASE Abort
    BY <1>5, StaysKeeps DEF Abort, LexInv
<1>6. CASE s.next = "closed" /\ Forward(end + 1) /\ Push(t)
    <2>1. PICK q \in cursor + 2 .. Len(text) :
              /\ text[q] = Quote
              /\ \A i \in cursor + 2 .. q - 1 : text[i] # Quote
              /\ s.buffer = SubSeq(text, cursor + 2, q - 1)
              /\ s.length = (q - 1) - (cursor + 1)
        BY <1>1, <1>3, <1>6, CollectedIs DEF Plain
    <2>2. /\ end = q - 1 /\ end + 1 = q /\ q \in cursor .. Len(text) /\ q - 1 \in cursor .. Len(text)
          /\ cursor + 1 \in 0 .. Len(text) /\ q - 1 \in cursor + 1 .. Len(text) /\ q - 1 \in Nat
        BY <1>1, <2>1
    <2> DEFINE chars == SubSeq(text, cursor + 2, q - 1)
    <2>3. /\ chars \in Seq(STRING) /\ Len(chars) = (q - 1) - (cursor + 1)
          /\ \A m \in 1 .. (q - 1) - (cursor + 1) : chars[m] = text[(cursor + 1) + m]
        <3>1. chars = SubSeq(text, (cursor + 1) + 1, q - 1)
            BY <1>3
        <3> HIDE DEF chars
        <3> QED
            BY <1>1, <2>2, <3>1, PartOfText
    <2> HIDE DEF s, chars
    <2>4. ASSUME NEW m \in 1 .. Len(chars) PROVE chars[m] # NUL /\ chars[m] # Quote
        <3>1. /\ m \in 1 .. (q - 1) - (cursor + 1) /\ (cursor + 1) + m \in 1 .. Len(text)
              /\ (cursor + 1) + m \in cursor + 2 .. q - 1
            BY <1>1, <2>1, <2>2, <2>3
        <3>2. chars[m] = text[(cursor + 1) + m]
            BY <2>3, <3>1
        <3>3. NUL \notin Range(text)
            BY Zenon DEF Given
        <3>4. text[(cursor + 1) + m] \in Range(text)
            BY <1>1, <3>1 DEF Range
        <3> QED
            BY <2>1, <3>1, <3>2, <3>3, <3>4
    <2>5. CString(s.buffer) = chars
        BY <2>1, <2>3, <2>4, CStringIs DEF chars
    <2>6. t = Token("string", chars, q - 1)
        BY <2>2, <2>5
    <2> HIDE DEF t, before, end
    <2>7. /\ t \in TokenRec /\ t.kind = "string" /\ t.string = chars
          /\ t.start = cursor + 1 /\ t.end = q - 1 /\ t.lineno = LineOf(q - 1)
        <3>1. "string" \in TokenKinds
            BY DEF TokenKinds
        <3>2. Len(chars) <= q - 1 /\ (q - 1) - Len(chars) = cursor + 1
            BY <1>1, <2>2, <2>3
        <3>3. HasToken(t, "string", chars, (q - 1) - Len(chars), q - 1)
            BY <2>2, <2>3, <2>6, <3>1, <3>2, TokenIs
        <3> QED
            BY <3>2, <3>3 DEF HasToken
    <2>8. Begin(t) = cursor /\ End(t) = q
        <3>1. (cursor + 1) - 1 = cursor /\ (q - 1) + 1 = q
            BY <1>1, <2>2
        <3> QED
            BY <2>7, <3>1 DEF Begin, End
    <2>9. Fits(t, before)
        <3>1. before <= Begin(t) /\ \A i \in before .. Begin(t) - 1 : IsBlank(i)
            BY <1>1, <1>4, <2>8
        <3>2. ~IsWord(t) /\ t.kind # "delimiter"
            BY <2>7 DEF IsWord
        <3>3. SubSeq(text, t.start + 1, t.end) = t.string
            BY <1>3, <2>7 DEF chars
        <3>4. Quote \notin Range(t.string)
            <4>1. DOMAIN chars = 1 .. Len(chars)
                BY <2>3
            <4> QED
                BY <2>4, <2>7, <4>1 DEF Range
        <3> QED
            BY <2>7, <3>1, <3>2, <3>3, <3>4 DEF Fits
    <2>10. Forward(q) /\ Push(t)
        BY <1>6, <2>2
    <2> QED
        BY <2>2, <2>7, <2>8, <2>9, <2>10, GoesOverToken DEF before
<1>7. Abort \/ (s.next = "closed" /\ Forward(end + 1) /\ Push(t))
    BY DEF CollectString
<1> QED
    BY <1>5, <1>6, <1>7

LEMMA CollectGenericKeeps ==
    ASSUME Given, Here, Covered, NotYet, CollectGeneric
    PROVE  LexInv'
<1> DEFINE ends == {i \in Indices : WordEnds(i)}
           end == Until(cursor, ends)
           chars == SubSeq(text, cursor + 1, end)
           t == Token("generic", chars, end)
           before == Before(Len(token_list) + 1)
<1>1. /\ text \in Seq(STRING) /\ Len(text) \in Nat /\ cursor \in 0 .. Len(text)
      /\ ends \in SUBSET Indices
    BY GivenText DEF Here
<1>2. ~starts_comment(cursor) /\ text[cursor + 1] # Quote
    BY DEF CollectGeneric, AtSpace, AtComment, AtDelimiter, AtString
<1>3. before \in 0 .. cursor /\ \A i \in before .. cursor - 1 : IsBlank(i)
    BY DEF Covered
<1>4. CASE Abort
    BY <1>4, StaysKeeps DEF Abort, LexInv
<1>5. CASE Forward(end) /\ Push(t)
    <2> HIDE DEF ends, before
    <2>1. /\ Until(cursor, ends) \in cursor .. Len(text)
          /\ \A k \in cursor .. Until(cursor, ends) - 1 : k \notin ends
          /\ Until(cursor, ends) = Len(text) \/ Until(cursor, ends) \in ends
        BY <1>1, UntilIs
    <2>2. /\ end \in cursor .. Len(text)
          /\ \A k \in cursor .. end - 1 : k \notin ends
          /\ end = Len(text) \/ end \in ends
        BY <2>1
    <2>3. Forward(end) /\ Push(t)
        BY <1>5
    <2> HIDE DEF end
    <2>4. chars \in Seq(STRING) /\ Len(chars) = end - cursor
        BY <1>1, <2>2, PartOfText
    <2>5. SubSeq(text, cursor + 1, end) = chars
        OBVIOUS
    <2> HIDE DEF chars
    <2>6. /\ t \in TokenRec /\ t.kind = "generic" /\ t.string = chars
          /\ t.start = cursor /\ t.end = end /\ t.lineno = LineOf(end)
        <3>1. "generic" \in TokenKinds
            BY DEF TokenKinds
        <3>2. Len(chars) <= end /\ end - Len(chars) = cursor
            BY <1>1, <2>2, <2>4
        <3>3. HasToken(t, "generic", chars, end - Len(chars), end)
            BY <2>2, <2>4, <3>1, <3>2, TokenIs
        <3> HIDE DEF t
        <3> QED
            BY <3>2, <3>3 DEF HasToken
    <2> HIDE DEF t
    <2>7. Begin(t) = cursor /\ End(t) = end
        BY <2>6 DEF Begin, End
    <2>8. ASSUME NEW i \in cursor .. end - 1 PROVE ~isspace(i) /\ ~match_delimiter(i)
        <3>1. i \in Indices
            BY <1>1, <2>2 DEF Indices
        <3> QED
            BY <2>2, <3>1 DEF ends, WordEnds
    <2>9. end = Len(text) \/ isspace(end) \/ match_delimiter(end)
        BY <2>2 DEF ends, WordEnds
    <2>10. Fits(t, before)
        <3>1. before <= Begin(t) /\ \A i \in before .. Begin(t) - 1 : IsBlank(i)
            BY <1>1, <1>3, <2>7
        <3>2. t.kind # "delimiter" /\ t.kind # "string"
            BY <2>6
        <3> QED
            BY <1>2, <2>5, <2>6, <2>8, <2>9, <3>1, <3>2 DEF Fits
    <2> QED
        BY <2>2, <2>3, <2>6, <2>7, <2>10, GoesOverToken DEF before
<1>6. Abort \/ (Forward(end) /\ Push(t))
    BY DEF CollectGeneric
<1> QED
    BY <1>4, <1>5, <1>6

LEMMA KindKeeps ==
    ASSUME NEW t \in TokenRec
    PROVE  /\ Kind(t) \in TokenKinds
           /\ Kind(t) = "string" <=> t.kind = "string"
           /\ Kind(t) = "delimiter" <=> t.kind = "delimiter"
<1>1. t.kind \in TokenKinds
    BY DEF TokenRec
<1>2. \/ Kind(t) = t.kind
      \/ t.kind = "generic" /\ Kind(t) \in {"int", "float", "generic"}
    BY DEF Kind
<1> QED
    BY <1>1, <1>2 DEF TokenKinds

\* A token and what postprocess_int and postprocess_float make of it.
Postprocessed(t, u) ==
    /\ u \in TokenRec /\ u.string = t.string /\ u.start = t.start /\ u.end = t.end
    /\ u.lineno = t.lineno
    /\ u.kind = "string" <=> t.kind = "string"
    /\ u.kind = "delimiter" <=> t.kind = "delimiter"

LEMMA KindChanges ==
    ASSUME NEW t \in TokenRec
    PROVE  Postprocessed(t, [t EXCEPT !.kind = Kind(t)])
<1> DEFINE k == Kind(t)
<1>1. /\ k \in TokenKinds
      /\ k = "string" <=> t.kind = "string"
      /\ k = "delimiter" <=> t.kind = "delimiter"
    BY KindKeeps
<1> HIDE DEF k
<1>2. [t EXCEPT !.kind = k] \in TokenRec
    BY <1>1 DEF TokenRec
<1>3. /\ [t EXCEPT !.kind = k].kind = k
      /\ [t EXCEPT !.kind = k].string = t.string
      /\ [t EXCEPT !.kind = k].start = t.start
      /\ [t EXCEPT !.kind = k].end = t.end
      /\ [t EXCEPT !.kind = k].lineno = t.lineno
    BY DEF TokenRec
<1>4. Postprocessed(t, [t EXCEPT !.kind = k])
    BY <1>1, <1>2, <1>3 DEF Postprocessed
<1> QED
    BY <1>4 DEF k

LEMMA PostprocessedFits ==
    ASSUME NEW t \in TokenRec, NEW u, NEW b, Postprocessed(t, u), Fits(t, b)
    PROVE  Fits(u, b) /\ End(u) = End(t)
<1>1. u.kind \in TokenKinds /\ t.kind \in TokenKinds
    BY DEF Postprocessed, TokenRec
<1>2. IsWord(u) <=> IsWord(t)
    BY <1>1 DEF Postprocessed, IsWord, TokenKinds
<1>3. End(u) = End(t) /\ Begin(u) = Begin(t)
    BY DEF Postprocessed, End, Begin
<1> QED
    BY <1>2, <1>3 DEF Postprocessed, Fits

LEMMA EndLexingKeeps ==
    ASSUME Given, Here, Covered, NotYet, EndLexing
    PROVE  LexInv'
<1> DEFINE k == Len(token_list)
           last == Before(k + 1)
           tokens == [i \in DOMAIN token_list |->
                        [token_list[i] EXCEPT !.kind = Kind(token_list[i])]]
<1>1. text \in Seq(STRING) /\ Len(text) \in Nat /\ cursor = Len(text) /\ cursor \in Nat
    BY GivenText DEF EndLexing, is_finished
<1>2. UNCHANGED <<lexer, text, cursor, place>> /\ token_list' = tokens
    BY DEF EndLexing
<1>3. token_list \in Seq(TokenRec) /\ DOMAIN token_list = 1 .. k /\ k \in Nat
    BY DEF Covered
<1>4. \A n \in 1 .. k : Fits(token_list[n], Before(n))
    BY DEF Covered
<1>5. last \in 0 .. cursor /\ \A i \in last .. cursor - 1 : IsBlank(i)
    BY DEF Covered
<1>6. ASSUME NEW n \in 1 .. k
      PROVE  /\ token_list[n] \in TokenRec /\ Postprocessed(token_list[n], tokens[n])
             /\ Fits(tokens[n], Before(n)) /\ End(tokens[n]) = End(token_list[n])
    <2>1. token_list[n] \in TokenRec /\ tokens[n] = [token_list[n] EXCEPT !.kind = Kind(token_list[n])]
        BY <1>3
    <2>2. Postprocessed(token_list[n], tokens[n])
        BY <2>1, KindChanges
    <2> HIDE DEF tokens, k
    <2> QED
        BY <1>4, <2>1, <2>2, PostprocessedFits
<1>7. tokens \in Seq(TokenRec) /\ Len(tokens) = k
    <2>1. \A n \in 1 .. k : tokens[n] \in TokenRec
        BY <1>6 DEF Postprocessed
    <2>2. DOMAIN tokens = 1 .. k /\ tokens = [n \in 1 .. k |-> tokens[n]]
        BY <1>3
    <2> HIDE DEF tokens, k
    <2> QED
        BY <1>3, <2>1, <2>2
<1> HIDE DEF tokens
<1>8. ASSUME NEW n \in 1 .. k + 1 PROVE Before(n)' = Before(n)
    <2>1. CASE n = 1
        BY <2>1 DEF Before
    <2>2. CASE n # 1
        <3>1. n - 1 \in 1 .. k
            BY <1>3, <2>2
        <3>2. End(tokens[n - 1]) = End(token_list[n - 1])
            BY <1>6, <3>1
        <3> QED
            BY <1>2, <2>2, <3>2 DEF Before, End
    <2> QED
        BY <2>1, <2>2
<1>9. ASSUME NEW n \in 1 .. k PROVE Fits(token_list[n], Before(n))'
    <2>1. PICK u : u = tokens[n]
        OBVIOUS
    <2>2. Fits(u, Before(n)) /\ token_list[n]' = u
        BY <1>2, <1>6, <2>1
    <2>3. n \in 1 .. k + 1
        BY <1>3
    <2>4. Before(n)' = Before(n)
        BY <1>8, <2>3
    <2> QED
        BY <1>2, <2>2, <2>4 DEF Fits, IsBlank, isspace, starts_comment, match_delimiter, LineOf,
                                Begin, IsWord
<1>10. Covered'
    <2>1. PICK before : before = last
        OBVIOUS
    <2>2. Before(Len(token_list) + 1)' = before
        <3>1. k + 1 \in 1 .. k + 1
            BY <1>3
        <3>2. Len(token_list') = k
            BY <1>2, <1>7
        <3>3. PICK n : n = k + 1
            OBVIOUS
        <3>4. Before(n)' = before
            BY <1>8, <2>1, <3>1, <3>3
        <3> QED
            BY <3>2, <3>3, <3>4 DEF Before
    <2>3. before \in 0 .. cursor' /\ \A i \in before .. cursor' - 1 : IsBlank(i)'
        <3>1. ASSUME NEW i \in before .. cursor - 1 PROVE IsBlank(i)'
            <4>1. IsBlank(i)
                BY <1>5, <2>1, <3>1
            <4> QED
                BY <1>2, <4>1 DEF IsBlank, isspace, starts_comment
        <3> QED
            BY <1>2, <1>5, <2>1, <3>1
    <2>4. \A n \in 1 .. Len(token_list') : Fits(token_list[n], Before(n))'
        BY <1>2, <1>7, <1>9
    <2>5. token_list' \in Seq(TokenRec)
        BY <1>2, <1>7
    <2> QED
        BY <2>2, <2>3, <2>4, <2>5 DEF Covered
<1>11. Given'
    BY DEF Given, EndLexing
<1>12. Here'
    <2>1. LineOf(cursor)' = LineOf(cursor)
        BY <1>2 DEF LineOf
    <2>2. place' \in Somewhere /\ place'.lineno = LineOf(cursor)'
        BY <1>2, <2>1 DEF Here
    <2>3. cursor' \in 0 .. Len(text') /\ cursor' = Len(text')
        BY <1>1, <1>2
    <2> QED
        BY <2>2, <2>3 DEF Here
<1> QED
    BY <1>10, <1>11, <1>12 DEF LexInv

LEMMA GivenKeeps == Given /\ LexerStep => Given' /\ (Plain' => Plain)
<1> SUFFICES ASSUME Given, LexerStep PROVE Given' /\ (Plain' => Plain)
    OBVIOUS
<1>1. UNCHANGED <<lexer, text>> /\ lexed' \in {lexed, "all", "abort"}
    BY DEF LexerStep, IgnoreSpace, IgnoreComment, CollectDelimiter, CollectString, CollectGeneric,
           EndLexing, Forward, Abort
<1> QED
    BY <1>1 DEF Given, Plain

LEMMA LexInvCovers == LexInv => TokensCoverTheText
<1> SUFFICES ASSUME LexInv, lexed = "all", Plain PROVE TokensCoverTheText
    BY DEF TokensCoverTheText, Plain
<1>1. Here /\ Covered
    BY DEF LexInv
<1>2. cursor = Len(text)
    BY <1>1 DEF Here
<1>3. DOMAIN token_list = 1 .. Len(token_list)
    BY <1>1 DEF Covered
<1> QED
    BY <1>1, <1>2, <1>3 DEF Covered, TokensCoverTheText

\* Nothing of a text without backslashes is lost or read twice when a lexer
\* with any mark of comments and any delimiters cuts it into tokens: lexer_run
\* leaves between them only blanks, and marks each with the line where it ends.
THEOREM TokensCover == LexerSpec => []TokensCoverTheText
<1>1. LexInv /\ [LexerStep]_lexer_vars => LexInv'
    <2> SUFFICES ASSUME LexInv, [LexerStep]_lexer_vars PROVE LexInv'
        OBVIOUS
    <2>1. CASE UNCHANGED lexer_vars
        BY <2>1, StaysKeeps DEF lexer_vars
    <2>2. CASE LexerStep
        <3>1. Given /\ Given' /\ (Plain' => Plain)
            BY <2>2, GivenKeeps DEF LexInv
        <3>2. CASE ~Plain
            BY <3>1, <3>2 DEF LexInv
        <3>3. CASE Plain
            <4>1. Given /\ Here /\ Covered
                BY <3>3 DEF LexInv
            <4>2. NotYet
                BY <2>2 DEF LexerStep, IgnoreSpace, IgnoreComment, CollectDelimiter, CollectString,
                            CollectGeneric, EndLexing, Lexing, NotYet
            <4> QED
                BY <2>2, <3>3, <4>1, <4>2, IgnoreSpaceKeeps, IgnoreCommentKeeps, CollectDelimiterKeeps,
                   CollectStringKeeps, CollectGenericKeeps, EndLexingKeeps DEF LexerStep
        <3> QED
            BY <3>2, <3>3
    <2> QED
        BY <2>1, <2>2
<1> QED
    BY <1>1, LexInvInit, LexInvCovers, PTL DEF LexerSpec
=============================================================================
