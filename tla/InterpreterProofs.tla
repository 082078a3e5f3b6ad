------------------------- MODULE InterpreterProofs -------------------------
(***************************************************************************)
(* The frames of the interpreter, and the rules that programs define, for  *)
(* every text that files may have.                                         *)
(*                                                                         *)
(* What a step finds depends on what was compiled, so the proof goes in    *)
(* four parts: what the opcodes of a compiled function are like (Compiled,  *)
(* FunctionFits); what the frames of one worker are like while it runs such *)
(* functions (WorkerFits); that the frames of different workers are        *)
(* different ones (Ownership); and that a worker waits for an import only  *)
(* while another file is loaded inside its own (LoadsFit).  IInv puts them *)
(* together and is inductive; FramesAreOwned and TailCallsAreProper follow  *)
(* from it.                                                                *)
(*                                                                         *)
(* Of the rules it needs that the first one for two constructors is the    *)
(* first in the arrays of both (RulesAgree), and that no rule is for a     *)
(* constructor that is not there yet (RulesFit); RInv is inductive with     *)
(* IInv, and SameRuleEitherWay and FirstRuleStays follow from it.           *)
(***************************************************************************)
EXTENDS Interpreter, FiniteSetTheorems, SequenceTheorems, WellFoundedInduction, TLAPS

-----------------------------------------------------------------------------
(* Sequences and values.                                                   *)

\* s is a sequence.
IsSeq(s) == \E S : s \in Seq(S)

\* What words can get: neither the function of a single token nor nothing.
IsValue(v) == v[1] \notin {"scratch", "null"}

\* s is a stack of values.
ValueSeq(s) == \E S : s \in Seq(S) /\ \A v \in S : IsValue(v)

\* What is in Seq(S) is a sequence.
LEMMA SeqIs == ASSUME NEW s, NEW S, s \in Seq(S) PROVE IsSeq(s)
BY Zenon DEF IsSeq

\* A stack of values is a sequence whose elements are values.
LEMMA ValuesAreSeq ==
    ASSUME NEW s, ValueSeq(s)
    PROVE  /\ IsSeq(s) /\ Len(s) \in Nat /\ DOMAIN s = 1 .. Len(s)
           /\ \A i \in 1 .. Len(s) : IsValue(s[i])
<1>1. PICK S : s \in Seq(S) /\ \A v \in S : IsValue(v)
    BY DEF ValueSeq
<1>2. Len(s) \in Nat /\ DOMAIN s = 1 .. Len(s) /\ \A i \in 1 .. Len(s) : s[i] \in S
    BY <1>1
<1> QED
    BY <1>1, <1>2 DEF IsSeq

\* The empty stack is a stack of values.
LEMMA NoValues == ValueSeq(<<>>)
<1>1. <<>> \in Seq({})
    OBVIOUS
<1> DEFINE S == {}
<1>2. <<>> \in Seq(S) /\ \A v \in S : IsValue(v)
    BY <1>1
<1> HIDE DEF S
<1> QED
    BY <1>2, Zenon DEF ValueSeq

\* A value can be pushed.
LEMMA ValueAppend ==
    ASSUME NEW s, ValueSeq(s), NEW v, IsValue(v)
    PROVE  ValueSeq(Append(s, v)) /\ Append(s, v) # <<>>
<1>1. PICK S : s \in Seq(S) /\ \A x \in S : IsValue(x)
    BY DEF ValueSeq
<1>2. s \in Seq(S \cup {v})
    BY <1>1
<1>3. Append(s, v) \in Seq(S \cup {v}) /\ Append(s, v) # <<>>
    BY <1>2, AppendProperties
<1>4. \A x \in S \cup {v} : IsValue(x)
    BY <1>1
<1> QED
    BY <1>3, <1>4, Zenon DEF ValueSeq

\* Two stacks of values make one.
LEMMA ValueConcat ==
    ASSUME NEW s, ValueSeq(s), NEW t, ValueSeq(t)
    PROVE  ValueSeq(s \o t)
<1>1. PICK S : s \in Seq(S) /\ \A x \in S : IsValue(x)
    BY DEF ValueSeq
<1>2. PICK T : t \in Seq(T) /\ \A x \in T : IsValue(x)
    BY DEF ValueSeq
<1>3. s \in Seq(S \cup T) /\ t \in Seq(S \cup T)
    BY <1>1, <1>2
<1>4. s \o t \in Seq(S \cup T)
    BY <1>3
<1>5. \A x \in S \cup T : IsValue(x)
    BY <1>1, <1>2
<1> QED
    BY <1>4, <1>5, Zenon DEF ValueSeq

\* A part of a stack of values is one.
LEMMA ValueSub ==
    ASSUME NEW s, ValueSeq(s), NEW i \in Int, NEW j \in Int, 1 <= i, j <= Len(s)
    PROVE  /\ ValueSeq(SubSeq(s, i, j))
           /\ Len(SubSeq(s, i, j)) = IF i <= j THEN j - i + 1 ELSE 0
<1>1. PICK S : s \in Seq(S) /\ \A x \in S : IsValue(x)
    BY DEF ValueSeq
<1>2. SubSeq(s, i, j) \in Seq(S) /\ Len(SubSeq(s, i, j)) = IF i <= j THEN j - i + 1 ELSE 0
    BY <1>1, SubSeqProperties
<1> QED
    BY <1>1, <1>2, Zenon DEF ValueSeq

\* The top of a stack that is not empty is a value, and what is left is a stack.
LEMMA ValueFront ==
    ASSUME NEW s, ValueSeq(s)
    PROVE  /\ ValueSeq(Front(s)) 
           /\ s # <<>> => IsValue(Last(s))
<1>1. Len(s) \in Nat
    BY ValuesAreSeq
<1>2. ValueSeq(Front(s))
    BY <1>1, ValueSub DEF Front
<1>3. s # <<>> => Len(s) > 0
    BY DEF ValueSeq
<1> QED
    BY <1>2, <1>3, ValuesAreSeq DEF Last

\* A single value is a stack.
LEMMA OneValue == ASSUME NEW v, IsValue(v) PROVE ValueSeq(<<v>>)
<1>1. <<v>> \in Seq({v})
    OBVIOUS
<1> DEFINE S == {v}
<1>2. <<v>> \in Seq(S) /\ \A x \in S : IsValue(x)
    BY <1>1
<1> HIDE DEF S
<1> QED
    BY <1>2, Zenon DEF ValueSeq

-----------------------------------------------------------------------------
(* Compiling.                                                              *)

\* Induction up to k, over a set.
LEMMA Induct ==
    ASSUME NEW k \in Nat, NEW S, 0 \in S, \A i \in 0 .. k - 1 : i \in S => i + 1 \in S
    PROVE  0 .. k \subseteq S
<1> DEFINE T == {i \in 0 .. k : i \notin S}
<1> SUFFICES ASSUME T # {} PROVE FALSE
    OBVIOUS
<1>1. T \subseteq Nat
    OBVIOUS
<1>2. PICK x \in T : \A y \in T : ~(y < x)
    <2> HIDE DEF T
    <2>1. \E x \in T : \A y \in T : <<y, x>> \notin OpToRel(<, Nat)
        BY <1>1, WFMin, NatLessThanWellFounded, Zenon
    <2>2. \A y \in T : y \in Nat
        BY <1>1
    <2> QED
        BY <2>1, <2>2, Zenon DEF OpToRel
<1>3. x - 1 \in 0 .. k - 1 /\ x - 1 \in S
    BY <1>2
<1> QED
    BY <1>2, <1>3

\* A set of numbers that is not empty has a least element, which Min chooses.
LEMMA LeastOf ==
    ASSUME NEW T, T \subseteq Nat, T # {}
    PROVE  Min(T) \in T /\ \A y \in T : Min(T) <= y
<1>1. \E x \in T : \A y \in T : <<y, x>> \notin OpToRel(<, Nat)
    BY WFMin, NatLessThanWellFounded, Zenon
<1>2. PICK x \in T : \A y \in T : ~(y < x)
    <2>1. \A y \in T : y \in Nat
        OBVIOUS
    <2> QED
        BY <1>1, <2>1, Zenon DEF OpToRel
<1>3. \A y \in T : x <= y
    BY <1>2
<1> QED
    BY <1>3, Zenon DEF Min

\* The index of a local variable that is there is one of its places.
LEMMA IndexIs ==
    ASSUME NEW s, IsSeq(s), NEW name
    PROVE  /\ Len(s) \in Nat
           /\ Contains(s, name) => IndexOf(s, name) \in 1 .. Len(s) /\ s[IndexOf(s, name)] = name
<1> DEFINE I == {i \in 1 .. Len(s) : s[i] = name}
<1>1. Len(s) \in Nat
    BY DEF IsSeq
<1>2. IndexOf(s, name) = IF I # {} THEN Min(I) ELSE 0
    BY DEF IndexOf, SelectInSeq
<1>3. ASSUME Contains(s, name) PROVE I # {}
    BY <1>3 DEF Contains
<1>4. I \subseteq Nat
    OBVIOUS
<1>5. I # {} => Min(I) \in I
    <2> HIDE DEF I
    <2> QED
        BY <1>4, LeastOf
<1> QED
    BY <1>1, <1>2, <1>3, <1>5

\* What a compiled function is like: a variable is read only after it was set, and
\* what is applied is the literal before.
Compiled(opcodes) ==
    /\ IsSeq(opcodes)
    /\ \A j \in 1 .. Len(opcodes) :
        /\ opcodes[j].op = "literal" => IsValue(opcodes[j].value)
        /\ opcodes[j].op = "apply" => j > 1 /\ opcodes[j - 1].op = "literal"
        /\ opcodes[j].op = "get variable" =>
              \E i \in 1 .. j - 1 : /\ opcodes[i].op = "set variable"
                                    /\ opcodes[i].index = opcodes[j].index

\* c is a compilation, of whatever it consists.
IsCompilation(c) ==
    \E A, B, C, D : c \in [tokens : A, opcodes : B, locals : C, status : D]

\* Every name so far has an opcode that sets it.
CompilationFits(c) ==
    /\ IsCompilation(c)
    /\ IsSeq(c.tokens) /\ IsSeq(c.locals) /\ Compiled(c.opcodes)
    /\ \A k \in 1 .. Len(c.locals) :
        \E j \in 1 .. Len(c.opcodes) : c.opcodes[j].op = "set variable" /\ c.opcodes[j].index = k

\* A sequence has a length.
LEMMA LengthIs == ASSUME NEW s, IsSeq(s) PROVE Len(s) \in Nat
BY DEF IsSeq

\* So do the opcodes of a function.
LEMMA CompiledLength == ASSUME NEW ops, Compiled(ops) PROVE Len(ops) \in Nat
BY LengthIs DEF Compiled

\* Opcodes for the next token are added to those before.
Continues(t, s) ==
    /\ IsSeq(t)
    /\ \A j \in 1 .. Len(t) :
        /\ t[j].op = "literal" => IsValue(t[j].value)
        /\ t[j].op = "apply" => j > 1 /\ t[j - 1].op = "literal"
        /\ t[j].op = "get variable" =>
              \E i \in 1 .. Len(s) : s[i].op = "set variable" /\ s[i].index = t[j].index

\* Opcodes that continue compiled ones make compiled ones, and the first stay in
\* place.
LEMMA CompiledMore ==
    ASSUME NEW s, Compiled(s), NEW t, Continues(t, s)
    PROVE  /\ Compiled(s \o t) /\ Len(s \o t) = Len(s) + Len(t)
           /\ Len(s) \in Nat /\ Len(t) \in Nat
           /\ \A j \in 1 .. Len(s) : (s \o t)[j] = s[j]
           /\ \A j \in 1 .. Len(t) : (s \o t)[Len(s) + j] = t[j]
<1>1. PICK S : s \in Seq(S)
    BY DEF Compiled, IsSeq
<1>2. PICK T : t \in Seq(T)
    BY DEF Continues, IsSeq
<1>3. s \in Seq(S \cup T) /\ t \in Seq(S \cup T)
    BY <1>1, <1>2
<1>4. /\ s \o t \in Seq(S \cup T) /\ Len(s \o t) = Len(s) + Len(t)
      /\ Len(s) \in Nat /\ Len(t) \in Nat
      /\ \A j \in 1 .. Len(s) : (s \o t)[j] = s[j]
      /\ \A j \in 1 .. Len(t) : (s \o t)[Len(s) + j] = t[j]
    BY <1>3, ConcatProperties
<1>5. IsSeq(s \o t)
    BY <1>4, Zenon DEF IsSeq
<1> DEFINE r == s \o t
<1> HIDE DEF r
<1>6. ASSUME NEW j \in 1 .. Len(r)
      PROVE  /\ r[j].op = "literal" => IsValue(r[j].value)
             /\ r[j].op = "apply" => j > 1 /\ r[j - 1].op = "literal"
             /\ r[j].op = "get variable" =>
                  \E i \in 1 .. j - 1 : r[i].op = "set variable" /\ r[i].index = r[j].index
    <2>1. CASE j <= Len(s)
        <3>1. r[j] = s[j] /\ (j > 1 => r[j - 1] = s[j - 1]) /\ j \in 1 .. Len(s)
            BY <1>4, <2>1 DEF r
        <3>2. \A i \in 1 .. j - 1 : r[i] = s[i]
            BY <1>4, <2>1 DEF r
        <3> QED
            BY <3>1, <3>2 DEF Compiled
    <2>2. CASE j > Len(s)
        <3> DEFINE k == j - Len(s)
        <3>1. k \in 1 .. Len(t) /\ r[j] = t[k] /\ (k > 1 => r[j - 1] = t[k - 1])
            <4>1. k \in 1 .. Len(t) /\ j = Len(s) + k
                BY <1>4, <2>2 DEF r
            <4>2. r[j] = t[k]
                BY <1>4, <4>1 DEF r
            <4>3. ASSUME k > 1 PROVE r[j - 1] = t[k - 1]
                <5>1. k - 1 \in 1 .. Len(t) /\ j - 1 = Len(s) + (k - 1)
                    BY <1>4, <4>1, <4>3
                <5> QED
                    BY <1>4, <5>1 DEF r
            <4> QED
                BY <4>1, <4>2, <4>3
        <3>2. \A i \in 1 .. Len(s) : r[i] = s[i] /\ i \in 1 .. j - 1
            BY <1>4, <2>2 DEF r
        <3> HIDE DEF k
        <3>3. r[j].op = "apply" => j > 1 /\ r[j - 1].op = "literal"
            <4>1. t[k].op = "apply" => k > 1 /\ t[k - 1].op = "literal"
                BY <3>1 DEF Continues
            <4>2. k > 1 => j > 1
                BY <1>4, <3>1 DEF k
            <4> QED
                BY <3>1, <4>1, <4>2
        <3>4. r[j].op = "literal" => IsValue(r[j].value)
            BY <3>1 DEF Continues
        <3>5. ASSUME r[j].op = "get variable"
              PROVE  \E i \in 1 .. j - 1 : r[i].op = "set variable" /\ r[i].index = r[j].index
            <4>1. PICK i \in 1 .. Len(s) : s[i].op = "set variable" /\ s[i].index = t[k].index
                BY <3>1, <3>5 DEF Continues
            <4> QED
                BY <3>1, <3>2, <4>1
        <3> QED
            BY <3>3, <3>4, <3>5
    <2>3. j <= Len(s) \/ j > Len(s)
        BY <1>4
    <2> QED
        BY <2>1, <2>2, <2>3, Zenon
<1> QED
    BY <1>4, <1>5, <1>6 DEF Compiled, r

\* A compilation still fits when a token has been replaced by opcodes that
\* continue it.
LEMMA EmitFits ==
    ASSUME NEW c, CompilationFits(c), c.tokens # <<>>, NEW t, Continues(t, c.opcodes)
    PROVE  CompilationFits(Emit(c, t)) /\ Emit(c, t).status = c.status
<1> DEFINE d == Emit(c, t)
<1>0. PICK A, B, C, D : c \in [tokens : A, opcodes : B, locals : C, status : D]
    BY DEF CompilationFits, IsCompilation
<1>1. /\ d.tokens = Tail(c.tokens) /\ d.opcodes = c.opcodes \o t
      /\ d.locals = c.locals /\ d.status = c.status
    BY <1>0 DEF Emit
<1>2. IsSeq(Tail(c.tokens))
    <2>1. PICK S : c.tokens \in Seq(S)
        BY DEF CompilationFits, IsSeq
    <2>2. Tail(c.tokens) \in Seq(S)
        BY <2>1
    <2> QED
        BY <2>2, Zenon DEF IsSeq
<1>3. Compiled(c.opcodes)
    BY DEF CompilationFits
<1>4. /\ Compiled(c.opcodes \o t) /\ Len(c.opcodes \o t) = Len(c.opcodes) + Len(t)
      /\ Len(c.opcodes) \in Nat /\ Len(t) \in Nat
      /\ \A j \in 1 .. Len(c.opcodes) : (c.opcodes \o t)[j] = c.opcodes[j]
    BY <1>3, CompiledMore
<1>a. IsCompilation(d)
    <2>1. d \in [tokens : A \cup {Tail(c.tokens)}, opcodes : B \cup {c.opcodes \o t},
                 locals : C, status : D]
        BY <1>0 DEF Emit
    <2> QED
        BY <2>1, Zenon DEF IsCompilation
<1> HIDE DEF d
<1>5. ASSUME NEW k \in 1 .. Len(c.locals)
      PROVE  \E j \in 1 .. Len(d.opcodes) :
                d.opcodes[j].op = "set variable" /\ d.opcodes[j].index = k
    <2>1. PICK j \in 1 .. Len(c.opcodes) :
            c.opcodes[j].op = "set variable" /\ c.opcodes[j].index = k
        BY DEF CompilationFits
    <2>2. j \in 1 .. Len(d.opcodes) /\ d.opcodes[j] = c.opcodes[j]
        BY <1>1, <1>4
    <2> QED
        BY <2>1, <2>2
<1>6. IsSeq(d.tokens) /\ Compiled(d.opcodes) /\ IsSeq(d.locals) /\ d.locals = c.locals
    BY <1>1, <1>2, <1>4 DEF CompilationFits
<1> QED
    BY <1>1, <1>a, <1>5, <1>6 DEF CompilationFits, d

\* A sequence of one element.
LEMMA Single ==
    ASSUME NEW o
    PROVE  IsSeq(<<o>>) /\ Len(<<o>>) = 1 /\ <<o>>[1] = o
<1> DEFINE S == {o}
<1>1. <<o>> \in Seq(S) /\ Len(<<o>>) = 1 /\ <<o>>[1] = o
    OBVIOUS
<1> HIDE DEF S
<1> QED
    BY <1>1, Zenon DEF IsSeq

\* The opcode o may come after the opcodes s.
MayContinue(o, s) ==
    /\ o.op = "literal" => IsValue(o.value)
    /\ o.op # "apply"
    /\ o.op = "get variable" => \E i \in 1 .. Len(s) : s[i].op = "set variable" /\ s[i].index = o.index

\* One opcode continues others if it alone may.
LEMMA OneOpcode ==
    ASSUME NEW o, NEW s, MayContinue(o, s)
    PROVE  Continues(<<o>>, s)
<1> DEFINE t == <<o>>
<1>1. IsSeq(t) /\ \A j \in 1 .. Len(t) : t[j] = o
    <2>1. IsSeq(t) /\ Len(t) = 1 /\ t[1] = o
        BY Single
    <2> HIDE DEF t
    <2>2. \A j \in 1 .. Len(t) : j = 1
        BY <2>1
    <2> QED
        BY <2>1, <2>2, Zenon
<1> HIDE DEF t
<1>2. Continues(t, s)
    BY <1>1, Zenon DEF Continues, MayContinue
<1> QED
    BY <1>2 DEF t

\* Two sequences of one element make one of two.
LEMMA PairConcat == ASSUME NEW a, NEW b PROVE <<a>> \o <<b>> = <<a, b>>
<1> DEFINE S == {a, b}
           x == <<a>>
           y == <<b>>
           z == <<a, b>>
<1>1. /\ x \in Seq(S) /\ y \in Seq(S) /\ z \in Seq(S)
      /\ Len(x) = 1 /\ Len(y) = 1 /\ Len(z) = 2
      /\ x[1] = a /\ y[1] = b /\ z[1] = a /\ z[2] = b
    OBVIOUS
<1> HIDE DEF S, x, y, z
<1>2. /\ x \o y \in Seq(S) /\ Len(x \o y) = 2
      /\ (x \o y)[1] = a /\ (x \o y)[2] = b
    BY <1>1, ConcatProperties
<1> DEFINE w == x \o y
<1>3. w \in Seq(S) /\ Len(w) = 2 /\ w[1] = a /\ w[2] = b
    BY <1>2
<1> HIDE DEF w
<1>4. \A i \in 1 .. 2 : w[i] = z[i]
    <2>1. \A i \in 1 .. 2 : i = 1 \/ i = 2
        OBVIOUS
    <2> QED
        BY <1>1, <1>3, <2>1
<1>5. w = z
    BY <1>1, <1>3, <1>4, SeqEqual
<1> QED
    BY <1>5 DEF w, x, y, z

\* A literal and the opcode that applies it continue any opcodes.
LEMMA Two ==
    ASSUME NEW o, o.op = "literal", IsValue(o.value), NEW a, a.op = "apply", NEW s
    PROVE  Continues(<<o, a>>, s)
<1> DEFINE S == {o, a}
           t == <<o, a>>
<1>1. t \in Seq(S) /\ Len(t) = 2 /\ t[1] = o /\ t[2] = a
    OBVIOUS
<1> HIDE DEF S, t
<1>2. IsSeq(t)
    BY <1>1, SeqIs
<1>3. \A j \in 1 .. Len(t) : j = 1 \/ (j = 2 /\ j > 1 /\ j - 1 = 1)
    BY <1>1
<1>4. ASSUME NEW j \in 1 .. Len(t)
      PROVE  /\ t[j].op = "literal" => IsValue(t[j].value)
             /\ t[j].op = "apply" => j > 1 /\ t[j - 1].op = "literal"
             /\ t[j].op # "get variable"
    <2>1. CASE j = 1
        <3>1. t[j] = o
            BY <1>1, <2>1
        <3> QED
            BY <3>1
    <2>2. CASE j = 2 /\ j > 1 /\ j - 1 = 1
        <3>1. t[j] = a /\ t[j - 1] = o
            BY <1>1, <2>2
        <3> QED
            BY <2>2, <3>1
    <2> QED
        BY <1>3, <2>1, <2>2
<1>5. Continues(t, s)
    BY <1>2, <1>4, Zenon DEF Continues
<1> QED
    BY <1>5 DEF t

\* A compilation still fits when another name has been bound.
LEMMA BoundFits ==
    ASSUME NEW c, CompilationFits(c), NEW name
    PROVE  CompilationFits(Bound(c, name)) /\ Bound(c, name).status = c.status
<1> DEFINE locals == IF Contains(c.locals, name) THEN c.locals ELSE Append(c.locals, name)
           o == Opcode("set variable", NULL, IndexOf(locals, name))
           d == Bound(c, name)
<1>0. PICK A, B, C, D : c \in [tokens : A, opcodes : B, locals : C, status : D]
    BY DEF CompilationFits, IsCompilation
<1>b. d = [c EXCEPT !.locals = locals, !.opcodes = Append(@, o)]
    BY DEF Bound
<1>1. /\ d.tokens = c.tokens /\ d.opcodes = Append(c.opcodes, o)
      /\ d.locals = locals /\ d.status = c.status
    <2> HIDE DEF o, d, locals
    <2> QED
        BY <1>0, <1>b
<1>2. /\ IsSeq(locals) /\ Contains(locals, name) /\ Len(c.locals) \in Nat
      /\ Contains(c.locals, name) => Len(locals) = Len(c.locals)
      /\ ~Contains(c.locals, name) => Len(locals) = Len(c.locals) + 1
      /\ \A k \in 1 .. Len(c.locals) : locals[k] = c.locals[k]
    <2>1. PICK S : c.locals \in Seq(S)
        BY DEF CompilationFits, IsSeq
    <2>2. CASE Contains(c.locals, name)
        <3>1. locals = c.locals
            BY <2>2, Zenon
        <3>2. IsSeq(c.locals)
            BY DEF CompilationFits
        <3>3. Len(c.locals) \in Nat
            BY <2>1
        <3> HIDE DEF locals
        <3> QED
            BY <2>2, <3>1, <3>2, <3>3, Zenon
    <2>3. CASE ~Contains(c.locals, name)
        <3>1. c.locals \in Seq(S \cup {name})
            BY <2>1
        <3>2. /\ locals \in Seq(S \cup {name}) /\ Len(locals) = Len(c.locals) + 1
              /\ locals[Len(locals)] = name /\ Len(c.locals) \in Nat
              /\ \A k \in 1 .. Len(c.locals) : locals[k] = c.locals[k]
            BY <2>3, <3>1, AppendProperties
        <3> HIDE DEF locals
        <3>3. IsSeq(locals)
            BY <3>2, Zenon DEF IsSeq
        <3>4. Len(locals) \in 1 .. Len(locals)
            BY <3>2
        <3>5. Contains(locals, name)
            BY <3>2, <3>4, Zenon DEF Contains
        <3> QED
            BY <2>3, <3>2, <3>3, <3>5, Zenon
    <2> QED
        BY <2>2, <2>3, Zenon
<1> HIDE DEF locals
<1>3. IndexOf(locals, name) \in 1 .. Len(locals) /\ locals[IndexOf(locals, name)] = name
    BY <1>2, IndexIs
<1>4. ~Contains(c.locals, name) => IndexOf(locals, name) = Len(c.locals) + 1
    <2>1. ASSUME IndexOf(locals, name) \in 1 .. Len(c.locals) PROVE Contains(c.locals, name)
        BY <1>2, <1>3, <2>1 DEF Contains
    <2>2. ASSUME ~Contains(c.locals, name)
          PROVE  IndexOf(locals, name) \notin 1 .. Len(c.locals) /\ Len(locals) = Len(c.locals) + 1
        BY <1>2, <2>1, <2>2, Zenon
    <2> QED
        BY <1>2, <1>3, <2>2
<1>5. Continues(<<o>>, c.opcodes) /\ o.op = "set variable" /\ o.index = IndexOf(locals, name)
    <2>1. o.op = "set variable" /\ o.index = IndexOf(locals, name)
        BY DEF Opcode
    <2>2. MayContinue(o, c.opcodes)
        BY <2>1 DEF MayContinue
    <2> QED
        BY <2>1, <2>2, OneOpcode
<1> HIDE DEF o
<1>6. PICK S : c.opcodes \in Seq(S)
    BY DEF CompilationFits, Compiled, IsSeq
<1>7. c.opcodes \in Seq(S \cup {o}) /\ Len(<<o>>) = 1 /\ <<o>>[1] = o
    BY <1>6
<1>8. Append(c.opcodes, o) = c.opcodes \o <<o>>
    BY <1>7, AppendIsConcat
<1>9. /\ Compiled(Append(c.opcodes, o)) /\ Len(c.opcodes) \in Nat
      /\ Len(Append(c.opcodes, o)) = Len(c.opcodes) + 1
      /\ \A j \in 1 .. Len(c.opcodes) : Append(c.opcodes, o)[j] = c.opcodes[j]
      /\ Append(c.opcodes, o)[Len(c.opcodes) + 1] = o
    <2> DEFINE u == <<o>>
               x == c.opcodes
               r == x \o u
    <2>1. Compiled(x) /\ Continues(u, x) /\ Len(u) = 1 /\ u[1] = o
        BY <1>5, <1>7 DEF CompilationFits
    <2>2. Append(c.opcodes, o) = r
        BY <1>8
    <2> HIDE DEF u, x
    <2>3. /\ Compiled(r) /\ Len(r) = Len(x) + Len(u) /\ Len(x) \in Nat
          /\ \A j \in 1 .. Len(x) : r[j] = x[j]
          /\ \A j \in 1 .. Len(u) : r[Len(x) + j] = u[j]
        BY <2>1, CompiledMore
    <2> HIDE DEF r
    <2>4. r[Len(x) + 1] = o
        BY <2>1, <2>3
    <2>5. x = c.opcodes
        BY DEF x
    <2> QED
        BY <2>1, <2>2, <2>3, <2>4, <2>5
<1>a. IsCompilation(d)
    <2>1. d \in [tokens : A, opcodes : B \cup {Append(c.opcodes, o)},
                 locals : C \cup {locals}, status : D]
        <3> HIDE DEF d
        <3> QED
            BY <1>0, <1>b
    <2> QED
        BY <2>1, Zenon DEF IsCompilation
<1> HIDE DEF d
<1>10. ASSUME NEW k \in 1 .. Len(locals)
       PROVE  \E j \in 1 .. Len(d.opcodes) :
                d.opcodes[j].op = "set variable" /\ d.opcodes[j].index = k
    <2>1. CASE k \in 1 .. Len(c.locals)
        <3>1. PICK j \in 1 .. Len(c.opcodes) :
                c.opcodes[j].op = "set variable" /\ c.opcodes[j].index = k
            BY <2>1 DEF CompilationFits
        <3>2. j \in 1 .. Len(d.opcodes) /\ d.opcodes[j] = c.opcodes[j]
            BY <1>1, <1>9
        <3> QED
            BY <3>1, <3>2
    <2>2. CASE k \notin 1 .. Len(c.locals)
        <3>1. k = IndexOf(locals, name)
            <4>1. CASE Contains(c.locals, name)
                <5>1. Len(locals) = Len(c.locals)
                    BY <1>2, <4>1, Zenon
                <5> QED
                    BY <2>2, <5>1
            <4>2. CASE ~Contains(c.locals, name)
                <5>1. Len(locals) = Len(c.locals) + 1 /\ IndexOf(locals, name) = Len(c.locals) + 1
                    BY <1>2, <1>4, <4>2, Zenon
                <5> QED
                    BY <1>2, <2>2, <5>1
            <4> QED
                BY <4>1, <4>2
        <3> DEFINE n == Len(c.opcodes) + 1
        <3>2. n \in 1 .. Len(d.opcodes) /\ d.opcodes[n] = o
            BY <1>1, <1>9
        <3> QED
            BY <1>5, <3>1, <3>2
    <2> QED
        BY <2>1, <2>2
<1>11. IsSeq(d.tokens) /\ Compiled(d.opcodes) /\ IsSeq(d.locals) /\ d.locals = locals
    BY <1>1, <1>2, <1>9 DEF CompilationFits
<1> QED
    BY <1>1, <1>a, <1>10, <1>11 DEF CompilationFits, d

\* What compile_bind makes of the names, one after the other.
BindRun(g, start, tokens, close, n) ==
    g = [i \in 0 .. n |-> IF i = 0 THEN start ELSE Bound(g[i - 1], tokens[close - i].string)]

\* The function by which compile_bind is written exists.
LEMMA BindRuns ==
    ASSUME NEW start, NEW tokens, NEW close, NEW n \in Nat
    PROVE  \E g : BindRun(g, start, tokens, close, n)
<1> DEFINE Step(g, i) == Bound(g[i - 1], tokens[close - i].string)
           Runs(k, g) == g = [i \in 0 .. k |-> IF i = 0 THEN start ELSE Step(g, i)]
           S == {k \in 0 .. n : \E g : Runs(k, g)}
<1>1. 0 \in S
    <2> DEFINE g == [i \in 0 .. 0 |-> start]
    <2>1. Runs(0, g)
        OBVIOUS
    <2> HIDE DEF g, Runs
    <2> QED
        BY <2>1
<1>2. ASSUME NEW k \in 0 .. n - 1, k \in S PROVE k + 1 \in S
    <2>1. PICK g : Runs(k, g)
        BY <1>2
    <2> DEFINE h == [i \in 0 .. k + 1 |-> IF i <= k THEN g[i] ELSE Step(g, i)]
    <2>2. \A i \in 0 .. k : h[i] = g[i]
        OBVIOUS
    <2>3. \A i \in 0 .. k : g[i] = IF i = 0 THEN start ELSE Step(g, i)
        BY <2>1
    <2>4. \A i \in 1 .. k + 1 : Step(h, i) = Step(g, i)
        <3>1. \A i \in 1 .. k + 1 : i - 1 \in 0 .. k
            OBVIOUS
        <3> HIDE DEF h
        <3> QED
            BY <2>2, <3>1
    <2>5. \A i \in 0 .. k + 1 : h[i] = IF i = 0 THEN start ELSE Step(h, i)
        <3> SUFFICES ASSUME NEW i \in 0 .. k + 1
                     PROVE  h[i] = IF i = 0 THEN start ELSE Step(h, i)
            OBVIOUS
        <3>1. CASE i <= k
            <4>1. h[i] = g[i] /\ i \in 0 .. k /\ (i # 0 => i \in 1 .. k + 1)
                BY <3>1
            <4> HIDE DEF h, Step
            <4> QED
                BY <2>3, <2>4, <4>1
        <3>2. CASE i = k + 1
            <4>1. h[i] = Step(g, i) /\ i # 0 /\ i \in 1 .. k + 1
                BY <3>2
            <4> HIDE DEF h, Step
            <4> QED
                BY <2>4, <4>1
        <3> QED
            BY <3>1, <3>2
    <2>6. h = [i \in 0 .. k + 1 |-> h[i]]
        OBVIOUS
    <2>7. Runs(k + 1, h)
        <3> HIDE DEF h, Step
        <3> QED
            BY <2>5, <2>6
    <2> HIDE DEF Runs, h
    <2> QED
        BY <2>7
<1> HIDE DEF Runs
<1>3. 0 .. n \subseteq S
    <2> HIDE DEF S
    <2> QED
        BY <1>1, <1>2, Induct
<1>4. n \in S
    BY <1>3
<1>5. PICK g : Runs(n, g)
    BY <1>4
<1>6. BindRun(g, start, tokens, close, n)
    BY <1>5 DEF Runs, BindRun
<1> QED
    BY <1>6

\* The first place of a token that is written so.
PlaceOf(s, string) == SelectInSeq(s, LAMBDA t : t.string = string)

\* SelectInSeq finds a place of the token, or 0.
LEMMA PlaceIs ==
    ASSUME NEW s, IsSeq(s), NEW string, NEW place, place = PlaceOf(s, string)
    PROVE  /\ place \in 0 .. Len(s) /\ Len(s) \in Nat
           /\ place # 0 => s[place].string = string
<1> DEFINE I == {i \in 1 .. Len(s) : s[i].string = string}
<1>1. Len(s) \in Nat
    BY DEF IsSeq
<1>2. place = IF I # {} THEN Min(I) ELSE 0
    BY DEF PlaceOf, SelectInSeq
<1>3. I # {} => Min(I) \in I
    <2>1. I \subseteq Nat
        OBVIOUS
    <2> HIDE DEF I
    <2> QED
        BY <2>1, LeastOf
<1> QED
    BY <1>1, <1>2, <1>3

\* What follows in a list of tokens is a list of tokens.
LEMMA RestOf ==
    ASSUME NEW s, IsSeq(s), NEW i \in Nat \ {0}
    PROVE  IsSeq(SubSeq(s, i, Len(s)))
<1>1. PICK S : s \in Seq(S)
    BY DEF IsSeq
<1>2. SubSeq(s, i, Len(s)) \in Seq(S)
    BY <1>1, SubSeqProperties
<1> QED
    BY <1>2, Zenon DEF IsSeq

\* A compilation that goes on fits.
Fits(c) == c.status = "running" => CompilationFits(c)

\* A compilation that has failed need not fit.
LEMMA NotRunning ==
    ASSUME NEW c, CompilationFits(c), NEW how, how # "running"
    PROVE  Fits([c EXCEPT !.status = how])
BY DEF CompilationFits, IsCompilation, Fits

\* ( x y ) leaves a compilation that fits, when it does not fail.
LEMMA BindFits ==
    ASSUME NEW c, CompilationFits(c), c.tokens[1].string = "("
    PROVE  Fits(compile_bind(c))
<1> DEFINE close == SelectInSeq(c.tokens, LAMBDA t : t.string = ")")
           start == [c EXCEPT !.tokens = SubSeq(@, close + 1, Len(@))]
           Runs(g) == BindRun(g, start, c.tokens, close, close - 2)
           after == CHOOSE g : Runs(g)
<1>1. compile_bind(c) = IF close = 0 THEN [c EXCEPT !.status = "abort"] ELSE after[close - 2]
    BY DEF compile_bind, BindRun
<1>2. IsSeq(c.tokens)
    BY DEF CompilationFits
<1>3. /\ close \in 0 .. Len(c.tokens) /\ Len(c.tokens) \in Nat
      /\ close # 0 => c.tokens[close].string = ")"
    <2>1. close = PlaceOf(c.tokens, ")")
        BY DEF PlaceOf
    <2> HIDE DEF close
    <2> QED
        BY <1>2, <2>1, PlaceIs
<1> HIDE DEF close
<1>4. close # 1
    BY <1>3
<1>5. ASSUME close # 0 PROVE CompilationFits(after[close - 2])
    <2>1. close - 2 \in Nat /\ close \in Nat
        BY <1>3, <1>4, <1>5
    <2>2. \E g : Runs(g)
        <3> HIDE DEF start
        <3> QED
            BY <2>1, BindRuns
    <2>3. Runs(after)
        <3> HIDE DEF Runs
        <3> QED
            BY <2>2
    <2> HIDE DEF after
    <2>4. CompilationFits(start)
        <3>1. IsSeq(SubSeq(c.tokens, close + 1, Len(c.tokens)))
            BY <1>2, <1>3, RestOf
        <3>2. PICK A, B, C, D : c \in [tokens : A, opcodes : B, locals : C, status : D]
            BY DEF CompilationFits, IsCompilation
        <3> DEFINE rest == SubSeq(c.tokens, close + 1, Len(c.tokens))
        <3>3. start \in [tokens : A \cup {rest}, opcodes : B, locals : C, status : D]
            BY <3>2
        <3>4. start.tokens = rest /\ start.opcodes = c.opcodes /\ start.locals = c.locals
            BY <3>2
        <3> HIDE DEF start, rest
        <3>5. IsCompilation(start)
            BY <3>3, Zenon DEF IsCompilation
        <3>6. IsSeq(start.tokens)
            BY <3>1, <3>4 DEF rest
        <3> QED
            BY <3>4, <3>5, <3>6 DEF CompilationFits
    <2> DEFINE S == {i \in 0 .. close - 2 : CompilationFits(after[i])}
    <2>5. 0 \in S
        <3>1. after[0] = start
            BY <2>1, <2>3 DEF BindRun
        <3> HIDE DEF start, Runs
        <3> QED
            BY <2>1, <2>4, <3>1
    <2>6. ASSUME NEW i \in 0 .. close - 3, i \in S PROVE i + 1 \in S
        <3>1. after[i + 1] = Bound(after[i], c.tokens[close - (i + 1)].string)
            <4>1. i + 1 \in 0 .. close - 2 /\ i + 1 # 0 /\ (i + 1) - 1 = i
                BY <2>1
            <4> HIDE DEF start
            <4> QED
                BY <2>3, <4>1 DEF BindRun
        <3>2. CompilationFits(Bound(after[i], c.tokens[close - (i + 1)].string))
            BY <2>6, BoundFits
        <3>3. i + 1 \in 0 .. close - 2
            BY <2>1
        <3> HIDE DEF Runs
        <3> QED
            BY <3>1, <3>2, <3>3
    <2>7. 0 .. close - 2 \subseteq S
        <3>1. \A i \in 0 .. (close - 2) - 1 : i \in S => i + 1 \in S
            <4>1. (close - 2) - 1 = close - 3
                BY <2>1
            <4> HIDE DEF S
            <4> QED
                BY <2>6, <4>1
        <3> HIDE DEF S
        <3> QED
            BY <2>1, <2>5, <3>1, Induct
    <2> QED
        BY <2>1, <2>7
<1>6. CASE close = 0
    <2>1. compile_bind(c) = [c EXCEPT !.status = "abort"]
        BY <1>1, <1>6, Zenon
    <2> QED
        BY <2>1, NotRunning
<1>7. CASE close # 0
    <2> HIDE DEF after
    <2>1. compile_bind(c) = after[close - 2]
        BY <1>1, <1>7, Zenon
    <2> QED
        BY <1>5, <1>7, <2>1 DEF Fits
<1> QED
    BY <1>6, <1>7

\* The names that a file knows mean values.
\* Every name has a value.
AreValues(definitions) == \A name \in DOMAIN definitions : IsValue(definitions[name])

\* So does a name: a variable is read only if it was bound, a callable value is
\* applied right after it is pushed.
LEMMA GenericFits ==
    ASSUME NEW c, CompilationFits(c), c.tokens # <<>>, NEW definitions, AreValues(definitions)
    PROVE  Fits(compile_generic(definitions, c))
<1> DEFINE name == Head(c.tokens).string
           value == definitions[name]
           callable == value[1] \in {"function", "primitive", "node-ctor"}
           get == Opcode("get variable", NULL, IndexOf(c.locals, name))
           literal == Opcode("literal", value, 0)
           apply == Opcode("apply", NULL, 0)
           known == <<literal>> \o IF callable THEN <<apply>> ELSE <<>>
<1>1. CASE Contains(c.locals, name)
    <2>1. compile_generic(definitions, c) = Emit(c, <<get>>)
        BY <1>1 DEF compile_generic
    <2>2. IndexOf(c.locals, name) \in 1 .. Len(c.locals)
        <3>1. IsSeq(c.locals)
            BY DEF CompilationFits
        <3> QED
            BY <1>1, <3>1, IndexIs
    <2>3. get.op = "get variable" /\ get.index = IndexOf(c.locals, name)
        BY DEF Opcode
    <2> HIDE DEF get
    <2>4. \E j \in 1 .. Len(c.opcodes) : c.opcodes[j].op = "set variable" /\ c.opcodes[j].index = get.index
        BY <2>2, <2>3 DEF CompilationFits
    <2>5. MayContinue(get, c.opcodes)
        BY <2>3, <2>4 DEF MayContinue
    <2>6. Continues(<<get>>, c.opcodes)
        BY <2>5, OneOpcode
    <2>7. CompilationFits(Emit(c, <<get>>))
        BY <2>6, EmitFits
    <2> QED
        BY <2>1, <2>7 DEF Fits
<1>2. CASE ~Contains(c.locals, name) /\ name \in DOMAIN definitions
    <2>1. compile_generic(definitions, c) = Emit(c, known)
        BY <1>2 DEF compile_generic
    <2>2. /\ literal.op = "literal" /\ IsValue(literal.value)
          /\ apply.op = "apply"
        BY <1>2 DEF Opcode, AreValues
    <2> HIDE DEF literal, apply
    <2>3. CASE callable
        <3> HIDE DEF callable
        <3>1. known = <<literal>> \o <<apply>>
            BY <2>3, Zenon
        <3>2. <<literal>> \o <<apply>> = <<literal, apply>>
            BY PairConcat
        <3>3. Continues(<<literal, apply>>, c.opcodes)
            BY <2>2, Two
        <3>4. CompilationFits(Emit(c, <<literal, apply>>))
            BY <3>3, EmitFits
        <3> QED
            BY <2>1, <3>1, <3>2, <3>4 DEF Fits
    <2>4. CASE ~callable
        <3>1. known = <<literal>>
            BY <2>4
        <3>2. MayContinue(literal, c.opcodes)
            BY <2>2 DEF MayContinue
        <3>3. Continues(<<literal>>, c.opcodes)
            BY <3>2, OneOpcode
        <3>4. CompilationFits(Emit(c, <<literal>>))
            BY <3>3, EmitFits
        <3> QED
            BY <2>1, <3>1, <3>4 DEF Fits
    <2> QED
        BY <2>3, <2>4
<1>3. CASE ~Contains(c.locals, name) /\ ~(name \in DOMAIN definitions)
    <2>1. compile_generic(definitions, c) = [c EXCEPT !.status = "exit"]
        <3>1. compile_generic(definitions, c)
                = CASE Contains(c.locals, name) -> Emit(c, <<get>>)
                    [] ~Contains(c.locals, name) /\ name \in DOMAIN definitions -> Emit(c, known)
                    [] OTHER -> [c EXCEPT !.status = "exit"]
            BY DEF compile_generic
        <3> HIDE DEF get, known, name
        <3> QED
            BY <1>3, <3>1, Zenon
    <2>2. Fits([c EXCEPT !.status = "exit"])
        BY NotRunning
    <2> QED
        BY <2>1, <2>2, Zenon
<1> QED
    BY <1>1, <1>2, <1>3

\* So does every token (compile_one).
LEMMA OneFits ==
    ASSUME NEW c, CompilationFits(c), c.tokens # <<>>, NEW definitions, AreValues(definitions)
    PROVE  Fits(compile_one(definitions, c))
<1> DEFINE t == Head(c.tokens)
           o == Opcode("literal", Immediate(xint(t.int_value)), 0)
<1>1. compile_one(definitions, c)
        = CASE t.kind = "int" -> Emit(c, <<o>>)
            [] t.kind # "int" /\ t.string = "(" -> compile_bind(c)
            [] OTHER -> compile_generic(definitions, c)
    BY DEF compile_one
<1>2. t = c.tokens[1]
    <2>1. PICK S : c.tokens \in Seq(S)
        BY DEF CompilationFits, IsSeq
    <2> QED
        BY <2>1
<1>3. o.op = "literal" /\ IsValue(o.value)
    BY DEF Opcode, IsValue, Immediate
<1> HIDE DEF t, o
<1>4. CASE t.kind = "int"
    <2>1. compile_one(definitions, c) = Emit(c, <<o>>)
        BY <1>1, <1>4, Zenon
    <2>2. MayContinue(o, c.opcodes)
        BY <1>3 DEF MayContinue
    <2>3. Continues(<<o>>, c.opcodes)
        BY <2>2, OneOpcode
    <2>4. CompilationFits(Emit(c, <<o>>))
        BY <2>3, EmitFits
    <2> QED
        BY <2>1, <2>4 DEF Fits
<1>5. CASE t.kind # "int" /\ t.string = "("
    <2>1. compile_one(definitions, c) = compile_bind(c)
        BY <1>1, <1>5, Zenon
    <2>2. c.tokens[1].string = "("
        BY <1>2, <1>5
    <2> QED
        BY <2>1, <2>2, BindFits
<1>6. CASE t.kind # "int" /\ t.string # "("
    <2>1. compile_one(definitions, c) = compile_generic(definitions, c)
        BY <1>1, <1>6, Zenon
    <2> QED
        BY <2>1, GenericFits
<1> QED
    BY <1>4, <1>5, <1>6

\* The compilation that has not begun fits.
LEMMA NothingCompiled ==
    ASSUME NEW tokens, IsSeq(tokens)
    PROVE  CompilationFits(Compilation(tokens)) /\ Compilation(tokens).tokens = tokens
<1> DEFINE c == Compilation(tokens)
           none == <<>>
<1>1. /\ c.tokens = tokens /\ c.opcodes = none /\ c.locals = none
      /\ c \in [tokens : {tokens}, opcodes : {none}, locals : {none}, status : {"running"}]
      /\ none \in Seq({}) /\ Len(none) = 0
    BY DEF Compilation
<1> HIDE DEF c, none
<1>2. IsCompilation(c)
    BY <1>1, Zenon DEF IsCompilation
<1>3. IsSeq(none)
    BY <1>1, SeqIs
<1>4. \A k \in 1 .. Len(none) : FALSE
    BY <1>1
<1>5. Compiled(none)
    BY <1>3, <1>4 DEF Compiled
<1>6. CompilationFits(c)
    BY <1>1, <1>2, <1>3, <1>4, <1>5 DEF CompilationFits
<1> QED
    BY <1>1, <1>6 DEF c

\* Nothing is left for compile_function to do.
IsOver(c) == c.status # "running" \/ c.tokens = <<>> \/ Head(c.tokens).string = "end"

\* One round of compile_function.
OneMore(definitions, d) == IF IsOver(d) THEN d ELSE compile_one(definitions, d)

\* What compile_function has after every token.
BodyRun(g, definitions, tokens, n) ==
    g = [i \in 0 .. n |-> IF i = 0 THEN Compilation(tokens) ELSE OneMore(definitions, g[i - 1])]

\* The function by which compile_function is written exists.
LEMMA BodyRuns ==
    ASSUME NEW definitions, NEW tokens, NEW n \in Nat
    PROVE  \E g : BodyRun(g, definitions, tokens, n)
<1> DEFINE start == Compilation(tokens)
           Step(g, i) == OneMore(definitions, g[i - 1])
           Runs(k, g) == g = [i \in 0 .. k |-> IF i = 0 THEN start ELSE Step(g, i)]
           S == {k \in 0 .. n : \E g : Runs(k, g)}
<1> HIDE DEF start
<1>1. 0 \in S
    <2> DEFINE g == [i \in 0 .. 0 |-> start]
    <2>1. Runs(0, g)
        OBVIOUS
    <2> HIDE DEF g, Runs
    <2> QED
        BY <2>1
<1>2. ASSUME NEW k \in 0 .. n - 1, k \in S PROVE k + 1 \in S
    <2>1. PICK g : Runs(k, g)
        BY <1>2
    <2> DEFINE h == [i \in 0 .. k + 1 |-> IF i <= k THEN g[i] ELSE Step(g, i)]
    <2>2. \A i \in 0 .. k : h[i] = g[i]
        OBVIOUS
    <2>3. \A i \in 0 .. k : g[i] = IF i = 0 THEN start ELSE Step(g, i)
        BY <2>1
    <2>4. \A i \in 1 .. k + 1 : Step(h, i) = Step(g, i)
        <3>1. \A i \in 1 .. k + 1 : i - 1 \in 0 .. k
            OBVIOUS
        <3> HIDE DEF h
        <3> QED
            BY <2>2, <3>1
    <2>5. \A i \in 0 .. k + 1 : h[i] = IF i = 0 THEN start ELSE Step(h, i)
        <3> SUFFICES ASSUME NEW i \in 0 .. k + 1
                     PROVE  h[i] = IF i = 0 THEN start ELSE Step(h, i)
            OBVIOUS
        <3>1. CASE i <= k
            <4>1. h[i] = g[i] /\ i \in 0 .. k /\ (i # 0 => i \in 1 .. k + 1)
                BY <3>1
            <4> HIDE DEF h, Step
            <4> QED
                BY <2>3, <2>4, <4>1
        <3>2. CASE i = k + 1
            <4>1. h[i] = Step(g, i) /\ i # 0 /\ i \in 1 .. k + 1
                BY <3>2
            <4> HIDE DEF h, Step
            <4> QED
                BY <2>4, <4>1
        <3> QED
            BY <3>1, <3>2
    <2>6. h = [i \in 0 .. k + 1 |-> h[i]]
        OBVIOUS
    <2>7. Runs(k + 1, h)
        <3> HIDE DEF h, Step
        <3> QED
            BY <2>5, <2>6
    <2> HIDE DEF Runs, h
    <2> QED
        BY <2>7
<1> HIDE DEF Runs
<1>3. 0 .. n \subseteq S
    <2> HIDE DEF S
    <2> QED
        BY <1>1, <1>2, Induct
<1>4. n \in S
    BY <1>3
<1>5. PICK g : Runs(n, g)
    BY <1>4
<1>6. BodyRun(g, definitions, tokens, n)
    BY <1>5 DEF Runs, BodyRun, start
<1> QED
    BY <1>6

\* compile_function makes opcodes in which every variable is read after it was
\* set and every application follows the literal it applies, whatever the tokens
\* are.
LEMMA FunctionFits ==
    ASSUME NEW tokens, IsSeq(tokens), NEW definitions, AreValues(definitions),
           NEW c, c = compile_function(definitions, tokens), c.status = "running"
    PROVE  Compiled(c.opcodes) /\ IsSeq(c.tokens)
<1> DEFINE n == Len(tokens)
           Runs(g) == BodyRun(g, definitions, tokens, n)
           after == CHOOSE g : Runs(g)
           d == after[n]
<1>1. c = IF d.status # "running" THEN d
          ELSE IF d.tokens = <<>> THEN [d EXCEPT !.status = "abort"]
          ELSE [d EXCEPT !.tokens = Tail(@)]
    BY DEF compile_function, BodyRun, OneMore, IsOver
<1>2. n \in Nat
    BY DEF IsSeq
<1> HIDE DEF n
<1>3. Runs(after)
    <2>1. \E g : Runs(g)
        BY <1>2, BodyRuns
    <2> HIDE DEF Runs
    <2> QED
        BY <2>1
<1> HIDE DEF after
<1> DEFINE S == {i \in 0 .. n : Fits(after[i])}
<1>4. 0 \in S
    <2>1. after[0] = Compilation(tokens)
        BY <1>2, <1>3 DEF BodyRun
    <2>2. Fits(after[0])
        BY <2>1, NothingCompiled DEF Fits
    <2> HIDE DEF Runs
    <2> QED
        BY <1>2, <2>2
<1>5. ASSUME NEW i \in 0 .. n - 1, i \in S PROVE i + 1 \in S
    <2>1. after[i + 1] = OneMore(definitions, after[i])
        <3>1. i + 1 \in 0 .. n /\ i + 1 # 0 /\ (i + 1) - 1 = i
            BY <1>2
        <3> QED
            BY <1>3, <3>1 DEF BodyRun
    <2> HIDE DEF Runs
    <2>2. Fits(after[i])
        BY <1>5
    <2>3. CASE IsOver(after[i])
        <3>1. after[i + 1] = after[i]
            BY <2>1, <2>3, Zenon DEF OneMore
        <3> QED
            BY <1>2, <2>2, <3>1
    <2>4. CASE ~IsOver(after[i])
        <3>1. after[i + 1] = compile_one(definitions, after[i])
            BY <2>1, <2>4, Zenon DEF OneMore
        <3>2. CompilationFits(after[i]) /\ after[i].tokens # <<>>
            BY <2>2, <2>4 DEF Fits, IsOver
        <3>3. Fits(compile_one(definitions, after[i]))
            BY <3>2, OneFits
        <3> QED
            BY <1>2, <3>1, <3>3
    <2> QED
        BY <2>3, <2>4
<1>6. Fits(d)
    <2> HIDE DEF S
    <2>1. 0 .. n \subseteq S
        BY <1>2, <1>4, <1>5, Induct
    <2> USE DEF S
    <2>2. n \in 0 .. n
        BY <1>2
    <2> QED
        BY <2>1, <2>2
<1> HIDE DEF Runs, d
<1>7. d.status = "running"
    <2>1. d.status # "running" => c = d
        BY <1>1
    <2> QED
        BY <2>1
<1>8. CompilationFits(d)
    BY <1>6, <1>7 DEF Fits
<1>9. d.tokens # <<>>
    <2>1. [d EXCEPT !.status = "abort"].status # "running"
        BY <1>8 DEF CompilationFits, IsCompilation
    <2>2. d.tokens = <<>> => c = [d EXCEPT !.status = "abort"]
        BY <1>1, <1>7, Zenon
    <2> QED
        BY <2>1, <2>2
<1>10. c = [d EXCEPT !.tokens = Tail(@)]
    BY <1>1, <1>7, <1>9, Zenon
<1>11. c.opcodes = d.opcodes /\ c.tokens = Tail(d.tokens)
    BY <1>8, <1>10 DEF CompilationFits, IsCompilation
<1>12. IsSeq(Tail(d.tokens))
    <2>1. PICK T : d.tokens \in Seq(T)
        BY <1>8 DEF CompilationFits, IsSeq
    <2>2. Tail(d.tokens) \in Seq(T)
        BY <1>9, <2>1
    <2> QED
        BY <2>2, SeqIs
<1>13. Compiled(d.opcodes)
    BY <1>8 DEF CompilationFits
<1> QED
    BY <1>11, <1>12, <1>13

-----------------------------------------------------------------------------
(* Frames and the workers that hold them.                                  *)

\* fr is a frame, of whatever it consists.
IsFrame(fr) == \E A, B, C : fr \in [function : A, cursor : B, variables : C]

\* A frame whose function has these opcodes: the variables that were set so far
\* have values.
RunsOn(fr, ops) ==
    /\ IsFrame(fr) /\ fr.cursor \in Nat /\ fr.cursor <= Len(ops)
    /\ \A j \in 1 .. Len(ops) : ops[j].index \in DOMAIN fr.variables
    /\ \A j \in 1 .. fr.cursor :
        ops[j].op = "set variable" => IsValue(fr.variables[ops[j].index])

\* A frame below another one has a next opcode, which is not the second of a call.
Waits(fr, ops) == fr.cursor < Len(ops) /\ ops[fr.cursor + 1].op # "apply"

\* The frame on top is finished only if there was nothing to do, and finds the value
\* that it applies.
GoesOn(fr, ops, values) ==
    /\ fr.cursor = Len(ops) => fr.cursor = 0
    /\ fr.cursor < Len(ops) /\ ops[fr.cursor + 1].op = "apply" => values # <<>>

\* Every function is compiled.
FunctionsFit(fns) ==
    \A v \in DOMAIN fns : v[1] \in {"function", "scratch"} /\ Compiled(fns[v])

\* fr is a frame of m's worker.
FrameFits(m, fr, fns) ==
    /\ fr.function \in DOMAIN fns /\ RunsOn(fr, fns[fr.function])
    /\ fr.function[1] = "scratch" => fr.function = Scratch(m)

\* self is a worker, of whatever it consists.
IsWorker(self) ==
    \E A, B, C, D : self \in [token_list : A, value_stack : B, return_stack : C, import : D]

\* The frames that a worker will free.
Held(self) == Range(self.return_stack) \union ({self.import.frame} \ {NoFrame})

\* rs is a stack of different frames.
IsStack(rs) == rs \in Seq(FrameId) /\ \A i, j \in 1 .. Len(rs) : rs[i] = rs[j] => i = j

\* The stacks of m's worker, and each of its frames for itself.
HoldsFrames(m, self, fs, fns) ==
    /\ IsWorker(self) /\ IsSeq(self.token_list) /\ ValueSeq(self.value_stack)
    /\ IsStack(self.return_stack)
    /\ self.import.frame \in FrameId \union {NoFrame}
    /\ self.import.frame \notin Range(self.return_stack)
    /\ self.return_stack # <<>> => Scratch(m) \in DOMAIN fns
    /\ \A f \in Held(self) : FrameFits(m, fs[f], fns)

\* Every frame of the stack could have another one above it.
AllWait(self, fs, fns) ==
    \A i \in 1 .. Len(self.return_stack) :
        Waits(fs[self.return_stack[i]], fns[fs[self.return_stack[i]].function])

\* The frames of the stack with one another: all wait but the top one, which can go on.
WorkerFits(m, self, fs, fns) ==
    /\ HoldsFrames(m, self, fs, fns)
    /\ \A i \in 1 .. Len(self.return_stack) :
        LET fr == fs[self.return_stack[i]]
        IN  IF i = Len(self.return_stack) THEN GoesOn(fr, fns[fr.function], self.value_stack)
            ELSE Waits(fr, fns[fr.function])

\* A stack of frames that is not empty has a top, and Front takes that frame
\* alone off it.
LEMMA StackIs ==
    ASSUME NEW rs, IsStack(rs)
    PROVE  /\ Len(rs) \in Nat /\ DOMAIN rs = 1 .. Len(rs)
           /\ Range(rs) = {rs[i] : i \in 1 .. Len(rs)} /\ Range(rs) \subseteq FrameId
           /\ rs # <<>> <=> Len(rs) > 0
           /\ rs # <<>> => /\ Last(rs) = rs[Len(rs)] /\ Last(rs) \in Range(rs) /\ Last(rs) \in FrameId
                           /\ IsStack(Front(rs)) /\ Len(Front(rs)) = Len(rs) - 1
                           /\ \A i \in 1 .. Len(rs) - 1 : Front(rs)[i] = rs[i]
                           /\ Range(Front(rs)) = Range(rs) \ {Last(rs)}
<1>1. rs \in Seq(FrameId) /\ \A i, j \in 1 .. Len(rs) : rs[i] = rs[j] => i = j
    BY DEF IsStack
<1>2. Len(rs) \in Nat /\ DOMAIN rs = 1 .. Len(rs) /\ (rs # <<>> <=> Len(rs) > 0)
    BY <1>1
<1>3. Range(rs) = {rs[i] : i \in 1 .. Len(rs)} /\ Range(rs) \subseteq FrameId
    BY <1>1, <1>2 DEF Range
<1>4. ASSUME rs # <<>>
      PROVE  /\ Last(rs) = rs[Len(rs)] /\ Last(rs) \in Range(rs) /\ Last(rs) \in FrameId
             /\ IsStack(Front(rs)) /\ Len(Front(rs)) = Len(rs) - 1
             /\ \A i \in 1 .. Len(rs) - 1 : Front(rs)[i] = rs[i]
             /\ Range(Front(rs)) = Range(rs) \ {Last(rs)}
    <2>1. Last(rs) = rs[Len(rs)] /\ Len(rs) \in 1 .. Len(rs)
        BY <1>2, <1>4 DEF Last
    <2>2. Last(rs) \in Range(rs) /\ Last(rs) \in FrameId
        BY <1>2, <1>3, <2>1
    <2> DEFINE n == Len(rs) - 1
               fr == Front(rs)
    <2>3. /\ fr \in Seq(FrameId) /\ Len(fr) = n /\ n \in Nat
          /\ \A i \in 1 .. n : fr[i] = rs[i]
        <3>1. fr = SubSeq(rs, 1, n)
            BY DEF Front
        <3>2. n \in Nat /\ n <= Len(rs) /\ (1 <= n \/ n = 0)
            BY <1>2, <1>4
        <3> HIDE DEF fr, n
        <3> QED
            BY <1>1, <3>1, <3>2, SubSeqProperties
    <2>0. n = Len(rs) - 1
        OBVIOUS
    <2> HIDE DEF fr, n
    <2>4. \A i, j \in 1 .. Len(fr) : fr[i] = fr[j] => i = j
        <3> SUFFICES ASSUME NEW i \in 1 .. Len(fr), NEW j \in 1 .. Len(fr), fr[i] = fr[j]
                     PROVE  i = j
            OBVIOUS
        <3>1. i \in 1 .. Len(rs) /\ j \in 1 .. Len(rs) /\ fr[i] = rs[i] /\ fr[j] = rs[j]
            BY <1>2, <2>0, <2>3
        <3> QED
            BY <1>1, <3>1
    <2>5. Range(fr) = {rs[i] : i \in 1 .. n}
        <3>1. DOMAIN fr = 1 .. n
            BY <2>3
        <3> QED
            BY <2>3, <3>1 DEF Range
    <2>6. {rs[i] : i \in 1 .. n} = {rs[i] : i \in 1 .. Len(rs)} \ {rs[Len(rs)]}
        <3>0. \A k \in Nat : /\ \A i \in 1 .. k - 1 : i \in 1 .. k /\ i # k
                            /\ \A i \in 1 .. k : i \in 1 .. k - 1 \/ i = k
            OBVIOUS
        <3>a. Len(rs) \in Nat
            BY <1>2
        <3>1. \A i \in 1 .. n : i \in 1 .. Len(rs) /\ i # Len(rs)
            BY <2>0, <3>0, <3>a, Zenon
        <3>2. \A i \in 1 .. Len(rs) : i \in 1 .. n \/ i = Len(rs)
            BY <2>0, <3>0, <3>a, Zenon
        <3> QED
            BY <1>1, <2>1, <3>1, <3>2, Zenon
    <2>7. Range(fr) = Range(rs) \ {Last(rs)}
        BY <1>3, <2>1, <2>5, <2>6
    <2> QED
        BY <2>0, <2>1, <2>2, <2>3, <2>4, <2>7 DEF IsStack, fr
<1> QED
    BY <1>2, <1>3, <1>4

\* r is rs and g on top of it.
Pushed(rs, g, r) ==
    /\ IsStack(r) /\ Len(r) = Len(rs) + 1 /\ Range(r) = Range(rs) \union {g}
    /\ \A i \in 1 .. Len(rs) : r[i] = rs[i]
    /\ r[Len(rs) + 1] = g

\* Every place of the stack has a frame of its range.
LEMMA InRange == ASSUME NEW rs, IsStack(rs) PROVE \A i \in 1 .. Len(rs) : rs[i] \in Range(rs)
BY StackIs

\* What a stack that fits says of one of its frames.
LEMMA StackFits ==
    ASSUME NEW m, NEW self, NEW fs, NEW fns, WorkerFits(m, self, fs, fns),
           NEW i \in 1 .. Len(self.return_stack),
           NEW fr, fr = fs[self.return_stack[i]], NEW ops, ops = fns[fr.function]
    PROVE  /\ i = Len(self.return_stack) => GoesOn(fr, ops, self.value_stack)
           /\ i # Len(self.return_stack) => Waits(fr, ops)
BY DEF WorkerFits

\* No number is less than itself.
LEMMA NotLess == ASSUME NEW n \in Nat PROVE ~(n < n)
OBVIOUS

\* A frame that is not on the stack can be pushed.
LEMMA StackPush ==
    ASSUME NEW rs, IsStack(rs), NEW g \in FrameId, g \notin Range(rs),
           NEW r, r = Append(rs, g)
    PROVE  Pushed(rs, g, r)
<1>1. rs \in Seq(FrameId) /\ \A i, j \in 1 .. Len(rs) : rs[i] = rs[j] => i = j
    BY DEF IsStack
<1> DEFINE n == Len(rs)
<1>2. n \in Nat /\ Range(rs) = {rs[i] : i \in 1 .. n}
    BY StackIs
<1>3. /\ r \in Seq(FrameId) /\ Len(r) = n + 1 /\ r[n + 1] = g
      /\ \A i \in 1 .. n : r[i] = rs[i]
    BY <1>1, AppendProperties
<1> HIDE DEF n
<1>4. \A i \in 1 .. n : rs[i] # g
    BY <1>2
<1>5. \A i \in 1 .. n + 1 : i \in 1 .. n \/ i = n + 1
    BY <1>2
<1>6. \A i, j \in 1 .. n + 1 : r[i] = r[j] => i = j
    <2> SUFFICES ASSUME NEW i \in 1 .. n + 1, NEW j \in 1 .. n + 1, r[i] = r[j] PROVE i = j
        OBVIOUS
    <2> QED
        BY <1>1, <1>3, <1>4, <1>5 DEF n
<1>7. Range(r) = {r[i] : i \in 1 .. n + 1}
    BY <1>3 DEF Range
<1>8. {r[i] : i \in 1 .. n + 1} = {rs[i] : i \in 1 .. n} \union {g}
    <2>1. \A i \in 1 .. n : i \in 1 .. n + 1
        BY <1>2
    <2>2. n + 1 \in 1 .. n + 1
        BY <1>2
    <2> QED
        BY <1>3, <1>5, <2>1, <2>2, Zenon
<1> QED
    BY <1>2, <1>3, <1>6, <1>7, <1>8 DEF IsStack, Pushed, n

\* Frames that can all wait below another one are a stack that fits.
LEMMA AllWaitFits ==
    ASSUME NEW m, NEW self, NEW fs, NEW fns, HoldsFrames(m, self, fs, fns), AllWait(self, fs, fns)
    PROVE  WorkerFits(m, self, fs, fns)
<1>1. IsStack(self.return_stack)
    BY DEF HoldsFrames
<1>2. ASSUME NEW i \in 1 .. Len(self.return_stack), NEW fr, fr = fs[self.return_stack[i]],
             NEW ops, ops = fns[fr.function]
      PROVE  Waits(fr, ops) /\ GoesOn(fr, ops, self.value_stack)
    <2>1. Waits(fr, ops)
        BY <1>2 DEF AllWait
    <2>2. fr \in {fs[f] : f \in Range(self.return_stack)}
        BY <1>1, <1>2, StackIs
    <2>3. FrameFits(m, fr, fns)
        BY <2>2 DEF HoldsFrames, Held
    <2>4. RunsOn(fr, ops)
        BY <1>2, <2>3 DEF FrameFits
    <2>5. fr.cursor \in Nat
        BY <2>4 DEF RunsOn
    <2> QED
        BY <2>1, <2>5 DEF Waits, GoesOn
<1> QED
    BY <1>2 DEF WorkerFits

\* A frame that fits is not a free one.
LEMMA NotFree ==
    ASSUME NEW m, NEW fr, NEW fns, FunctionsFit(fns), FrameFits(m, fr, fns)
    PROVE  fr # FREE
<1>1. fr.function[1] \in {"function", "scratch"}
    BY DEF FunctionsFit, FrameFits
<1>2. FREE.function[1] = "null"
    BY DEF FREE, NULL
<1> QED
    BY <1>1, <1>2

\* The frames that a worker holds are frames.
LEMMA HeldIs ==
    ASSUME NEW m, NEW self, NEW fs, NEW fns, HoldsFrames(m, self, fs, fns)
    PROVE  /\ Held(self) \subseteq FrameId /\ Range(self.return_stack) \subseteq FrameId
           /\ NoFrame \notin FrameId /\ FrameId \subseteq Nat
           /\ Held(self) = Range(self.return_stack) \union ({self.import.frame} \ {NoFrame})
<1>1. Range(self.return_stack) \subseteq FrameId
    BY StackIs DEF HoldsFrames
<1> QED
    BY <1>1, FrameAssumption DEF HoldsFrames, Held, NoFrame

\* fr1 is fr after its next opcode.
Passed(fr, fr1, ops) ==
    RunsOn(fr1, ops) /\ fr1.function = fr.function /\ fr1.cursor = fr.cursor + 1

\* The next number is the only new one.
LEMMA OneUp ==
    ASSUME NEW k \in Nat, NEW n \in Nat, k < n
    PROVE  /\ k + 1 \in Nat /\ k + 1 <= n
           /\ \A j \in 1 .. k + 1 : j \in 1 .. k \/ j = k + 1
OBVIOUS

\* Before the last opcode there is another one after the next.
LEMMA NotTheLast ==
    ASSUME NEW k \in Nat, NEW n \in Nat, k + 1 < n
    PROVE  /\ k + 2 \in 1 .. n /\ (k + 2) - 1 = k + 1
           /\ (k + 1) + 1 = k + 2 /\ k + 1 # n
OBVIOUS

\* ... and that is where a frame is which is neither finished nor at its last opcode.
LEMMA NotYetTheLast ==
    ASSUME NEW k \in Nat, NEW n \in Nat, k <= n, k # n, k + 1 # n
    PROVE  k + 1 < n
OBVIOUS

\* What is applied was pushed by the opcode before.
LEMMA LiteralBefore ==
    ASSUME NEW ops, Compiled(ops), NEW k \in Nat, Len(ops) \in Nat, k + 1 < Len(ops)
    PROVE  ops[k + 2].op = "apply" => ops[k + 1].op = "literal"
<1> DEFINE j == k + 2
<1>1. j \in 1 .. Len(ops) /\ j - 1 = k + 1
    OBVIOUS
<1> HIDE DEF j
<1>2. ops[j].op = "apply" => ops[j - 1].op = "literal"
    BY <1>1 DEF Compiled
<1> QED
    BY <1>1, <1>2 DEF j

\* The frame still fits after an opcode that sets no variable.
LEMMA CursorMoves ==
    ASSUME NEW fr, NEW ops, RunsOn(fr, ops), fr.cursor < Len(ops), Len(ops) \in Nat,
           ops[fr.cursor + 1].op # "set variable"
    PROVE  Passed(fr, [fr EXCEPT !.cursor = @ + 1], ops)
<1> DEFINE fr1 == [fr EXCEPT !.cursor = @ + 1]
<1>1. PICK A, B, C : fr \in [function : A, cursor : B, variables : C]
    BY DEF RunsOn, IsFrame
<1>2. /\ fr1 \in [function : A, cursor : {fr.cursor + 1}, variables : C]
      /\ fr1.function = fr.function /\ fr1.variables = fr.variables
      /\ fr1.cursor = fr.cursor + 1
    BY <1>1
<1> HIDE DEF fr1
<1>3. IsFrame(fr1)
    BY <1>2, Zenon DEF IsFrame
<1>a. fr.cursor \in Nat
    BY DEF RunsOn
<1>b. fr1.cursor = fr.cursor + 1
    BY <1>2
<1>4. fr1.cursor \in Nat /\ fr1.cursor <= Len(ops)
    BY <1>a, <1>b, OneUp
<1>5. \A j \in 1 .. fr1.cursor : j \in 1 .. fr.cursor \/ j = fr.cursor + 1
    BY <1>a, <1>b, OneUp
<1>6. RunsOn(fr1, ops)
    BY <1>2, <1>3, <1>4, <1>5 DEF RunsOn
<1> QED
    BY <1>2, <1>6 DEF Passed, fr1

\* ... and after one that does.
LEMMA VariableIsSet ==
    ASSUME NEW fr, NEW ops, RunsOn(fr, ops), fr.cursor < Len(ops), Len(ops) \in Nat,
           NEW x, x = ops[fr.cursor + 1].index, NEW v, IsValue(v)
    PROVE  Passed(fr, [fr EXCEPT !.cursor = @ + 1, !.variables[x] = v], ops)
<1> DEFINE fr1 == [fr EXCEPT !.cursor = @ + 1, !.variables[x] = v]
           variables == [fr.variables EXCEPT ![x] = v]
<1>1. PICK A, B, C : fr \in [function : A, cursor : B, variables : C]
    BY DEF RunsOn, IsFrame
<1>2. /\ fr1 \in [function : A, cursor : {fr.cursor + 1}, variables : {variables}]
      /\ fr1.function = fr.function /\ fr1.variables = variables
      /\ fr1.cursor = fr.cursor + 1
    BY <1>1
<1>a. fr.cursor \in Nat
    BY DEF RunsOn
<1>b. fr1.cursor = fr.cursor + 1
    BY <1>2
<1>3. fr.cursor + 1 \in 1 .. Len(ops)
    BY <1>a
<1>4. x \in DOMAIN fr.variables
    BY <1>3 DEF RunsOn
<1>5. /\ DOMAIN variables = DOMAIN fr.variables /\ variables[x] = v
      /\ \A y \in DOMAIN variables : y # x => variables[y] = fr.variables[y]
    BY <1>4
<1> HIDE DEF fr1, variables
<1>6. IsFrame(fr1)
    BY <1>2, Zenon DEF IsFrame
<1>7. \A j \in 1 .. fr1.cursor : (j \in 1 .. fr.cursor \/ j = fr.cursor + 1) /\ j \in 1 .. Len(ops)
    BY <1>a, <1>b
<1>8. ASSUME NEW j \in 1 .. fr1.cursor, ops[j].op = "set variable"
      PROVE  IsValue(fr1.variables[ops[j].index])
    <2>1. ops[j].index \in DOMAIN fr.variables
        BY <1>7 DEF RunsOn
    <2>2. CASE ops[j].index = x
        BY <1>2, <1>5, <2>2
    <2>3. CASE ops[j].index # x
        <3>1. j \in 1 .. fr.cursor
            BY <1>7, <2>3
        <3>2. IsValue(fr.variables[ops[j].index])
            BY <1>8, <3>1 DEF RunsOn
        <3> QED
            BY <1>2, <1>5, <2>1, <2>3, <3>2
    <2> QED
        BY <2>2, <2>3
<1>9. RunsOn(fr1, ops)
    <2>1. fr1.cursor \in Nat /\ fr1.cursor <= Len(ops)
        BY <1>a, <1>b
    <2>2. \A j \in 1 .. Len(ops) : ops[j].index \in DOMAIN fr1.variables
        BY <1>2, <1>5 DEF RunsOn
    <2> QED
        BY <1>6, <1>8, <2>1, <2>2 DEF RunsOn
<1> QED
    BY <1>2, <1>9 DEF Passed, fr1

\* A new frame of a compiled function fits, and can go on on top of any values.
LEMMA NewFrameRuns ==
    ASSUME NEW v, NEW ops, Compiled(ops), NEW values
    PROVE  /\ RunsOn(NewFrame(v, ops), ops) /\ NewFrame(v, ops).function = v
           /\ GoesOn(NewFrame(v, ops), ops, values)
<1> DEFINE X == {ops[j].index : j \in DOMAIN ops}
           variables == [i \in X |-> NULL]
           fr == NewFrame(v, ops)
<1>1. /\ fr \in [function : {v}, cursor : {0}, variables : {variables}]
      /\ fr.function = v /\ fr.cursor = 0 /\ fr.variables = variables
    BY DEF NewFrame
<1>a. PICK S : ops \in Seq(S)
    BY DEF Compiled, IsSeq
<1>2. Len(ops) \in Nat /\ DOMAIN ops = 1 .. Len(ops)
    BY <1>a
<1>3. \A j \in 1 .. Len(ops) : ops[j].index \in DOMAIN variables
    BY <1>2
<1> HIDE DEF fr, variables
<1>4. IsFrame(fr)
    BY <1>1, Zenon DEF IsFrame
<1>5. RunsOn(fr, ops)
    BY <1>1, <1>2, <1>3, <1>4 DEF RunsOn
<1>6. Len(ops) > 0 => ops[1].op # "apply"
    <2>1. Len(ops) > 0 => 1 \in 1 .. Len(ops)
        BY <1>2
    <2>2. ~(1 > 1)
        OBVIOUS
    <2> QED
        BY <2>1, <2>2, Zenon DEF Compiled
<1>7. GoesOn(fr, ops, values)
    BY <1>1, <1>2, <1>6 DEF GoesOn
<1> QED
    BY <1>1, <1>5, <1>7 DEF fr

\* What a step leaves of its worker, besides the stack of frames.
Turns(self, self1, rs) ==
    /\ IsWorker(self1) /\ IsSeq(self1.token_list) /\ ValueSeq(self1.value_stack)
    /\ self1.return_stack = rs /\ self1.import = self.import

\* The frames of a worker are as they were.
Agrees(self, fs, fs1) == \A f \in Held(self) : fs1[f] = fs[f]

\* The stack without its top frame fits: the frames below were waiting for that.
LEMMA Drop ==
    ASSUME NEW m, NEW self, NEW fs, NEW fns, WorkerFits(m, self, fs, fns),
           self.return_stack # <<>>,
           NEW self1, Turns(self, self1, Front(self.return_stack)),
           NEW fs1, Agrees(self1, fs, fs1)
    PROVE  /\ HoldsFrames(m, self1, fs1, fns) /\ AllWait(self1, fs1, fns)
           /\ Held(self1) = Held(self) \ {Last(self.return_stack)}
<1> DEFINE rs == self.return_stack
           rs1 == self1.return_stack
<1>1. HoldsFrames(m, self, fs, fns) /\ IsStack(rs)
    BY DEF WorkerFits, HoldsFrames
<1>2. /\ rs1 = Front(rs) /\ self1.import = self.import
      /\ IsStack(rs1) /\ Len(rs1) = Len(rs) - 1 /\ Len(rs) \in Nat
      /\ \A i \in 1 .. Len(rs) - 1 : rs1[i] = rs[i]
      /\ Range(rs1) = Range(rs) \ {Last(rs)} /\ Last(rs) \in Range(rs)
    BY <1>1, StackIs DEF Turns
<1>3. Held(self1) = Held(self) \ {Last(rs)}
    BY <1>1, <1>2 DEF Held, HoldsFrames
<1>4. HoldsFrames(m, self1, fs1, fns)
    <2>1. rs1 # <<>> => Scratch(m) \in DOMAIN fns
        BY <1>1 DEF HoldsFrames
    <2>2. \A f \in Held(self1) : FrameFits(m, fs1[f], fns)
        BY <1>1, <1>3 DEF HoldsFrames, Agrees
    <2>3. self1.import.frame \in FrameId \union {NoFrame} /\ self1.import.frame \notin Range(rs1)
        BY <1>1, <1>2 DEF HoldsFrames
    <2> QED
        BY <1>2, <2>1, <2>2, <2>3 DEF HoldsFrames, Turns
<1>5. AllWait(self1, fs1, fns)
    <2>1. ASSUME NEW i \in 1 .. Len(rs1)
          PROVE  Waits(fs1[rs1[i]], fns[fs1[rs1[i]].function])
        <3>1. i \in 1 .. Len(rs) /\ i # Len(rs) /\ rs1[i] = rs[i]
            BY <1>2
        <3>2. rs1[i] \in Held(self1)
            BY <1>2, StackIs DEF Held
        <3>3. fs1[rs1[i]] = fs[rs[i]]
            BY <3>1, <3>2 DEF Agrees
        <3>4. Waits(fs[rs[i]], fns[fs[rs[i]].function])
            BY <3>1 DEF WorkerFits
        <3> QED
            BY <3>3, <3>4
    <2> QED
        BY <2>1 DEF AllWait
<1> QED
    BY <1>3, <1>4, <1>5

\* The stack fits when its top frame has passed an opcode that is not its last.
LEMMA Stay ==
    ASSUME NEW m, NEW self, NEW fs, NEW fns, WorkerFits(m, self, fs, fns), FunctionsFit(fns),
           NEW rs, rs = self.return_stack, rs # <<>>,
           NEW f, f = Last(rs), NEW ops, ops = fns[fs[f].function], fs[f].cursor + 1 < Len(ops),
           NEW self1, Turns(self, self1, rs),
           NEW fs1, Passed(fs[f], fs1[f], ops), \A g \in Held(self) \ {f} : fs1[g] = fs[g]
    PROVE  /\ HoldsFrames(m, self1, fs1, fns) /\ Held(self1) = Held(self)
           /\ ops[fs[f].cursor + 1].op # "literal" => AllWait(self1, fs1, fns)
           /\ self1.value_stack # <<>> => WorkerFits(m, self1, fs1, fns)
<1>1. HoldsFrames(m, self, fs, fns) /\ IsStack(rs)
    BY DEF WorkerFits, HoldsFrames
<1>2. /\ self1.return_stack = rs /\ self1.import = self.import
      /\ Len(rs) \in Nat /\ f = rs[Len(rs)] /\ f \in Range(rs)
      /\ Range(rs) = {rs[i] : i \in 1 .. Len(rs)}
    BY <1>1, StackIs DEF Turns
<1>3. Held(self1) = Held(self) /\ Range(rs) \subseteq Held(self)
    BY <1>2 DEF Held
<1>4. /\ FrameFits(m, fs[f], fns) /\ fs1[f].function = fs[f].function
      /\ fs1[f].cursor = fs[f].cursor + 1 /\ RunsOn(fs1[f], ops)
    BY <1>1, <1>2, <1>3 DEF HoldsFrames, Passed
<1>5. HoldsFrames(m, self1, fs1, fns)
    <2>1. FrameFits(m, fs1[f], fns)
        BY <1>4 DEF FrameFits
    <2>2. \A g \in Held(self1) : FrameFits(m, fs1[g], fns)
        BY <1>1, <1>3, <2>1 DEF HoldsFrames
    <2> QED
        BY <1>1, <1>2, <2>2 DEF HoldsFrames, Turns
<1>6. ASSUME NEW i \in 1 .. Len(rs), i # Len(rs)
      PROVE  Waits(fs1[rs[i]], fns[fs1[rs[i]].function])
    <2>1. Waits(fs[rs[i]], fns[fs[rs[i]].function])
        BY <1>6 DEF WorkerFits
    <2>2. rs[i] # f
        BY <1>1, <1>2, <1>6 DEF IsStack
    <2>3. rs[i] \in Held(self)
        BY <1>2, <1>3
    <2> QED
        BY <2>1, <2>2, <2>3
<1> DEFINE k == fs[f].cursor
<1>7. Compiled(ops)
    BY <1>4 DEF FunctionsFit, FrameFits
<1>8. k \in Nat /\ k + 1 < Len(ops) /\ Len(ops) \in Nat /\ fs1[f].cursor = k + 1
    <2>1. k \in Nat
        BY <1>4 DEF FrameFits, RunsOn
    <2>2. Len(ops) \in Nat
        BY <1>7, CompiledLength
    <2>3. fs1[f].cursor = k + 1
        BY <1>4
    <2> HIDE DEF k
    <2>4. k + 1 < Len(ops)
        BY DEF k
    <2> QED
        BY <2>1, <2>2, <2>3, <2>4
<1>9. fns[fs1[f].function] = ops
    BY <1>4
<1> HIDE DEF k
<1>10. ops[k + 2].op = "apply" => ops[k + 1].op = "literal"
    BY <1>7, <1>8, LiteralBefore
<1>11. fs1[f].cursor < Len(ops) /\ fs1[f].cursor + 1 = k + 2 /\ fs1[f].cursor # Len(ops)
    <2>1. k + 1 < Len(ops) /\ (k + 1) + 1 = k + 2 /\ k + 1 # Len(ops)
        BY <1>8, NotTheLast, Zenon
    <2> QED
        BY <1>8, <2>1, Zenon
<1>12. ASSUME ops[k + 1].op # "literal" PROVE AllWait(self1, fs1, fns)
    <2>1. Waits(fs1[f], fns[fs1[f].function])
        BY <1>9, <1>10, <1>11, <1>12, Zenon DEF Waits
    <2>2. \A i \in 1 .. Len(rs) : Waits(fs1[rs[i]], fns[fs1[rs[i]].function])
        BY <1>2, <1>6, <2>1, Zenon
    <2> QED
        BY <1>2, <2>2, Zenon DEF AllWait
<1>13. ASSUME self1.value_stack # <<>> PROVE WorkerFits(m, self1, fs1, fns)
    <2>1. GoesOn(fs1[f], fns[fs1[f].function], self1.value_stack)
        BY <1>9, <1>11, <1>13, Zenon DEF GoesOn
    <2>2. \A i \in 1 .. Len(rs) :
            IF i = Len(rs) THEN GoesOn(fs1[rs[i]], fns[fs1[rs[i]].function], self1.value_stack)
            ELSE Waits(fs1[rs[i]], fns[fs1[rs[i]].function])
        BY <1>2, <1>6, <2>1, Zenon
    <2> QED
        BY <1>2, <1>5, <2>2, Zenon DEF WorkerFits
<1> QED
    BY <1>3, <1>5, <1>12, <1>13 DEF k

\* The stack fits when a call has pushed a frame on frames that can wait.
LEMMA Push ==
    ASSUME NEW m, NEW self, NEW fs, NEW fns,
           HoldsFrames(m, self, fs, fns), AllWait(self, fs, fns), FunctionsFit(fns),
           NEW v \in DOMAIN fns, v[1] = "scratch" => v = Scratch(m), Scratch(m) \in DOMAIN fns,
           NEW g \in FrameId, g \notin Held(self),
           NEW self1, Turns(self, self1, Append(self.return_stack, g)),
           NEW fs1, fs1[g] = NewFrame(v, fns[v]), \A f \in Held(self) : fs1[f] = fs[f]
    PROVE  WorkerFits(m, self1, fs1, fns) /\ Held(self1) = Held(self) \union {g}
<1> DEFINE rs == self.return_stack
           rs1 == self1.return_stack
<1>1. IsStack(rs) /\ g # NoFrame /\ g \notin Range(rs)
    BY HeldIs DEF HoldsFrames
<1>2. /\ rs1 = Append(rs, g) /\ self1.import = self.import
      /\ IsStack(rs1) /\ Len(rs1) = Len(rs) + 1 /\ Range(rs1) = Range(rs) \union {g}
      /\ \A i \in 1 .. Len(rs) : rs1[i] = rs[i]
      /\ rs1[Len(rs) + 1] = g
    <2>1. rs1 = Append(rs, g) /\ self1.import = self.import
        BY DEF Turns
    <2> HIDE DEF rs, rs1
    <2>2. Pushed(rs, g, rs1)
        BY <1>1, <2>1, StackPush
    <2> QED
        BY <2>1, <2>2, Zenon DEF Pushed
<1>3. Len(rs) \in Nat /\ \A i \in 1 .. Len(rs) : rs[i] \in Held(self)
    BY <1>1, StackIs DEF Held
<1>4. Held(self1) = Held(self) \union {g}
    BY <1>1, <1>2 DEF Held
<1>5. Compiled(fns[v])
    BY DEF FunctionsFit
<1>6. FrameFits(m, fs1[g], fns)
    BY <1>5, NewFrameRuns DEF FrameFits
<1>7. HoldsFrames(m, self1, fs1, fns)
    <2>1. \A f \in Held(self1) : FrameFits(m, fs1[f], fns)
        BY <1>4, <1>6 DEF HoldsFrames
    <2>2. self1.import.frame \in FrameId \union {NoFrame} /\ self1.import.frame \notin Range(rs1)
        BY <1>1, <1>2 DEF HoldsFrames, Held
    <2> QED
        BY <1>2, <2>1, <2>2 DEF HoldsFrames, Turns
<1>8. ASSUME NEW i \in 1 .. Len(rs1), i # Len(rs1)
      PROVE  Waits(fs1[rs1[i]], fns[fs1[rs1[i]].function])
    <2>1. i \in 1 .. Len(rs)
        BY <1>2, <1>3, <1>8
    <2>2. rs1[i] = rs[i] /\ fs1[rs[i]] = fs[rs[i]]
        BY <1>2, <1>3, <2>1
    <2>3. Waits(fs[rs[i]], fns[fs[rs[i]].function])
        BY <2>1 DEF AllWait
    <2> QED
        BY <2>2, <2>3
<1>9. GoesOn(fs1[g], fns[fs1[g].function], self1.value_stack)
    BY <1>5, NewFrameRuns
<1>10. \A i \in 1 .. Len(rs1) :
            IF i = Len(rs1) THEN GoesOn(fs1[rs1[i]], fns[fs1[rs1[i]].function], self1.value_stack)
            ELSE Waits(fs1[rs1[i]], fns[fs1[rs1[i]].function])
    BY <1>2, <1>8, <1>9, Zenon
<1> QED
    BY <1>4, <1>7, <1>10, Zenon DEF WorkerFits

\* n's worker can only use functions that are kept.
Keeps(fns, fns1, n) ==
    \A v \in DOMAIN fns : (v[1] = "scratch" => v = Scratch(n)) => v \in DOMAIN fns1 /\ fns1[v] = fns[v]

\* A module has a scratch function of its own.
LEMMA ScratchIs == ASSUME NEW m PROVE Scratch(m)[1] = "scratch" /\ Scratch(m)[2] = m
BY DEF Scratch

\* A worker fits as long as its frames and its functions are as they were.
LEMMA Undisturbed ==
    ASSUME NEW n, NEW self, NEW fs, NEW fns, WorkerFits(n, self, fs, fns),
           NEW fs1, \A f \in Held(self) : fs1[f] = fs[f],
           NEW fns1, Keeps(fns, fns1, n)
    PROVE  WorkerFits(n, self, fs1, fns1)
<1> DEFINE rs == self.return_stack
<1>1. HoldsFrames(n, self, fs, fns) /\ IsStack(rs)
    BY DEF WorkerFits, HoldsFrames
<1>2. ASSUME NEW f \in Held(self)
      PROVE  /\ fs1[f] = fs[f] /\ fns1[fs[f].function] = fns[fs[f].function]
             /\ FrameFits(n, fs1[f], fns1)
    <2>1. FrameFits(n, fs[f], fns)
        BY <1>1 DEF HoldsFrames
    <2>2. fs[f].function \in DOMAIN fns1 /\ fns1[fs[f].function] = fns[fs[f].function]
        BY <2>1, Zenon DEF FrameFits, Keeps
    <2>3. FrameFits(n, fs[f], fns1)
        BY <2>1, <2>2, Zenon DEF FrameFits
    <2> QED
        BY <2>2, <2>3
<1>3. rs # <<>> => Scratch(n) \in DOMAIN fns1
    BY <1>1, ScratchIs DEF HoldsFrames, Keeps
<1>4. HoldsFrames(n, self, fs1, fns1)
    BY <1>1, <1>2, <1>3, Zenon DEF HoldsFrames
<1>5. \A i \in 1 .. Len(rs) : rs[i] \in Held(self)
    BY <1>1, StackIs DEF Held
<1>6. \A i \in 1 .. Len(rs) :
        /\ fs1[rs[i]] = fs[rs[i]]
        /\ fns1[fs[rs[i]].function] = fns[fs[rs[i]].function]
    BY <1>2, <1>5
<1> QED
    BY <1>4, <1>6, Zenon DEF WorkerFits

\* The frames that a step of m's worker changes are those that it takes or frees.
Changes(self, self1, fs, fs1) ==
    /\ DOMAIN fs1 = FrameId
    /\ \A f \in FrameId : f \notin Held(self) /\ f \notin Held(self1) => fs1[f] = fs[f]
    /\ \A f \in Held(self) : f \notin Held(self1) => fs1[f] = FREE
    /\ \A f \in Held(self1) : f \notin Held(self) => fs[f] = FREE

\* One opcode, the last or not: the stack fits, and nothing else than the top
\* frame changes.
LEMMA Turn ==
    ASSUME NEW m, NEW self, NEW fs, NEW fns, WorkerFits(m, self, fs, fns), FunctionsFit(fns),
           NEW rs, rs = self.return_stack, rs # <<>>,
           NEW f, f = Last(rs), NEW ops, ops = fns[fs[f].function], fs[f].cursor # Len(ops),
           NEW self1, NEW rs1, Turns(self, self1, rs1),
           NEW fs1, DOMAIN fs1 = FrameId, \A g \in FrameId : g # f => fs1[g] = fs[g],
           fs[f].cursor + 1 = Len(ops) => rs1 = Front(rs) /\ fs1[f] = FREE,
           fs[f].cursor + 1 # Len(ops) => rs1 = rs /\ Passed(fs[f], fs1[f], ops)
    PROVE  /\ HoldsFrames(m, self1, fs1, fns) /\ Changes(self, self1, fs, fs1)
           /\ Held(self1) \subseteq Held(self) /\ f \in Held(self)
           /\ ops[fs[f].cursor + 1].op # "literal" => AllWait(self1, fs1, fns)
           /\ self1.value_stack # <<>> => WorkerFits(m, self1, fs1, fns)
<1>1. HoldsFrames(m, self, fs, fns) /\ IsStack(rs)
    BY DEF WorkerFits, HoldsFrames
<1>2. Held(self) \subseteq FrameId /\ f \in Held(self) /\ f \in Range(rs)
    BY <1>1, HeldIs, StackIs DEF Held
<1>3. CASE fs[f].cursor + 1 = Len(ops)
    <2>1. Turns(self, self1, Front(rs)) /\ fs1[f] = FREE
        BY <1>3
    <2>2. Held(self1) = Held(self) \ {f}
        <3>1. self1.import = self.import /\ self1.return_stack = Front(rs)
            BY <2>1 DEF Turns
        <3>2. Range(Front(rs)) = Range(rs) \ {f}
            BY <1>1, StackIs
        <3>3. self.import.frame # f
            BY <1>1, <1>2 DEF HoldsFrames
        <3> QED
            BY <3>1, <3>2, <3>3 DEF Held
    <2>3. Agrees(self1, fs, fs1)
        BY <1>2, <2>2 DEF Agrees
    <2>4. HoldsFrames(m, self1, fs1, fns) /\ AllWait(self1, fs1, fns)
        BY <2>1, <2>3, Drop
    <2>5. WorkerFits(m, self1, fs1, fns)
        BY <2>4, AllWaitFits
    <2>6. Changes(self, self1, fs, fs1)
        BY <1>2, <2>1, <2>2 DEF Changes
    <2> QED
        BY <1>2, <2>2, <2>4, <2>5, <2>6
<1>4. CASE fs[f].cursor + 1 # Len(ops)
    <2>1. Turns(self, self1, rs) /\ Passed(fs[f], fs1[f], ops)
        BY <1>4
    <2>2. fs[f].cursor + 1 < Len(ops)
        <3>1. FrameFits(m, fs[f], fns)
            BY <1>1, <1>2 DEF HoldsFrames
        <3>2. Compiled(ops)
            BY <3>1 DEF FunctionsFit, FrameFits
        <3>3. fs[f].cursor \in Nat /\ fs[f].cursor <= Len(ops)
            BY <3>1 DEF FrameFits, RunsOn
        <3>4. Len(ops) \in Nat
            BY <3>2, CompiledLength
        <3>5. fs[f].cursor # Len(ops) /\ fs[f].cursor + 1 # Len(ops)
            BY <1>4
        <3> QED
            BY <3>3, <3>4, <3>5, NotYetTheLast
    <2>3. \A g \in Held(self) \ {f} : fs1[g] = fs[g]
        BY <1>2
    <2>4. /\ HoldsFrames(m, self1, fs1, fns) /\ Held(self1) = Held(self)
          /\ ops[fs[f].cursor + 1].op # "literal" => AllWait(self1, fs1, fns)
          /\ self1.value_stack # <<>> => WorkerFits(m, self1, fs1, fns)
        BY <2>1, <2>2, <2>3, Stay
    <2>5. Changes(self, self1, fs, fs1)
        BY <1>2, <2>4 DEF Changes
    <2> QED
        BY <1>2, <2>4, <2>5
<1> QED
    BY <1>3, <1>4

\* A frame that is not free has one worker that holds it.
Ownership(w, fs, fns) ==
    /\ DOMAIN w = Module /\ DOMAIN fs = FrameId /\ FunctionsFit(fns)
    /\ \A m \in Module : WorkerFits(m, w[m], fs, fns)
    /\ \A m, n \in Module : m # n => Held(w[m]) \intersect Held(w[n]) = {}
    /\ \A f \in FrameId : fs[f] # FREE => \E m \in Module : f \in Held(w[m])

\* A frame that a worker holds is not free.
LEMMA HeldAreTaken ==
    ASSUME NEW w, NEW fs, NEW fns, Ownership(w, fs, fns), NEW m \in Module
    PROVE  \A f \in Held(w[m]) : f \in FrameId /\ FrameFits(m, fs[f], fns) /\ fs[f] # FREE
<1>1. HoldsFrames(m, w[m], fs, fns) /\ FunctionsFit(fns)
    BY DEF Ownership, WorkerFits
<1>2. \A f \in Held(w[m]) : FrameFits(m, fs[f], fns)
    BY <1>1 DEF HoldsFrames
<1> QED
    BY <1>1, <1>2, HeldIs, NotFree

\* Every worker still fits, and every frame has one holder, when one worker
\* changes frames that are its own or free.
LEMMA OwnersStep ==
    ASSUME NEW w, NEW fs, NEW fns, Ownership(w, fs, fns), NEW m \in Module,
           NEW self1, NEW fs1, NEW fns1, FunctionsFit(fns1), WorkerFits(m, self1, fs1, fns1),
           Changes(w[m], self1, fs, fs1), \A n \in Module : n # m => Keeps(fns, fns1, n)
    PROVE  Ownership([w EXCEPT ![m] = self1], fs1, fns1)
<1> DEFINE w1 == [w EXCEPT ![m] = self1]
<1>1. DOMAIN w1 = Module /\ w1[m] = self1 /\ \A n \in Module : n # m => w1[n] = w[n]
    BY DEF Ownership
<1> HIDE DEF w1
<1>2. ASSUME NEW n \in Module, n # m, NEW f \in Held(w[n])
      PROVE  f \in FrameId /\ fs[f] # FREE /\ f \notin Held(w[m]) /\ f \notin Held(self1) /\ fs1[f] = fs[f]
    <2>1. f \in FrameId /\ fs[f] # FREE
        BY HeldAreTaken
    <2>2. f \notin Held(w[m])
        BY <1>2 DEF Ownership
    <2>3. f \notin Held(self1)
        BY <2>1, <2>2 DEF Changes
    <2> QED
        BY <2>1, <2>2, <2>3 DEF Changes
<1>3. ASSUME NEW n \in Module PROVE WorkerFits(n, w1[n], fs1, fns1)
    <2>1. CASE n = m
        BY <1>1, <2>1
    <2>2. CASE n # m
        <3>1. WorkerFits(n, w[n], fs, fns) /\ Keeps(fns, fns1, n)
            BY <2>2 DEF Ownership
        <3>2. \A f \in Held(w[n]) : fs1[f] = fs[f]
            BY <1>2, <2>2
        <3>3. WorkerFits(n, w[n], fs1, fns1)
            BY <3>1, <3>2, Undisturbed
        <3> QED
            BY <1>1, <2>2, <3>3
    <2> QED
        BY <2>1, <2>2
<1>4. ASSUME NEW k \in Module, NEW n \in Module, k # n
      PROVE  Held(w1[k]) \intersect Held(w1[n]) = {}
    <2>1. CASE k # m /\ n # m
        BY <1>1, <1>4, <2>1 DEF Ownership
    <2>2. CASE k = m
        BY <1>1, <1>2, <1>4, <2>2
    <2>3. CASE n = m
        BY <1>1, <1>2, <1>4, <2>3
    <2> QED
        BY <2>1, <2>2, <2>3
<1>5. ASSUME NEW f \in FrameId, fs1[f] # FREE PROVE \E n \in Module : f \in Held(w1[n])
    <2>1. CASE f \in Held(self1)
        BY <1>1, <2>1
    <2>2. CASE f \notin Held(self1)
        <3>1. f \notin Held(w[m]) /\ fs1[f] = fs[f]
            BY <1>5, <2>2 DEF Changes
        <3>2. PICK n \in Module : f \in Held(w[n])
            BY <1>5, <3>1 DEF Ownership
        <3>3. n # m /\ w1[n] = w[n]
            BY <1>1, <3>1, <3>2
        <3> QED
            BY <3>2, <3>3
    <2> QED
        BY <2>1, <2>2
<1>6. Ownership(w1, fs1, fns1)
    BY <1>1, <1>3, <1>4, <1>5, Zenon DEF Ownership, Changes
<1> QED
    BY <1>6 DEF w1

-----------------------------------------------------------------------------
(* The invariant.                                                          *)

\* Every constructor has arities.
NodesFit(ctors) ==
    \A v \in DOMAIN ctors :
        \E P, R : ctors[v] \in [input_arity : Nat, output_arity : Nat, principal : P, rule_array : R]

\* Who waits for an import has called the load of another file.
LoadsFit(ld, w) ==
    /\ ld \in Seq(Module) /\ \A i, j \in 1 .. Len(ld) : ld[i] = ld[j] => i = j
    /\ \A m \in Module : w[m].import # NotImporting => \E i \in 1 .. Len(ld) - 1 : ld[i] = m

\* Every module has names, and every name a value.
NamesFit(names) == DOMAIN names = Module /\ \A m \in Module : AreValues(names[m])

\* The inductive invariant.
IInv ==
    /\ Ownership(worker, frames, functions)
    /\ LoadsFit(loading, worker)
    /\ NamesFit(value_hash)
    /\ NodesFit(node_ctor)

\* The worker that runs does not wait for an import.
LEMMA RunningIs ==
    ASSUME IInv, NEW m \in Module, Running(m)
    PROVE  /\ worker[m].import = NotImporting /\ WorkerFits(m, worker[m], frames, functions)
           /\ FunctionsFit(functions)
           /\ loading \in Seq(Module) /\ Len(loading) \in Nat \ {0} /\ m = loading[Len(loading)]
<1>1. LoadsFit(loading, worker)
    BY DEF IInv
<1>2. loading \in Seq(Module) /\ loading # <<>> /\ m = loading[Len(loading)]
    BY <1>1 DEF Running, Last, LoadsFit
<1>3. Len(loading) \in Nat \ {0}
    BY <1>2
<1>4. \A i \in 1 .. Len(loading) - 1 : loading[i] # m
    <2>1. \A i \in 1 .. Len(loading) - 1 :
            i \in 1 .. Len(loading) /\ Len(loading) \in 1 .. Len(loading) /\ i # Len(loading)
        BY <1>3
    <2> QED
        BY <1>1, <1>2, <2>1, Zenon DEF LoadsFit
<1>5. worker[m].import = NotImporting
    BY <1>1, <1>4, Zenon DEF LoadsFit
<1> QED
    BY <1>2, <1>3, <1>5 DEF IInv, Ownership

\* What m's worker is about to run.
Ops(m) == functions[frames[Top(m)].function]

\* What is known when an opcode is about to run.
LEMMA AtStep ==
    ASSUME IInv, NEW m \in Module, InStep(m), ~Finished(Top(m))
    PROVE  /\ WorkerFits(m, worker[m], frames, functions) /\ FunctionsFit(functions)
           /\ worker[m].return_stack # <<>> /\ Top(m) = Last(worker[m].return_stack)
           /\ worker[m].import = NotImporting /\ Running(m)
           /\ FrameFits(m, frames[Top(m)], functions) /\ Top(m) \in Held(worker[m])
           /\ Top(m) \in FrameId
           /\ Compiled(Ops(m)) /\ Len(Ops(m)) \in Nat
           /\ frames[Top(m)].cursor \in Nat /\ frames[Top(m)].cursor < Len(Ops(m))
           /\ Fetch(m) = Ops(m)[frames[Top(m)].cursor + 1]
           /\ IsLast(m) <=> frames[Top(m)].cursor + 1 = Len(Ops(m))
           /\ ValueSeq(worker[m].value_stack)
<1> DEFINE self == worker[m]
           rs == self.return_stack
           f == Top(m)
<1>1. /\ Running(m) /\ rs # <<>> /\ f = Last(rs) /\ frames[f].cursor # Len(Ops(m))
      /\ Fetch(m) = Ops(m)[frames[f].cursor + 1]
      /\ IsLast(m) <=> frames[f].cursor + 1 = Len(Ops(m))
    BY DEF InStep, Finished, Top, Fetch, IsLast, Ops
<1>2. WorkerFits(m, self, frames, functions) /\ self.import = NotImporting /\ FunctionsFit(functions)
    BY <1>1, RunningIs
<1>3. HoldsFrames(m, self, frames, functions) /\ IsStack(rs) /\ ValueSeq(self.value_stack)
    BY <1>2 DEF WorkerFits, HoldsFrames
<1>4. f \in Held(self) /\ f \in FrameId
    BY <1>1, <1>3, StackIs DEF Held
<1>5. FrameFits(m, frames[f], functions)
    BY <1>3, <1>4 DEF HoldsFrames
<1>6. Compiled(Ops(m))
    BY <1>2, <1>5 DEF FunctionsFit, FrameFits, Ops
<1>7. Len(Ops(m)) \in Nat
    BY <1>6, CompiledLength
<1>8. frames[f].cursor \in Nat /\ frames[f].cursor <= Len(Ops(m))
    BY <1>5 DEF FrameFits, RunsOn, Ops
<1>9. frames[f].cursor < Len(Ops(m))
    BY <1>1, <1>7, <1>8
<1> HIDE DEF self, f
<1> QED
    BY <1>1, <1>2, <1>3, <1>4, <1>5, <1>6, <1>7, <1>8, <1>9 DEF self, f

\* What the next opcode finds.
LEMMA FetchFinds ==
    ASSUME IInv, NEW m \in Module, InStep(m), ~Finished(Top(m))
    PROVE  /\ Fetch(m).op = "literal" => IsValue(Fetch(m).value)
           /\ Fetch(m).op = "get variable" => IsValue(frames[Top(m)].variables[Fetch(m).index])
           /\ Fetch(m).op = "apply" => worker[m].value_stack # <<>>
<1> DEFINE k == frames[Top(m)].cursor
           ops == Ops(m)
           fr == frames[Top(m)]
<1>1. /\ k \in Nat /\ k < Len(ops) /\ Len(ops) \in Nat /\ Fetch(m) = ops[k + 1]
      /\ Compiled(ops) /\ FrameFits(m, fr, functions)
    BY AtStep
<1>2. k + 1 \in 1 .. Len(ops) /\ (k + 1) - 1 = k
    BY <1>1
<1>3. Fetch(m).op = "literal" => IsValue(Fetch(m).value)
    BY <1>1, <1>2 DEF Compiled
<1>4. ASSUME Fetch(m).op = "get variable" PROVE IsValue(fr.variables[Fetch(m).index])
    <2>1. PICK i \in 1 .. (k + 1) - 1 :
            ops[i].op = "set variable" /\ ops[i].index = ops[k + 1].index
        BY <1>1, <1>2, <1>4 DEF Compiled
    <2>2. i \in 1 .. k
        BY <1>2, <2>1
    <2>3. RunsOn(fr, ops)
        BY <1>1 DEF FrameFits, Ops
    <2>4. IsValue(fr.variables[ops[i].index])
        BY <2>1, <2>2, <2>3 DEF RunsOn
    <2> QED
        BY <1>1, <2>1, <2>4
<1>5. ASSUME Fetch(m).op = "apply" PROVE worker[m].value_stack # <<>>
    <2> DEFINE rs == worker[m].return_stack
    <2>1. /\ WorkerFits(m, worker[m], frames, functions) /\ rs # <<>>
          /\ Top(m) = Last(rs)
        BY AtStep
    <2>2. IsStack(rs)
        BY <2>1 DEF WorkerFits, HoldsFrames
    <2>3. Len(rs) \in 1 .. Len(rs) /\ rs[Len(rs)] = Top(m)
        BY <2>1, <2>2, StackIs
    <2>4. GoesOn(fr, ops, worker[m].value_stack)
        BY <2>1, <2>3 DEF WorkerFits, Ops
    <2> QED
        BY <1>1, <1>5, <2>4 DEF GoesOn
<1> QED
    BY <1>3, <1>4, <1>5

\* fs1 are the frames after m's worker has run its next opcode.
StepsTo(m, fs1) ==
    /\ DOMAIN fs1 = FrameId
    /\ \A g \in FrameId : g # Top(m) => fs1[g] = frames[g]
    /\ IF IsLast(m) THEN fs1[Top(m)] = FREE ELSE Passed(frames[Top(m)], fs1[Top(m)], Ops(m))

\* Advanced is a step of the frames for opcodes that set no variable.
LEMMA AdvancedSteps ==
    ASSUME IInv, NEW m \in Module, InStep(m), ~Finished(Top(m)), Fetch(m).op # "set variable"
    PROVE  StepsTo(m, Advanced(m))
<1> DEFINE f == Top(m)
           fr1 == [frames[f] EXCEPT !.cursor = @ + 1]
<1>1. DOMAIN frames = FrameId /\ f \in FrameId
    BY AtStep DEF IInv, Ownership
<1>2. CASE IsLast(m)
    <2>1. Advanced(m) = [frames EXCEPT ![f] = FREE]
        BY <1>2 DEF Advanced
    <2> QED
        BY <1>1, <1>2, <2>1 DEF StepsTo
<1>3. CASE ~IsLast(m)
    <2>1. Advanced(m) = [frames EXCEPT ![f] = fr1]
        BY <1>3 DEF Advanced
    <2>2. /\ FrameFits(m, frames[f], functions) /\ frames[f].cursor < Len(Ops(m))
          /\ Len(Ops(m)) \in Nat /\ Ops(m)[frames[f].cursor + 1].op # "set variable"
        BY AtStep
    <2>3. RunsOn(frames[f], Ops(m))
        BY <2>2 DEF FrameFits, Ops
    <2>4. Passed(frames[f], fr1, Ops(m))
        BY <2>2, <2>3, CursorMoves
    <2> HIDE DEF fr1
    <2>5. /\ DOMAIN Advanced(m) = FrameId /\ Advanced(m)[f] = fr1
          /\ \A g \in FrameId : g # f => Advanced(m)[g] = frames[g]
        BY <1>1, <2>1
    <2> QED
        BY <1>3, <2>4, <2>5, Zenon DEF StepsTo
<1> QED
    BY <1>2, <1>3

\* A step of the frames keeps the stack of the worker.
LEMMA StepTurns ==
    ASSUME IInv, NEW m \in Module, InStep(m), ~Finished(Top(m)),
           NEW self1, Turns(worker[m], self1, Left(m)), NEW fs1, StepsTo(m, fs1)
    PROVE  /\ HoldsFrames(m, self1, fs1, functions) /\ Changes(worker[m], self1, frames, fs1)
           /\ Held(self1) \subseteq Held(worker[m]) /\ Top(m) \in Held(worker[m])
           /\ Fetch(m).op # "literal" => AllWait(self1, fs1, functions)
           /\ self1.value_stack # <<>> => WorkerFits(m, self1, fs1, functions)
<1> DEFINE self == worker[m]
           rs == self.return_stack
           f == Top(m)
           ops == functions[frames[f].function]
<1>1. /\ WorkerFits(m, self, frames, functions) /\ FunctionsFit(functions) /\ rs # <<>>
      /\ f = Last(rs) /\ frames[f].cursor \in Nat /\ frames[f].cursor < Len(ops) /\ Len(ops) \in Nat
      /\ Fetch(m) = ops[frames[f].cursor + 1]
      /\ IsLast(m) <=> frames[f].cursor + 1 = Len(ops)
    BY AtStep DEF Ops
<1>2. frames[f].cursor # Len(ops)
    BY <1>1
<1>3. DOMAIN fs1 = FrameId /\ \A g \in FrameId : g # f => fs1[g] = frames[g]
    BY DEF StepsTo
<1>4. /\ frames[f].cursor + 1 = Len(ops) => Left(m) = Front(rs) /\ fs1[f] = FREE
      /\ frames[f].cursor + 1 # Len(ops) => Left(m) = rs /\ Passed(frames[f], fs1[f], ops)
    BY <1>1, Zenon DEF StepsTo, Left, Ops
<1> HIDE DEF self, f, ops, rs
<1>5. /\ rs = self.return_stack /\ ops = functions[frames[f].function]
      /\ Turns(self, self1, Left(m))
    BY DEF rs, ops, self
<1>6. /\ HoldsFrames(m, self1, fs1, functions) /\ Changes(self, self1, frames, fs1)
      /\ Held(self1) \subseteq Held(self) /\ f \in Held(self)
      /\ ops[frames[f].cursor + 1].op # "literal" => AllWait(self1, fs1, functions)
      /\ self1.value_stack # <<>> => WorkerFits(m, self1, fs1, functions)
    BY <1>1, <1>2, <1>3, <1>4, <1>5, Turn
<1> QED
    BY <1>1, <1>6 DEF self, f

\* A step of the frames keeps the ownership of all frames.
LEMMA Moves ==
    ASSUME IInv, NEW m \in Module, InStep(m), ~Finished(Top(m)),
           NEW self1, Turns(worker[m], self1, Left(m)), NEW fs1, StepsTo(m, fs1),
           Fetch(m).op = "literal" => self1.value_stack # <<>>,
           NEW fns1, FunctionsFit(fns1), \A n \in Module : Keeps(functions, fns1, n)
    PROVE  Ownership([worker EXCEPT ![m] = self1], fs1, fns1)
<1>1. /\ HoldsFrames(m, self1, fs1, functions) /\ Changes(worker[m], self1, frames, fs1)
      /\ Fetch(m).op # "literal" => AllWait(self1, fs1, functions)
      /\ self1.value_stack # <<>> => WorkerFits(m, self1, fs1, functions)
    BY StepTurns
<1>2. WorkerFits(m, self1, fs1, functions)
    BY <1>1, AllWaitFits
<1>3. WorkerFits(m, self1, fs1, fns1)
    BY <1>2, Undisturbed
<1>4. Ownership(worker, frames, functions)
    BY DEF IInv
<1> QED
    BY <1>1, <1>3, <1>4, OwnersStep

-----------------------------------------------------------------------------
(* The steps.                                                              *)

\* The loads under way fit as long as nobody begins or ends an import.
LEMMA LoadsSame ==
    ASSUME NEW ld, NEW w, LoadsFit(ld, w), DOMAIN w = Module, NEW m \in Module,
           NEW self1, self1.import = w[m].import
    PROVE  LoadsFit(ld, [w EXCEPT ![m] = self1])
<1> DEFINE w1 == [w EXCEPT ![m] = self1]
<1>1. \A n \in Module : w1[n].import = w[n].import
    OBVIOUS
<1> HIDE DEF w1
<1>2. LoadsFit(ld, w1)
    BY <1>1 DEF LoadsFit
<1> QED
    BY <1>2 DEF w1

\* A step that concerns m's worker alone, as far as files and names go.
LEMMA WorkerStep ==
    ASSUME IInv, NEW m \in Module, NEW self1, self1.import = worker[m].import,
           worker' = [worker EXCEPT ![m] = self1],
           Ownership([worker EXCEPT ![m] = self1], frames', functions'),
           UNCHANGED <<loading, value_hash, node_ctor>>
    PROVE  IInv'
<1>1. Ownership(worker', frames', functions')
    BY Zenon
<1>2. LoadsFit(loading, worker) /\ DOMAIN worker = Module
    BY DEF IInv, Ownership
<1>3. LoadsFit(loading', worker')
    BY <1>2, LoadsSame
<1>4. NamesFit(value_hash') /\ NodesFit(node_ctor')
    BY DEF IInv
<1> QED
    BY <1>1, <1>3, <1>4 DEF IInv

\* What the invariant says of one worker.
LEMMA WorkerIs ==
    ASSUME IInv, NEW m \in Module
    PROVE  /\ IsWorker(worker[m]) /\ IsSeq(worker[m].token_list) /\ ValueSeq(worker[m].value_stack)
           /\ IsStack(worker[m].return_stack) /\ WorkerFits(m, worker[m], frames, functions)
           /\ HoldsFrames(m, worker[m], frames, functions) /\ FunctionsFit(functions)
           /\ worker[m].return_stack # <<>> => InFunction(m)
           /\ AreValues(value_hash[m])
BY DEF IInv, Ownership, WorkerFits, HoldsFrames, NamesFit, InFunction

\* Functions that do not change are kept.
LEMMA KeepsAll == ASSUME NEW fns, NEW n PROVE Keeps(fns, fns, n)
BY DEF Keeps

\* A compiled function can be added, and the others are kept.
LEMMA WithFits ==
    ASSUME NEW fns, FunctionsFit(fns), NEW v, v[1] \in {"function", "scratch"},
           NEW ops, Compiled(ops)
    PROVE  /\ FunctionsFit(With(fns, v, ops)) /\ v \in DOMAIN With(fns, v, ops)
           /\ v \notin DOMAIN fns => With(fns, v, ops)[v] = ops
           /\ \A n \in Module : Keeps(fns, With(fns, v, ops), n)
<1> DEFINE fns1 == With(fns, v, ops)
<1>1. /\ DOMAIN fns1 = DOMAIN fns \union {v}
      /\ \A x \in DOMAIN fns : fns1[x] = fns[x]
      /\ v \notin DOMAIN fns => fns1[v] = ops
    BY DEF With
<1> HIDE DEF fns1
<1>2. FunctionsFit(fns1)
    BY <1>1 DEF FunctionsFit
<1>3. \A n \in Module : Keeps(fns, fns1, n)
    BY <1>1 DEF Keeps
<1> QED
    BY <1>1, <1>2, <1>3 DEF fns1

\* An opcode that changes the value stack alone keeps the invariant.
LEMMA ValuesStep ==
    ASSUME IInv, NEW m \in Module, InStep(m), ~Finished(Top(m)), Fetch(m).op # "set variable",
           NEW vs, ValueSeq(vs), Fetch(m).op = "literal" => vs # <<>>, Values(m, vs)
    PROVE  IInv'
<1> DEFINE self == worker[m]
           self1 == [self EXCEPT !.return_stack = Left(m), !.value_stack = vs]
<1>1. IsWorker(self) /\ IsSeq(self.token_list) /\ FunctionsFit(functions)
    BY WorkerIs
<1>2. Turns(self, self1, Left(m)) /\ self1.value_stack = vs /\ self1.import = self.import
    <2>1. PICK A, B, C, D : self \in [token_list : A, value_stack : B, return_stack : C, import : D]
        BY <1>1 DEF IsWorker
    <2>2. /\ self1 \in [token_list : A, value_stack : {vs}, return_stack : {Left(m)}, import : D]
          /\ self1.token_list = self.token_list /\ self1.value_stack = vs
          /\ self1.return_stack = Left(m) /\ self1.import = self.import
        BY <2>1
    <2> HIDE DEF self, self1
    <2>3. IsWorker(self1)
        BY <2>2, Zenon DEF IsWorker
    <2> QED
        BY <1>1, <2>2, <2>3 DEF Turns
<1>3. StepsTo(m, Advanced(m))
    BY AdvancedSteps
<1>4. worker' = [worker EXCEPT ![m] = self1] /\ frames' = Advanced(m)
      /\ UNCHANGED <<loading, value_hash, node_ctor, functions>>
    BY DEF Values, Become, mods
<1> HIDE DEF self1, self
<1>a. Turns(worker[m], self1, Left(m)) /\ self1.import = worker[m].import
    BY <1>2 DEF self
<1>5. Ownership([worker EXCEPT ![m] = self1], Advanced(m), functions)
    BY <1>1, <1>2, <1>3, <1>a, KeepsAll, Moves
<1>6. Ownership([worker EXCEPT ![m] = self1], frames', functions')
    BY <1>4, <1>5, Zenon
<1> QED
    BY <1>a, <1>4, <1>6, WorkerStep, Zenon

\* The opcode that pushes a literal keeps the invariant.
LEMMA LiteralStep == ASSUME IInv, NEW m \in Module, Literal(m) PROVE IInv'
<1> DEFINE vs == Append(worker[m].value_stack, Fetch(m).value)
<1>1. InStep(m) /\ ~Finished(Top(m)) /\ Fetch(m).op = "literal" /\ Values(m, vs)
    BY DEF Literal, At
<1>2. ValueSeq(worker[m].value_stack) /\ IsValue(Fetch(m).value)
    BY <1>1, WorkerIs, FetchFinds
<1>3. ValueSeq(vs) /\ vs # <<>>
    BY <1>2, ValueAppend
<1> HIDE DEF vs
<1> QED
    BY <1>1, <1>3, ValuesStep

\* Reading a variable keeps the invariant: what it pushes is a value.
LEMMA GetStep == ASSUME IInv, NEW m \in Module, GetVariable(m) PROVE IInv'
<1> DEFINE vs == Append(worker[m].value_stack, frames[Top(m)].variables[Fetch(m).index])
<1>1. InStep(m) /\ ~Finished(Top(m)) /\ Fetch(m).op = "get variable" /\ Values(m, vs)
    BY DEF GetVariable, At
<1>2. ValueSeq(worker[m].value_stack) /\ IsValue(frames[Top(m)].variables[Fetch(m).index])
    BY <1>1, WorkerIs, FetchFinds
<1>3. ValueSeq(vs) /\ vs # <<>>
    BY <1>2, ValueAppend
<1> HIDE DEF vs
<1> QED
    BY <1>1, <1>3, ValuesStep

\* The end of the process keeps the invariant.
LEMMA StopStep == ASSUME IInv, NEW how, Stop(how) PROVE IInv'
<1>1. UNCHANGED <<worker, frames, functions, loading, value_hash, node_ctor>>
    BY DEF Stop, mods
<1> QED
    BY <1>1 DEF IInv

\* Setting a variable keeps the invariant.
LEMMA SetStep == ASSUME IInv, NEW m \in Module, SetVariable(m) PROVE IInv'
<1> DEFINE self == worker[m]
           values == self.value_stack
           f == Top(m)
           x == Fetch(m).index
           v == Last(values)
           fs1 == IF IsLast(m) THEN Advanced(m)
                  ELSE [Advanced(m) EXCEPT ![f].variables[x] = v]
           self1 == [self EXCEPT !.return_stack = Left(m), !.value_stack = Front(values)]
<1>1. InStep(m) /\ ~Finished(f) /\ Fetch(m).op = "set variable"
    BY DEF SetVariable, At
<1>2. CASE values = <<>>
    BY <1>2, StopStep DEF SetVariable
<1>3. CASE values # <<>>
    <2>1. /\ frames' = fs1 /\ worker' = [worker EXCEPT ![m] = self1]
          /\ UNCHANGED <<loading, value_hash, node_ctor, functions>>
        BY <1>3 DEF SetVariable, Become, mods
    <2>2. IsWorker(self) /\ IsSeq(self.token_list) /\ FunctionsFit(functions) /\ ValueSeq(values)
        BY WorkerIs
    <2>3. ValueSeq(Front(values)) /\ IsValue(v)
        BY <1>3, <2>2, ValueFront
    <2>4. Turns(self, self1, Left(m)) /\ self1.import = self.import
        <3>1. PICK A, B, C, D : self \in [token_list : A, value_stack : B, return_stack : C, import : D]
            BY <2>2 DEF IsWorker
        <3> DEFINE w == Front(values)
        <3> HIDE DEF w
        <3>2. /\ self1 \in [token_list : A, value_stack : {w}, return_stack : {Left(m)}, import : D]
              /\ self1.token_list = self.token_list /\ self1.value_stack = w
              /\ self1.return_stack = Left(m) /\ self1.import = self.import
            BY <3>1 DEF w
        <3> HIDE DEF self, self1
        <3>3. IsWorker(self1)
            BY <3>2, Zenon DEF IsWorker
        <3>4. ValueSeq(w)
            BY <2>3 DEF w, self
        <3> QED
            BY <2>2, <3>2, <3>3, <3>4 DEF Turns
    <2>5. StepsTo(m, fs1)
        <3>1. /\ DOMAIN frames = FrameId /\ f \in FrameId
              /\ FrameFits(m, frames[f], functions) /\ frames[f].cursor < Len(Ops(m))
              /\ Len(Ops(m)) \in Nat /\ x = Ops(m)[frames[f].cursor + 1].index
            BY <1>1, AtStep DEF IInv, Ownership
        <3>2. CASE IsLast(m)
            <4>1. fs1 = [frames EXCEPT ![f] = FREE]
                BY <3>2 DEF Advanced
            <4> HIDE DEF fs1
            <4> QED
                BY <3>1, <3>2, <4>1 DEF StepsTo
        <3>3. CASE ~IsLast(m)
            <4> DEFINE fr1 == [frames[f] EXCEPT !.cursor = @ + 1, !.variables[x] = v]
            <4>1. RunsOn(frames[f], Ops(m))
                BY <3>1 DEF FrameFits, Ops
            <4>2. Passed(frames[f], fr1, Ops(m))
                <5> HIDE DEF x, v
                <5>1. x = Ops(m)[frames[f].cursor + 1].index /\ IsValue(v)
                    BY <2>3, <3>1
                <5> QED
                    BY <3>1, <4>1, <5>1, VariableIsSet
            <4>3. fs1 = [[frames EXCEPT ![f].cursor = @ + 1] EXCEPT ![f].variables[x] = v]
                BY <3>3 DEF Advanced
            <4> HIDE DEF x, v
            <4>4. DOMAIN fs1 = FrameId /\ fs1[f] = fr1 /\ \A g \in FrameId : g # f => fs1[g] = frames[g]
                <5>1. PICK A, B, C : frames[f] \in [function : A, cursor : B, variables : C]
                    BY <4>1 DEF RunsOn, IsFrame
                <5> HIDE DEF fs1
                <5> QED
                    BY <3>1, <4>3, <5>1
            <4> HIDE DEF fs1, fr1
            <4> QED
                BY <3>3, <4>2, <4>4, Zenon DEF StepsTo
        <3> QED
            BY <3>2, <3>3
    <2> HIDE DEF fs1, self1, self
    <2>6. Turns(worker[m], self1, Left(m)) /\ self1.import = worker[m].import
        BY <2>4 DEF self
    <2>7. Ownership([worker EXCEPT ![m] = self1], fs1, functions)
        BY <1>1, <2>2, <2>5, <2>6, KeepsAll, Moves
    <2>8. Ownership([worker EXCEPT ![m] = self1], frames', functions')
        BY <2>1, <2>7, Zenon
    <2> QED
        BY <2>1, <2>6, <2>8, WorkerStep, Zenon
<1> QED
    BY <1>2, <1>3

\* A new frame is a free one.
LEMMA FirstIsFree ==
    ASSUME FreeFrames # {}
    PROVE  First(FreeFrames) \in FrameId /\ frames[First(FreeFrames)] = FREE
<1>1. FreeFrames \subseteq Nat /\ FreeFrames \subseteq FrameId
    BY FrameAssumption DEF FreeFrames
<1>2. \E f \in FreeFrames : \A g \in FreeFrames : f <= g
    BY <1>1, LeastOf, Zenon
<1>3. First(FreeFrames) \in FreeFrames
    BY <1>2, Zenon DEF First
<1> QED
    BY <1>3 DEF FreeFrames

\* Leaving a function without opcodes keeps the invariant.
LEMMA EndFrameStep == ASSUME IInv, NEW m \in Module, EndFrame(m) PROVE IInv'
<1> DEFINE self == worker[m]
           rs == self.return_stack
           self1 == [self EXCEPT !.return_stack = Front(@)]
           fs1 == [frames EXCEPT ![Top(m)] = FREE]
<1>1. /\ rs # <<>> /\ Top(m) = Last(rs) /\ frames' = fs1 /\ worker' = [worker EXCEPT ![m] = self1]
      /\ UNCHANGED <<loading, value_hash, node_ctor, functions>>
    BY DEF EndFrame, InStep, Top, Become, mods
<1>2. /\ IsWorker(self) /\ IsSeq(self.token_list) /\ FunctionsFit(functions)
      /\ ValueSeq(self.value_stack) /\ IsStack(rs) /\ WorkerFits(m, self, frames, functions)
      /\ HoldsFrames(m, self, frames, functions)
    BY WorkerIs
<1>3. Turns(self, self1, Front(rs)) /\ self1.import = self.import
    <2>1. PICK A, B, C, D : self \in [token_list : A, value_stack : B, return_stack : C, import : D]
        BY <1>2 DEF IsWorker
    <2> DEFINE r == Front(rs)
    <2> HIDE DEF r
    <2>2. /\ self1 \in [token_list : A, value_stack : B, return_stack : {r}, import : D]
          /\ self1.token_list = self.token_list /\ self1.value_stack = self.value_stack
          /\ self1.return_stack = r /\ self1.import = self.import
        BY <2>1 DEF r
    <2> HIDE DEF self, self1
    <2>3. IsWorker(self1)
        BY <2>2, Zenon DEF IsWorker
    <2> QED
        BY <1>2, <2>2, <2>3 DEF Turns, r
<1>4. DOMAIN frames = FrameId
    BY DEF IInv, Ownership
<1>5. Held(self) \subseteq FrameId /\ Top(m) \in Held(self) /\ Top(m) \in Range(rs)
    BY <1>1, <1>2, StackIs, HeldIs DEF Held
<1>6. Top(m) \notin Held(self1)
    <2>1. self1.import = self.import /\ self1.return_stack = Front(rs)
        BY <1>3 DEF Turns
    <2>2. Range(Front(rs)) = Range(rs) \ {Top(m)}
        BY <1>1, <1>2, StackIs
    <2>3. self.import.frame # Top(m)
        BY <1>2, <1>5 DEF HoldsFrames
    <2> HIDE DEF self, self1
    <2> QED
        BY <2>1, <2>2, <2>3 DEF Held
<1>7. Agrees(self1, frames, fs1)
    <2>1. \A f : f # Top(m) /\ f \in FrameId => fs1[f] = frames[f]
        BY <1>4
    <2>2. Held(self1) \subseteq FrameId
        <3>1. self1.import = self.import /\ self1.return_stack = Front(rs)
            BY <1>3 DEF Turns
        <3>2. Range(Front(rs)) = Range(rs) \ {Top(m)}
            BY <1>1, <1>2, StackIs
        <3> HIDE DEF self1
        <3> QED
            BY <1>5, <3>1, <3>2 DEF Held
    <2> HIDE DEF fs1, self1
    <2> QED
        BY <1>6, <2>1, <2>2 DEF Agrees
<1> HIDE DEF self1
<1>8. /\ HoldsFrames(m, self1, fs1, functions) /\ AllWait(self1, fs1, functions)
      /\ Held(self1) = Held(self) \ {Top(m)}
    <2> HIDE DEF fs1
    <2>1. WorkerFits(m, self, frames, functions) /\ rs # <<>> /\ Turns(self, self1, Front(rs))
        BY <1>1, <1>2, <1>3
    <2>2. /\ HoldsFrames(m, self1, fs1, functions) /\ AllWait(self1, fs1, functions)
          /\ Held(self1) = Held(self) \ {Last(rs)}
        BY <1>7, <2>1, Drop
    <2> QED
        BY <1>1, <2>2
<1>9. WorkerFits(m, self1, fs1, functions)
    BY <1>8, AllWaitFits
<1>10. Changes(self, self1, frames, fs1)
    BY <1>4, <1>5, <1>8 DEF Changes
<1> HIDE DEF fs1
<1>11. Ownership([worker EXCEPT ![m] = self1], fs1, functions)
    BY <1>2, <1>9, <1>10, KeepsAll, OwnersStep DEF IInv
<1>12. Ownership([worker EXCEPT ![m] = self1], frames', functions')
    BY <1>1, <1>11, Zenon
<1>13. self1.import = worker[m].import
    BY <1>3 DEF self
<1> QED
    BY <1>1, <1>12, <1>13, WorkerStep, Zenon

\* A worker whose stack of frames is empty may be given any tokens and values.
LEMMA Idle ==
    ASSUME NEW m, NEW self, NEW fs, NEW fns, WorkerFits(m, self, fs, fns), self.return_stack = <<>>,
           NEW self1, Turns(self, self1, <<>>)
    PROVE  /\ HoldsFrames(m, self1, fs, fns) /\ AllWait(self1, fs, fns)
           /\ Held(self1) = Held(self) /\ WorkerFits(m, self1, fs, fns)
<1>1. HoldsFrames(m, self, fs, fns)
    BY DEF WorkerFits
<1>2. self1.return_stack = self.return_stack /\ self1.import = self.import
    BY DEF Turns
<1>3. Held(self1) = Held(self)
    BY <1>2 DEF Held
<1>4. HoldsFrames(m, self1, fs, fns)
    BY <1>1, <1>2, <1>3, Zenon DEF HoldsFrames, Turns
<1>5. \A i \in 1 .. Len(self1.return_stack) : FALSE
    BY <1>2
<1>6. AllWait(self1, fs, fns)
    BY <1>5 DEF AllWait
<1> QED
    BY <1>3, <1>4, <1>6, AllWaitFits

\* A number among the words of a file keeps the invariant.
LEMMA IntStep == ASSUME IInv, NEW m \in Module, ExecuteInt(m) PROVE IInv'
<1> DEFINE self == worker[m]
           t == Head(self.token_list)
           vs == Append(self.value_stack, Immediate(xint(t.int_value)))
           tl == Tail(self.token_list)
           self1 == [self EXCEPT !.token_list = tl, !.value_stack = vs]
<1>1. /\ self.token_list # <<>> /\ ~InFunction(m) /\ worker' = [worker EXCEPT ![m] = self1]
      /\ UNCHANGED <<loading, value_hash, node_ctor, functions, frames>>
    BY DEF ExecuteInt, Become, mods
<1>2. /\ IsWorker(self) /\ IsSeq(self.token_list) /\ FunctionsFit(functions)
      /\ ValueSeq(self.value_stack) /\ WorkerFits(m, self, frames, functions)
      /\ self.return_stack = <<>>
    BY <1>1, WorkerIs
<1>3. IsSeq(tl)
    <2>1. PICK S : self.token_list \in Seq(S)
        BY <1>2 DEF IsSeq
    <2>2. tl \in Seq(S)
        BY <1>1, <2>1
    <2> QED
        BY <2>2, SeqIs
<1>4. ValueSeq(vs)
    <2>1. IsValue(Immediate(xint(t.int_value)))
        BY DEF IsValue, Immediate
    <2> QED
        BY <1>2, <2>1, ValueAppend
<1> HIDE DEF tl, vs
<1>5. Turns(self, self1, <<>>) /\ self1.import = self.import
    <2>1. PICK A, B, C, D : self \in [token_list : A, value_stack : B, return_stack : C, import : D]
        BY <1>2 DEF IsWorker
    <2>2. /\ self1 \in [token_list : {tl}, value_stack : {vs}, return_stack : C, import : D]
          /\ self1.token_list = tl /\ self1.value_stack = vs
          /\ self1.return_stack = self.return_stack /\ self1.import = self.import
        BY <2>1
    <2> HIDE DEF self, self1
    <2>3. IsWorker(self1)
        BY <2>2, Zenon DEF IsWorker
    <2> QED
        BY <1>2, <1>3, <1>4, <2>2, <2>3 DEF Turns
<1> HIDE DEF self1
<1>6. WorkerFits(m, self1, frames, functions) /\ Held(self1) = Held(self)
    BY <1>2, <1>5, Idle
<1>7. Changes(self, self1, frames, frames)
    BY <1>6 DEF Changes, IInv, Ownership
<1>8. Ownership([worker EXCEPT ![m] = self1], frames, functions)
    BY <1>2, <1>6, <1>7, KeepsAll, OwnersStep DEF IInv
<1>9. Ownership([worker EXCEPT ![m] = self1], frames', functions')
    BY <1>1, <1>8, Zenon
<1> QED
    BY <1>1, <1>5, <1>9, WorkerStep, Zenon

\* compile_one on the first token makes compiled opcodes.
LEMMA CompiledOne ==
    ASSUME NEW tokens, IsSeq(tokens), tokens # <<>>, NEW definitions, AreValues(definitions),
           NEW c, c = compile_one(definitions, Compilation(tokens)), c.status = "running"
    PROVE  Compiled(c.opcodes) /\ IsSeq(c.tokens)
<1> DEFINE d == Compilation(tokens)
<1>1. CompilationFits(d) /\ d.tokens = tokens
    BY NothingCompiled
<1> HIDE DEF d
<1>2. Fits(compile_one(definitions, d))
    BY <1>1, OneFits
<1>3. CompilationFits(c)
    BY <1>2 DEF Fits, d
<1> QED
    BY <1>3 DEF CompilationFits

\* The beginning of execute_generic keeps the invariant.
LEMMA GenericStep == ASSUME IInv, NEW m \in Module, ExecuteGeneric(m) PROVE IInv'
<1> DEFINE self == worker[m]
           c == compile_one(value_hash[m], Compilation(self.token_list))
           g == First(FreeFrames)
           v == Scratch(m)
           fns1 == With(functions, v, c.opcodes)
           fs1 == [frames EXCEPT ![g] = NewFrame(v, c.opcodes)]
           self1 == [self EXCEPT !.token_list = c.tokens, !.return_stack = <<g>>]
<1>1. self.token_list # <<>> /\ ~InFunction(m)
    BY DEF ExecuteGeneric
<1>2. CASE c.status # "running"
    BY <1>2, StopStep DEF ExecuteGeneric
<1>3. CASE c.status = "running"
    <2>1. /\ FreeFrames # {} /\ functions' = fns1 /\ frames' = fs1
          /\ worker' = [worker EXCEPT ![m] = self1]
          /\ UNCHANGED <<loading, value_hash, node_ctor>>
        BY <1>3 DEF ExecuteGeneric, Become, mods
    <2>2. /\ IsWorker(self) /\ IsSeq(self.token_list) /\ FunctionsFit(functions)
          /\ ValueSeq(self.value_stack) /\ WorkerFits(m, self, frames, functions)
          /\ self.return_stack = <<>> /\ AreValues(value_hash[m])
        BY <1>1, WorkerIs
    <2>3. Compiled(c.opcodes) /\ IsSeq(c.tokens)
        <3>1. c = compile_one(value_hash[m], Compilation(self.token_list))
            OBVIOUS
        <3> HIDE DEF c
        <3> QED
            BY <1>1, <1>3, <2>2, <3>1, CompiledOne
    <2> HIDE DEF c
    <2>4. g \in FrameId /\ frames[g] = FREE /\ DOMAIN frames = FrameId
        BY <2>1, FirstIsFree DEF IInv, Ownership
    <2> HIDE DEF g
    <2>5. /\ FunctionsFit(fns1) /\ v \in DOMAIN fns1 /\ fns1[v] = c.opcodes
          /\ \A n \in Module : Keeps(functions, fns1, n)
        BY <1>1, <2>2, <2>3, WithFits, ScratchIs DEF InFunction
    <2>6. g \notin Held(self)
        BY <2>4, HeldAreTaken DEF IInv
    <2>7. Turns(self, self1, Append(self.return_stack, g)) /\ self1.import = self.import
        <3>1. PICK A, B, C, D : self \in [token_list : A, value_stack : B, return_stack : C, import : D]
            BY <2>2 DEF IsWorker
        <3>2. /\ self1 \in [token_list : {c.tokens}, value_stack : B, return_stack : {<<g>>}, import : D]
              /\ self1.token_list = c.tokens /\ self1.value_stack = self.value_stack
              /\ self1.return_stack = <<g>> /\ self1.import = self.import
            BY <3>1
        <3>3. Append(self.return_stack, g) = <<g>>
            BY <2>2
        <3> HIDE DEF self, self1
        <3>4. IsWorker(self1)
            BY <3>2, Zenon DEF IsWorker
        <3> QED
            BY <2>2, <2>3, <3>2, <3>3, <3>4 DEF Turns
    <2>8. HoldsFrames(m, self, frames, fns1) /\ AllWait(self, frames, fns1)
        <3>1. WorkerFits(m, self, frames, fns1)
            BY <2>2, <2>5, Undisturbed
        <3>2. \A i \in 1 .. Len(self.return_stack) : FALSE
            BY <2>2
        <3> HIDE DEF self
        <3> QED
            BY <3>1, <3>2 DEF WorkerFits, AllWait
    <2>9. fs1[g] = NewFrame(v, fns1[v]) /\ \A f \in FrameId : f # g => fs1[f] = frames[f]
        BY <2>4, <2>5
    <2>10. Held(self) \subseteq FrameId
        BY HeldAreTaken DEF IInv
    <2> HIDE DEF self1
    <2>11. WorkerFits(m, self1, fs1, fns1) /\ Held(self1) = Held(self) \union {g}
        <3>1. \A f \in Held(self) : fs1[f] = frames[f]
            BY <2>6, <2>9, <2>10
        <3>2. v[1] = "scratch" => v = Scratch(m)
            OBVIOUS
        <3>3. Scratch(m) \in DOMAIN fns1
            BY <2>5
        <3> HIDE DEF fs1, fns1, v, self
        <3> QED
            BY <2>4, <2>5, <2>6, <2>7, <2>8, <2>9, <3>1, <3>2, <3>3, Push
    <2>12. Changes(self, self1, frames, fs1)
        <3>1. DOMAIN fs1 = FrameId
            BY <2>4
        <3> HIDE DEF fs1
        <3> QED
            BY <2>4, <2>6, <2>9, <2>11, <3>1 DEF Changes
    <2> HIDE DEF fs1, fns1
    <2>13. Ownership([worker EXCEPT ![m] = self1], fs1, fns1)
        BY <2>5, <2>11, <2>12, OwnersStep DEF IInv
    <2>14. Ownership([worker EXCEPT ![m] = self1], frames', functions')
        BY <2>1, <2>13, Zenon
    <2> QED
        BY <2>1, <2>7, <2>14, WorkerStep, Zenon
<1> QED
    BY <1>2, <1>3

\* Its end keeps the invariant: no frame is left that runs the function it
\* destroys.
LEMMA EndGenericStep == ASSUME IInv, NEW m \in Module, EndGeneric(m) PROVE IInv'
<1> DEFINE fns1 == [v \in DOMAIN functions \ {Scratch(m)} |-> functions[v]]
<1>1. /\ worker[m].return_stack = <<>> /\ worker[m].import = NotImporting
      /\ functions' = fns1 /\ worker' = worker /\ frames' = frames
      /\ UNCHANGED <<loading, value_hash, node_ctor>>
    BY DEF EndGeneric, mods, Restrict
<1>2. /\ DOMAIN fns1 = DOMAIN functions \ {Scratch(m)}
      /\ \A v \in DOMAIN fns1 : fns1[v] = functions[v]
    OBVIOUS
<1> HIDE DEF fns1
<1>3. Ownership(worker, frames, functions) /\ FunctionsFit(functions)
    BY DEF IInv, Ownership
<1>4. FunctionsFit(fns1)
    BY <1>2, <1>3 DEF FunctionsFit
<1>5. ASSUME NEW n \in Module PROVE WorkerFits(n, worker[n], frames, fns1)
    <2>1. CASE n # m
        <3>1. Scratch(n) # Scratch(m)
            BY <2>1, ScratchIs
        <3>2. Keeps(functions, fns1, n)
            BY <1>2, <3>1, ScratchIs DEF Keeps
        <3>3. WorkerFits(n, worker[n], frames, functions)
            BY <1>3 DEF Ownership
        <3> QED
            BY <3>2, <3>3, Undisturbed
    <2>2. CASE n = m
        <3> DEFINE self == worker[m]
        <3>1. self.return_stack = <<>> /\ HoldsFrames(m, self, frames, functions)
            BY <1>1, WorkerIs
        <3>2. Held(self) = {}
            BY <1>1 DEF Held, NotImporting, Range
        <3>3. \A i \in 1 .. Len(self.return_stack) : FALSE
            BY <1>1
        <3> HIDE DEF self
        <3>4. HoldsFrames(m, self, frames, fns1)
            BY <3>1, <3>2, Zenon DEF HoldsFrames
        <3>5. WorkerFits(m, self, frames, fns1)
            BY <3>3, <3>4, Zenon DEF WorkerFits
        <3> QED
            BY <2>2, <3>5 DEF self
    <2> QED
        BY <2>1, <2>2
<1>6. Ownership(worker, frames, fns1)
    BY <1>3, <1>4, <1>5 DEF Ownership
<1>7. Ownership(worker', frames', functions')
    BY <1>1, <1>6
<1> QED
    BY <1>1, <1>7 DEF IInv

\* What is applied is a value on top of a stack of values.
LEMMA AppliedIs ==
    ASSUME IInv, NEW m \in Module, NEW v, Applies(m, v)
    PROVE  /\ InStep(m) /\ ~Finished(Top(m)) /\ Fetch(m).op = "apply" /\ IsValue(v)
           /\ ValueSeq(worker[m].value_stack) /\ ValueSeq(Front(worker[m].value_stack))
           /\ Running(m)
<1>1. /\ InStep(m) /\ ~Finished(Top(m)) /\ Fetch(m).op = "apply" /\ Running(m)
      /\ v = Last(worker[m].value_stack)
    BY DEF Applies, At, InStep
<1>2. ValueSeq(worker[m].value_stack) /\ worker[m].value_stack # <<>>
    BY <1>1, WorkerIs, FetchFinds
<1> QED
    BY <1>1, <1>2, ValueFront

\* A call keeps the invariant, whether it is a tail call or not.
LEMMA CallStep == ASSUME IInv, NEW m \in Module, ApplyFunction(m) PROVE IInv'
<1>1. PICK v \in DOMAIN functions :
        /\ Applies(m, v) /\ FreeFrames # {}
        /\ frames' = [Advanced(m) EXCEPT ![First(FreeFrames)] = NewFrame(v, functions[v])]
        /\ worker' = [worker EXCEPT ![m] =
               [worker[m] EXCEPT !.return_stack = Append(Left(m), First(FreeFrames)),
                                 !.value_stack = Front(worker[m].value_stack)]]
        /\ UNCHANGED <<loading, value_hash, node_ctor, functions>>
    BY DEF ApplyFunction, Become, mods
<1> DEFINE self == worker[m]
           g == First(FreeFrames)
           vs == Front(self.value_stack)
           self0 == [self EXCEPT !.return_stack = Left(m), !.value_stack = vs]
           self1 == [self EXCEPT !.return_stack = Append(Left(m), g), !.value_stack = vs]
           fs0 == Advanced(m)
           fs1 == [fs0 EXCEPT ![g] = NewFrame(v, functions[v])]
<1>2. /\ InStep(m) /\ ~Finished(Top(m)) /\ Fetch(m).op = "apply" /\ IsValue(v) /\ ValueSeq(vs)
    BY <1>1, AppliedIs
<1>3. /\ IsWorker(self) /\ IsSeq(self.token_list) /\ FunctionsFit(functions)
      /\ Scratch(m) \in DOMAIN functions
    BY <1>2, WorkerIs DEF InStep, InFunction
<1>4. g \in FrameId /\ frames[g] = FREE
    BY <1>1, FirstIsFree
<1>5. worker' = [worker EXCEPT ![m] = self1] /\ frames' = fs1
    BY <1>1
<1> HIDE DEF g, vs
<1>6. Turns(self, self0, Left(m)) /\ Turns(self0, self1, Append(self0.return_stack, g))
      /\ self1.import = self.import
    <2> DEFINE r == Append(Left(m), g)
    <2>1. PICK A, B, C, D : self \in [token_list : A, value_stack : B, return_stack : C, import : D]
        BY <1>3 DEF IsWorker
    <2>2. /\ self0 \in [token_list : A, value_stack : {vs}, return_stack : {Left(m)}, import : D]
          /\ self0.token_list = self.token_list /\ self0.value_stack = vs
          /\ self0.return_stack = Left(m) /\ self0.import = self.import
        BY <2>1
    <2>3. self1 = [self EXCEPT !.return_stack = r, !.value_stack = vs]
        OBVIOUS
    <2> HIDE DEF r
    <2>4. /\ self1 \in [token_list : A, value_stack : {vs}, return_stack : {r}, import : D]
          /\ self1.token_list = self.token_list /\ self1.value_stack = vs
          /\ self1.return_stack = r /\ self1.import = self.import
        BY <2>1, <2>3
    <2> HIDE DEF self, self0, self1
    <2>5. IsWorker(self0) /\ IsWorker(self1)
        BY <2>2, <2>4, Zenon DEF IsWorker
    <2> QED
        BY <1>2, <1>3, <2>2, <2>4, <2>5 DEF Turns, r
<1>7. StepsTo(m, fs0)
    BY <1>2, AdvancedSteps
<1> HIDE DEF self0, self1, fs0
<1>8. /\ HoldsFrames(m, self0, fs0, functions) /\ AllWait(self0, fs0, functions)
      /\ Changes(self, self0, frames, fs0) /\ Held(self0) \subseteq Held(self)
    BY <1>2, <1>6, <1>7, StepTurns
<1>9. g \notin Held(self) /\ Held(self) \subseteq FrameId
    BY <1>4, HeldAreTaken DEF IInv
<1>10. /\ DOMAIN fs1 = FrameId /\ fs1[g] = NewFrame(v, functions[v])
       /\ \A f \in FrameId : f # g => fs1[f] = fs0[f]
    BY <1>4, <1>8 DEF Changes
<1> HIDE DEF fs1
<1>11. WorkerFits(m, self1, fs1, functions) /\ Held(self1) = Held(self0) \union {g}
    <2>1. \A f \in Held(self0) : fs1[f] = fs0[f]
        BY <1>8, <1>9, <1>10
    <2>2. v[1] = "scratch" => v = Scratch(m)
        BY <1>2 DEF IsValue
    <2>3. g \notin Held(self0)
        BY <1>8, <1>9
    <2> HIDE DEF self
    <2> QED
        BY <1>3, <1>4, <1>6, <1>8, <1>10, <2>1, <2>2, <2>3, Push
<1>12. Changes(self, self1, frames, fs1)
    <2> HIDE DEF self
    <2> QED
        BY <1>4, <1>8, <1>9, <1>10, <1>11 DEF Changes
<1>13. Ownership([worker EXCEPT ![m] = self1], fs1, functions)
    BY <1>3, <1>11, <1>12, KeepsAll, OwnersStep DEF IInv
<1>14. Ownership([worker EXCEPT ![m] = self1], frames', functions')
    BY <1>1, <1>5, <1>13, Zenon
<1> QED
    BY <1>1, <1>5, <1>6, <1>14, WorkerStep, Zenon

\* Two values are a stack.
LEMMA TwoValues == ASSUME NEW v, IsValue(v), NEW w, IsValue(w) PROVE ValueSeq(<<v, w>>)
<1>1. ValueSeq(<<v>>) /\ ValueSeq(<<w>>)
    BY OneValue
<1>2. ValueSeq(<<v>> \o <<w>>)
    BY <1>1, ValueConcat
<1> QED
    BY <1>2, PairConcat

\* Three values are a stack.
LEMMA ThreeValues ==
    ASSUME NEW v, IsValue(v), NEW w, IsValue(w), NEW x, IsValue(x) PROVE ValueSeq(<<v, w, x>>)
<1> DEFINE S == {v, w, x}
           t == <<v, w, x>>
<1>1. t \in Seq(S) /\ \A y \in S : IsValue(y)
    OBVIOUS
<1> HIDE DEF S, t
<1>2. ValueSeq(t)
    BY <1>1, Zenon DEF ValueSeq
<1> QED
    BY <1>2 DEF t

\* The same value several times is a stack.
LEMMA SameValues ==
    ASSUME NEW v, IsValue(v), NEW n \in Nat PROVE ValueSeq([i \in 1 .. n |-> v])
<1> DEFINE S == {v}
           t == [i \in 1 .. n |-> v]
<1>1. t \in [1 .. n -> S] /\ \A x \in S : IsValue(x)
    OBVIOUS
<1> HIDE DEF S, t
<1>2. t \in Seq(S)
    BY <1>1, SeqDef
<1>3. ValueSeq(t)
    BY <1>1, <1>2, Zenon DEF ValueSeq
<1> QED
    BY <1>3 DEF t

\* How many values a word takes is a number.
LEMMA ArityIs == ASSUME NEW name PROVE InputArity(name) \in Nat
BY DEF InputArity

\* The operands of a word are values.
LEMMA ArgsAre ==
    ASSUME IInv, NEW m \in Module, NEW name, Applies(m, Primitive(name)),
           Len(Front(worker[m].value_stack)) - InputArity(name) >= 0
    PROVE  \A i \in 1 .. InputArity(name) : IsValue(Args(m, name)[i])
<1> DEFINE values == Front(worker[m].value_stack)
           n == InputArity(name)
           first == Len(values) - n + 1
<1>1. ValueSeq(values) /\ Args(m, name) = SubSeq(values, first, Len(values))
    BY AppliedIs DEF Args
<1>2. Len(values) \in Nat /\ n \in Nat
    BY <1>1, ValuesAreSeq, ArityIs
<1>3. first \in Int /\ 1 <= first /\ (IF first <= Len(values) THEN Len(values) - first + 1 ELSE 0) = n
    BY <1>2
<1> HIDE DEF values, n, first
<1>4. ValueSeq(Args(m, name)) /\ Len(Args(m, name)) = n
    BY <1>1, <1>2, <1>3, ValueSub
<1> QED
    BY <1>4, ValuesAreSeq DEF n

\* A word that replaces values by values keeps the invariant.
LEMMA ReplacesStep ==
    ASSUME IInv, NEW m \in Module, NEW name, NEW accepted, NEW results,
           Replaces(m, name, accepted, results),
           Len(Front(worker[m].value_stack)) - InputArity(name) >= 0 => ValueSeq(results)
    PROVE  IInv'
<1> DEFINE values == Front(worker[m].value_stack)
           rest == Len(values) - InputArity(name)
           vs == SubSeq(values, 1, rest) \o results
<1>1. Applies(m, Primitive(name))
    BY DEF Replaces
<1>2. /\ InStep(m) /\ ~Finished(Top(m)) /\ Fetch(m).op = "apply" /\ ValueSeq(values)
    BY <1>1, AppliedIs
<1>3. Stop("abort") \/ (rest >= 0 /\ Values(m, vs))
    <2>1. Len(values) \in Nat /\ InputArity(name) \in Nat
        BY <1>2, ValuesAreSeq, ArityIs
    <2>2. rest >= 0 \/ rest < 0
        BY <2>1
    <2>3. IF rest < 0 \/ ~accepted THEN Stop("abort") ELSE Values(m, vs)
        BY DEF Replaces
    <2> HIDE DEF rest, vs
    <2> QED
        BY <2>2, <2>3, Zenon
<1>4. CASE Stop("abort")
    BY <1>4, StopStep
<1>5. CASE rest >= 0 /\ Values(m, vs)
    <2>1. ValueSeq(results)
        BY <1>5
    <2>2. Len(values) \in Nat /\ InputArity(name) \in Nat
        BY <1>2, ValuesAreSeq, ArityIs
    <2>3. rest \in Int /\ rest <= Len(values) /\ 1 \in Int /\ 1 <= 1
        BY <2>2
    <2>4. ValueSeq(SubSeq(values, 1, rest))
        <3> HIDE DEF values, rest
        <3> QED
            BY <1>2, <2>3, ValueSub
    <2>5. ValueSeq(vs)
        <3> HIDE DEF rest
        <3> QED
            BY <2>1, <2>4, ValueConcat
    <2> HIDE DEF vs
    <2> QED
        BY <1>2, <1>5, <2>5, ValuesStep
<1> QED
    BY <1>3, <1>4, <1>5

\* dup, drop, swap, rot, over and tuck keep the invariant.
LEMMA StackWordStep == ASSUME IInv, NEW m \in Module, ApplyStackWord(m) PROVE IInv'
<1>1. PICK name \in StackWords :
        LET a == Args(m, name)
        IN  Replaces(m, name, TRUE,
                CASE name = "dup"  -> <<a[1], a[1]>>
                  [] name = "drop" -> <<>>
                  [] name = "swap" -> <<a[2], a[1]>>
                  [] name = "rot"  -> <<a[2], a[3], a[1]>>
                  [] name = "over" -> <<a[1], a[2], a[1]>>
                  [] name = "tuck" -> <<a[2], a[1], a[2]>>)
    BY Zenon DEF ApplyStackWord
<1> DEFINE a == Args(m, name)
           results == CASE name = "dup"  -> <<a[1], a[1]>>
                        [] name = "drop" -> <<>>
                        [] name = "swap" -> <<a[2], a[1]>>
                        [] name = "rot"  -> <<a[2], a[3], a[1]>>
                        [] name = "over" -> <<a[1], a[2], a[1]>>
                        [] name = "tuck" -> <<a[2], a[1], a[2]>>
<1>2. Replaces(m, name, TRUE, results)
    BY <1>1, Zenon
<1> HIDE DEF a
<1>3. ASSUME Len(Front(worker[m].value_stack)) - InputArity(name) >= 0 PROVE ValueSeq(results)
    <2>1. Applies(m, Primitive(name))
        BY <1>2 DEF Replaces
    <2>2. \A i \in 1 .. InputArity(name) : IsValue(a[i])
        BY <1>3, <2>1, ArgsAre DEF a
    <2>3. CASE name = "dup"
        <3>1. IsValue(a[1])
            BY <2>2, <2>3 DEF InputArity
        <3>2. results = <<a[1], a[1]>>
            BY <2>3
        <3> QED
            BY <3>1, <3>2, TwoValues
    <2>4. CASE name = "drop"
        BY <2>4, NoValues
    <2>5. CASE name = "swap"
        <3>1. IsValue(a[1]) /\ IsValue(a[2])
            BY <2>2, <2>5 DEF InputArity
        <3>2. results = <<a[2], a[1]>>
            BY <2>5
        <3> QED
            BY <3>1, <3>2, TwoValues
    <2>6. CASE name = "rot"
        <3>1. IsValue(a[1]) /\ IsValue(a[2]) /\ IsValue(a[3])
            BY <2>2, <2>6 DEF InputArity
        <3>2. results = <<a[2], a[3], a[1]>>
            BY <2>6
        <3> QED
            BY <3>1, <3>2, ThreeValues
    <2>7. CASE name = "over"
        <3>1. IsValue(a[1]) /\ IsValue(a[2])
            BY <2>2, <2>7 DEF InputArity
        <3>2. results = <<a[1], a[2], a[1]>>
            BY <2>7
        <3> QED
            BY <3>1, <3>2, ThreeValues
    <2>8. CASE name = "tuck"
        <3>1. IsValue(a[1]) /\ IsValue(a[2])
            BY <2>2, <2>8 DEF InputArity
        <3>2. results = <<a[2], a[1], a[2]>>
            BY <2>8
        <3> QED
            BY <3>1, <3>2, ThreeValues
    <2> QED
        BY <2>3, <2>4, <2>5, <2>6, <2>7, <2>8 DEF StackWords
<1> HIDE DEF results
<1> QED
    BY <1>2, <1>3, ReplacesStep

\* The words that are functions of their operands keep the invariant.
LEMMA PureWordStep == ASSUME IInv, NEW m \in Module, ApplyPureWord(m) PROVE IInv'
<1>1. PICK name \in PureWords :
        Replaces(m, name, Accepts(name, Args(m, name)), Results(name, Args(m, name)))
    BY Zenon DEF ApplyPureWord
<1> DEFINE a == Args(m, name)
           results == Results(name, a)
           accepted == Accepts(name, a)
<1>2. Replaces(m, name, accepted, results)
    BY <1>1, Zenon
<1> HIDE DEF a
<1>3. ASSUME Len(Front(worker[m].value_stack)) - InputArity(name) >= 0 PROVE ValueSeq(results)
    <2>1. Applies(m, Primitive(name))
        BY <1>2 DEF Replaces
    <2>2. \A i \in 1 .. InputArity(name) : IsValue(a[i])
        BY <1>3, <2>1, ArgsAre DEF a
    <2>3. \A x : ValueSeq(<<Immediate(x)>>)
        <3>1. \A x : IsValue(Immediate(x))
            BY DEF IsValue, Immediate
        <3> QED
            BY <3>1, OneValue
    <2>4. CASE name \in IntWords
        BY <2>3, <2>4 DEF Results, IntWords
    <2>5. CASE name \in {"and", "or"}
        <3>1. name \notin IntWords
            BY <2>5 DEF IntWords
        <3> QED
            BY <2>3, <2>5, <3>1 DEF Results
    <2>6. CASE name = "not"
        <3>1. name \notin IntWords /\ name \notin {"and", "or"}
            BY <2>6 DEF IntWords
        <3> QED
            BY <2>3, <2>6, <3>1 DEF Results
    <2>7. CASE name = "eq"
        <3>1. name \notin IntWords /\ name \notin {"and", "or"}
            BY <2>7 DEF IntWords
        <3> QED
            BY <2>3, <2>7, <3>1 DEF Results
    <2>8. CASE name = "print"
        <3>1. name \notin IntWords /\ name \notin {"and", "or"}
            BY <2>8 DEF IntWords
        <3>2. results = <<a[1]>>
            BY <2>8, <3>1 DEF Results
        <3>3. IsValue(a[1])
            BY <2>2, <2>8 DEF InputArity
        <3> QED
            BY <3>2, <3>3, OneValue
    <2>9. CASE name = "newline"
        <3>1. name \notin IntWords /\ name \notin {"and", "or"}
            BY <2>9 DEF IntWords
        <3>2. results = <<>>
            BY <2>9, <3>1 DEF Results
        <3> QED
            BY <3>2, NoValues
    <2> QED
        BY <2>4, <2>5, <2>6, <2>7, <2>8, <2>9 DEF PureWords
<1> HIDE DEF results, accepted
<1> QED
    BY <1>2, <1>3, ReplacesStep

\* The word ok keeps the invariant.
LEMMA OkStep == ASSUME IInv, NEW m \in Module, ApplyOk(m) PROVE IInv'
<1> DEFINE values == Front(worker[m].value_stack)
<1>1. Applies(m, Primitive("ok"))
    BY DEF ApplyOk
<1>2. /\ InStep(m) /\ ~Finished(Top(m)) /\ Fetch(m).op = "apply" /\ ValueSeq(values)
    BY <1>1, AppliedIs
<1>3. Stop("abort") \/ Stop("exit") \/ Values(m, Front(values))
    BY Zenon DEF ApplyOk
<1>4. ValueSeq(Front(values))
    BY <1>2, ValueFront
<1> DEFINE vs == Front(values)
<1>5. CASE Values(m, vs)
    <2>1. ValueSeq(vs)
        BY <1>4
    <2> HIDE DEF vs
    <2> QED
        BY <1>2, <1>5, <2>1, ValuesStep
<1> QED
    BY <1>3, <1>5, StopStep

\* Making a node keeps the invariant.
LEMMA NodeStep == ASSUME IInv, NEW m \in Module, ApplyNodeCtor(m) PROVE IInv'
<1> DEFINE values == Front(worker[m].value_stack)
<1>1. PICK v \in DOMAIN node_ctor :
        LET ctor == node_ctor[v]
            n == Len(values) - ctor.input_arity
        IN  /\ Applies(m, v)
            /\ IF \/ ctor.input_arity + ctor.output_arity > NODE_MAX_ARITY
                  \/ n < 0
                  \/ \E i \in ctor.principal \intersect 1 .. ctor.input_arity :
                        values[n + i] # Wire
               THEN Stop("abort")
               ELSE Values(m, SubSeq(values, 1, n)
                              \o [i \in 1 .. ctor.output_arity |-> Wire])
    BY Zenon DEF ApplyNodeCtor
<1> DEFINE k == node_ctor[v].input_arity
           l == node_ctor[v].output_arity
           n == Len(values) - k
           wires == [i \in 1 .. l |-> Wire]
           vs == SubSeq(values, 1, n) \o wires
<1>2. Stop("abort") \/ (~(n < 0) /\ Values(m, vs))
    BY <1>1, Zenon
<1>3. /\ InStep(m) /\ ~Finished(Top(m)) /\ Fetch(m).op = "apply" /\ ValueSeq(values)
    BY <1>1, AppliedIs, Zenon
<1>4. k \in Nat /\ l \in Nat
    BY DEF IInv, NodesFit
<1>5. CASE ~(n < 0) /\ Values(m, vs)
    <2> HIDE DEF k, l
    <2>1. Len(values) \in Nat
        BY <1>3, ValuesAreSeq
    <2>2. n \in Int /\ n <= Len(values) /\ 1 \in Int /\ 1 <= 1
        BY <1>4, <2>1
    <2>3. ValueSeq(SubSeq(values, 1, n))
        <3> HIDE DEF values, n
        <3> QED
            BY <1>3, <2>2, ValueSub
    <2>4. ValueSeq(wires)
        <3>1. IsValue(Wire)
            BY DEF IsValue, Wire
        <3> QED
            BY <1>4, <3>1, SameValues
    <2>5. ValueSeq(vs)
        <3> HIDE DEF n, wires, values
        <3> QED
            BY <2>3, <2>4, ValueConcat
    <2> HIDE DEF vs
    <2> QED
        BY <1>3, <1>5, <2>5, ValuesStep
<1> QED
    BY <1>2, <1>5, StopStep

-----------------------------------------------------------------------------
(* The words that take tokens.                                             *)

\* A word that takes tokens leaves a worker whose stack is that after the opcode.
LEMMA TokensTaken ==
    ASSUME IInv, NEW m \in Module, NEW v, Applies(m, v), NEW tl, IsSeq(tl),
           NEW self1, self1 = [worker[m] EXCEPT !.token_list = tl, !.return_stack = Left(m),
                                                !.value_stack = Front(worker[m].value_stack)]
    PROVE  Turns(worker[m], self1, Left(m)) /\ self1.import = worker[m].import
<1> DEFINE self == worker[m]
           vs == Front(self.value_stack)
<1>1. ValueSeq(vs) /\ IsWorker(self)
    BY AppliedIs, WorkerIs
<1> HIDE DEF vs
<1>2. PICK A, B, C, D : self \in [token_list : A, value_stack : B, return_stack : C, import : D]
    BY <1>1 DEF IsWorker
<1>3. /\ self1 \in [token_list : {tl}, value_stack : {vs}, return_stack : {Left(m)}, import : D]
      /\ self1.token_list = tl /\ self1.value_stack = vs
      /\ self1.return_stack = Left(m) /\ self1.import = self.import
    BY <1>2 DEF vs
<1>4. IsWorker(self1)
    BY <1>3, Zenon DEF IsWorker
<1> QED
    BY <1>1, <1>3, <1>4 DEF Turns

\* A word that takes tokens, and may add functions, names and constructors, keeps
\* the invariant.
LEMMA WordStep ==
    ASSUME IInv, NEW m \in Module, NEW v, Applies(m, v), NEW tl, IsSeq(tl),
           worker' = [worker EXCEPT ![m] = [worker[m] EXCEPT !.token_list = tl,
                         !.return_stack = Left(m), !.value_stack = Front(worker[m].value_stack)]],
           frames' = Advanced(m), FunctionsFit(functions'),
           \A n \in Module : Keeps(functions, functions', n),
           NamesFit(value_hash'), NodesFit(node_ctor'), loading' = loading
    PROVE  IInv'
<1> DEFINE self1 == [worker[m] EXCEPT !.token_list = tl, !.return_stack = Left(m),
                                      !.value_stack = Front(worker[m].value_stack)]
<1>1. Turns(worker[m], self1, Left(m)) /\ self1.import = worker[m].import
    BY TokensTaken
<1>2. worker' = [worker EXCEPT ![m] = self1]
    OBVIOUS
<1> HIDE DEF self1
<1>3. InStep(m) /\ ~Finished(Top(m)) /\ Fetch(m).op = "apply"
    BY AppliedIs
<1>4. StepsTo(m, Advanced(m))
    BY <1>3, AdvancedSteps
<1>5. Ownership([worker EXCEPT ![m] = self1], Advanced(m), functions')
    BY <1>1, <1>3, <1>4, Moves
<1>6. Ownership(worker', frames', functions')
    BY <1>2, <1>5, Zenon
<1>7. LoadsFit(loading, worker) /\ DOMAIN worker = Module
    BY DEF IInv, Ownership
<1>8. LoadsFit(loading, [worker EXCEPT ![m] = self1])
    BY <1>1, <1>7, LoadsSame
<1>9. LoadsFit(loading', worker')
    BY <1>2, <1>8, Zenon
<1> QED
    BY <1>6, <1>9 DEF IInv

\* A value can get a name.
LEMMA NewName ==
    ASSUME NEW names, NamesFit(names), NEW m \in Module, NEW name, NEW v, IsValue(v)
    PROVE  NamesFit([names EXCEPT ![m] = With(names[m], name, v)])
<1> DEFINE d == With(names[m], name, v)
           names1 == [names EXCEPT ![m] = d]
<1>1. AreValues(names[m]) /\ DOMAIN names = Module
    BY DEF NamesFit
<1>2. AreValues(d)
    BY <1>1 DEF AreValues, With
<1> HIDE DEF d
<1>3. DOMAIN names1 = Module /\ names1[m] = d /\ \A n \in Module : n # m => names1[n] = names[n]
    BY <1>1
<1> HIDE DEF names1
<1>4. NamesFit(names1)
    BY <1>2, <1>3 DEF NamesFit
<1> QED
    BY <1>4 DEF names1, d

\* The tokens after the first are a list of tokens.
LEMMA RestIs ==
    ASSUME NEW s, IsSeq(s), s # <<>>
    PROVE  IsSeq(Tail(s))
<1>1. PICK S : s \in Seq(S)
    BY DEF IsSeq
<1>2. Tail(s) \in Seq(S)
    BY <1>1
<1> QED
    BY <1>2, SeqIs

\* define keeps the invariant.
LEMMA DefineStep == ASSUME IInv, NEW m \in Module, ApplyDefine(m) PROVE IInv'
<1> DEFINE self == worker[m]
           name == Head(self.token_list).string
           rest == Tail(self.token_list)
           c == compile_function(value_hash[m], rest)
           v == Function(m, name)
<1>1. Applies(m, Primitive("define"))
    BY DEF ApplyDefine
<1>2. \/ Stop("abort") \/ Stop(c.status)
      \/ /\ self.token_list # <<>> /\ c.status = "running"
         /\ functions' = With(functions, v, c.opcodes)
         /\ value_hash' = [value_hash EXCEPT ![m] = With(value_hash[m], name, v)]
         /\ frames' = Advanced(m)
         /\ worker' = [worker EXCEPT ![m] = [worker[m] EXCEPT !.token_list = c.tokens,
                         !.return_stack = Left(m), !.value_stack = Front(worker[m].value_stack)]]
         /\ UNCHANGED <<loading, node_ctor>>
    BY DEF ApplyDefine, InForce, Become
<1>3. CASE /\ self.token_list # <<>> /\ c.status = "running"
           /\ functions' = With(functions, v, c.opcodes)
           /\ value_hash' = [value_hash EXCEPT ![m] = With(value_hash[m], name, v)]
           /\ frames' = Advanced(m)
           /\ worker' = [worker EXCEPT ![m] = [worker[m] EXCEPT !.token_list = c.tokens,
                           !.return_stack = Left(m), !.value_stack = Front(worker[m].value_stack)]]
           /\ UNCHANGED <<loading, node_ctor>>
    <2>1. IsSeq(self.token_list) /\ FunctionsFit(functions) /\ AreValues(value_hash[m])
        BY WorkerIs
    <2>2. IsSeq(rest)
        BY <1>3, <2>1, RestIs
    <2>3. c = compile_function(value_hash[m], rest)
        OBVIOUS
    <2> HIDE DEF rest, c
    <2>4. Compiled(c.opcodes) /\ IsSeq(c.tokens)
        BY <1>3, <2>1, <2>2, <2>3, FunctionFits
    <2>5. v[1] = "function"
        BY DEF Function
    <2> HIDE DEF v, name
    <2>6. /\ FunctionsFit(With(functions, v, c.opcodes))
          /\ \A n \in Module : Keeps(functions, With(functions, v, c.opcodes), n)
        BY <2>1, <2>4, <2>5, WithFits
    <2>7. NamesFit(value_hash')
        <3>1. IsValue(v)
            BY <2>5 DEF IsValue
        <3>2. NamesFit([value_hash EXCEPT ![m] = With(value_hash[m], name, v)])
            BY <3>1, NewName DEF IInv
        <3> QED
            BY <1>3, <3>2, Zenon
    <2>8. NodesFit(node_ctor')
        BY <1>3 DEF IInv
    <2>9. /\ FunctionsFit(functions') /\ \A n \in Module : Keeps(functions, functions', n)
          /\ loading' = loading /\ frames' = Advanced(m)
          /\ worker' = [worker EXCEPT ![m] = [worker[m] EXCEPT !.token_list = c.tokens,
                         !.return_stack = Left(m), !.value_stack = Front(worker[m].value_stack)]]
        BY <1>3, <2>6, Zenon
    <2> QED
        BY <1>1, <2>4, <2>7, <2>8, <2>9, WordStep
<1> HIDE DEF c
<1> QED
    BY <1>2, <1>3, StopStep

\* The arities that NodePorts counts are numbers.
LEMMA PortsFit ==
    ASSUME NEW names, IsSeq(names)
    PROVE  \E P, R : NodePorts(names)
                        \in [input_arity : Nat, output_arity : Nat, principal : P, rule_array : R]
<1> DEFINE dashes == SelectInSeq(names, LAMBDA x : x = "--")
           ports == SelectSeq(names, LAMBDA x : x # "--")
           inputs == IF dashes = 0 THEN Len(names) ELSE dashes - 1
           outputs == {i \in DOMAIN names : dashes \in 1 .. i /\ names[i] # "--"}
           principal == {i \in DOMAIN ports : ports[i] \in PrincipalName}
           I == {i \in 1 .. Len(names) : names[i] = "--"}
<1>1. NodePorts(names) = [input_arity |-> inputs, output_arity |-> Cardinality(outputs),
                          principal |-> principal, rule_array |-> <<>>]
    BY DEF NodePorts
<1>2. Len(names) \in Nat /\ DOMAIN names = 1 .. Len(names)
    BY DEF IsSeq
<1>3. dashes = IF I # {} THEN Min(I) ELSE 0
    BY DEF SelectInSeq
<1>4. I \subseteq Nat /\ \A i \in I : i \in 1 .. Len(names)
    OBVIOUS
<1> HIDE DEF principal, ports, outputs, dashes, I
<1>5. dashes \in 0 .. Len(names)
    <2>1. I # {} => Min(I) \in 1 .. Len(names)
        BY <1>4, LeastOf
    <2> QED
        BY <1>2, <1>3, <2>1
<1>6. inputs \in Nat
    BY <1>2, <1>5
<1>7. Cardinality(outputs) \in Nat
    <2>1. IsFiniteSet(1 .. Len(names))
        BY <1>2, FS_Interval
    <2>2. outputs \subseteq 1 .. Len(names)
        BY <1>2 DEF outputs
    <2> QED
        BY <2>1, <2>2, FS_Subset, FS_CardinalityType
<1> HIDE DEF inputs
<1> DEFINE P == {principal}
           R == {<<>>}
           out == Cardinality(outputs)
<1> HIDE DEF out
<1>8. NodePorts(names) \in [input_arity : Nat, output_arity : Nat, principal : P, rule_array : R]
    <2>1. NodePorts(names) = [input_arity |-> inputs, output_arity |-> out,
                              principal |-> principal, rule_array |-> <<>>]
        BY <1>1 DEF out
    <2>2. out \in Nat
        BY <1>7 DEF out
    <2> QED
        BY <1>6, <2>1, <2>2
<1> HIDE DEF P, R
<1> QED
    BY <1>8, Zenon

\* define-node keeps the invariant.
LEMMA DefineNodeStep == ASSUME IInv, NEW m \in Module, ApplyDefineNode(m) PROVE IInv'
<1> DEFINE tokens == worker[m].token_list
           name == Head(tokens).string
           end == SelectInSeq(Tail(tokens), LAMBDA t : t.string = "end")
           names == [i \in 1 .. end - 1 |-> tokens[i + 1].string]
           v == NodeCtor(m, name)
           tl == SubSeq(tokens, end + 2, Len(tokens))
           ports == NodePorts(names)
<1>1. Applies(m, Primitive("define-node"))
    BY DEF ApplyDefineNode
<1>2. \/ Stop("abort") \/ Stop("exit")
      \/ /\ tokens # <<>> /\ end # 0
         /\ node_ctor' = With(node_ctor, v, ports)
         /\ value_hash' = [value_hash EXCEPT ![m] = With(value_hash[m], name, v)]
         /\ frames' = Advanced(m)
         /\ worker' = [worker EXCEPT ![m] = [worker[m] EXCEPT !.token_list = tl,
                         !.return_stack = Left(m), !.value_stack = Front(worker[m].value_stack)]]
         /\ UNCHANGED <<loading, functions>>
    BY DEF ApplyDefineNode, Become
<1>3. IsSeq(tokens) /\ FunctionsFit(functions)
    BY WorkerIs
<1>4. end = PlaceOf(Tail(tokens), "end")
    BY DEF PlaceOf
<1>5. v[1] = "node-ctor"
    BY DEF NodeCtor
<1> HIDE DEF end, v, name
<1>6. CASE /\ tokens # <<>> /\ end # 0
           /\ node_ctor' = With(node_ctor, v, ports)
           /\ value_hash' = [value_hash EXCEPT ![m] = With(value_hash[m], name, v)]
           /\ frames' = Advanced(m)
           /\ worker' = [worker EXCEPT ![m] = [worker[m] EXCEPT !.token_list = tl,
                           !.return_stack = Left(m), !.value_stack = Front(worker[m].value_stack)]]
           /\ UNCHANGED <<loading, functions>>
    <2>1. end \in Nat \ {0}
        <3>1. IsSeq(Tail(tokens))
            BY <1>3, <1>6, RestIs
        <3>2. end \in 0 .. Len(Tail(tokens)) /\ Len(Tail(tokens)) \in Nat
            BY <1>4, <3>1, PlaceIs
        <3>3. end # 0
            BY <1>6
        <3> QED
            BY <3>2, <3>3
    <2>2. IsSeq(tl)
        BY <1>3, <2>1, RestOf
    <2>3. IsSeq(names)
        <3> DEFINE k == end - 1
                   S == Range(names)
        <3>1. k \in Nat
            BY <2>1
        <3>2. names \in [1 .. k -> S]
            BY DEF Range
        <3> HIDE DEF k, S, names
        <3>3. names \in Seq(S)
            BY <3>1, <3>2, SeqDef
        <3> QED
            BY <3>3, SeqIs
    <2> HIDE DEF names
    <2>4. \E P, R : ports \in [input_arity : Nat, output_arity : Nat, principal : P, rule_array : R]
        BY <2>3, PortsFit
    <2> HIDE DEF ports
    <2>5. NodesFit(node_ctor')
        <3>1. NodesFit(node_ctor)
            BY DEF IInv
        <3> DEFINE ctors == With(node_ctor, v, ports)
        <3>2. ASSUME NEW x \in DOMAIN ctors
              PROVE  \E P, R : ctors[x] \in [input_arity : Nat, output_arity : Nat, principal : P, rule_array : R]
            <4>1. x \in DOMAIN node_ctor => ctors[x] = node_ctor[x]
                BY DEF With
            <4>2. x \notin DOMAIN node_ctor => ctors[x] = ports
                BY DEF With
            <4> HIDE DEF ctors
            <4> QED
                BY <2>4, <3>1, <4>1, <4>2, Zenon DEF NodesFit
        <3> HIDE DEF ctors
        <3>3. NodesFit(ctors)
            BY <3>2, Zenon DEF NodesFit
        <3> QED
            BY <1>6, <3>3, Zenon DEF ctors
    <2>6. NamesFit(value_hash')
        <3>1. IsValue(v)
            BY <1>5 DEF IsValue
        <3>2. NamesFit([value_hash EXCEPT ![m] = With(value_hash[m], name, v)])
            BY <3>1, NewName DEF IInv
        <3> QED
            BY <1>6, <3>2, Zenon
    <2> HIDE DEF tl
    <2>7. /\ FunctionsFit(functions') /\ \A n \in Module : Keeps(functions, functions', n)
          /\ loading' = loading /\ frames' = Advanced(m)
        BY <1>3, <1>6, KeepsAll
    <2>8. worker' = [worker EXCEPT ![m] = [worker[m] EXCEPT !.token_list = tl,
                         !.return_stack = Left(m), !.value_stack = Front(worker[m].value_stack)]]
        BY <1>6
    <2> QED
        BY <1>1, <2>2, <2>5, <2>6, <2>7, <2>8, WordStep
<1> QED
    BY <1>2, <1>6, StopStep

\* A rule does not change the arities of a constructor.
LEMMA RuleFits ==
    ASSUME NEW left, NEW right, NEW rule, NodesFit(node_ctor)
    PROVE  NodesFit(mod_define_rule(left, right, rule))
<1> DEFINE ctors == mod_define_rule(left, right, rule)
<1>1. ASSUME NEW x \in DOMAIN ctors
      PROVE  \E P, R : ctors[x] \in [input_arity : Nat, output_arity : Nat, principal : P, rule_array : R]
    <2>1. /\ x \in DOMAIN node_ctor
          /\ x \in {left, right} =>
                ctors[x] = [node_ctor[x] EXCEPT !.rule_array = Append(@, rule)]
          /\ x \notin {left, right} => ctors[x] = node_ctor[x]
        BY DEF mod_define_rule
    <2> HIDE DEF ctors
    <2>2. PICK P, R : node_ctor[x] \in
                [input_arity : Nat, output_arity : Nat, principal : P, rule_array : R]
        BY <2>1 DEF NodesFit
    <2>3. CASE x \notin {left, right}
        BY <2>1, <2>2, <2>3, Zenon
    <2>4. CASE x \in {left, right}
        <3> DEFINE more == Append(node_ctor[x].rule_array, rule)
                   Q == {more}
        <3>1. ctors[x] = [node_ctor[x] EXCEPT !.rule_array = more]
            BY <2>1, <2>4
        <3> HIDE DEF more
        <3>2. ctors[x] \in [input_arity : Nat, output_arity : Nat, principal : P, rule_array : Q]
            BY <2>2, <3>1
        <3> HIDE DEF Q
        <3> QED
            BY <3>2, Zenon
    <2> QED
        BY <2>3, <2>4
<1> HIDE DEF ctors
<1>2. NodesFit(ctors)
    BY <1>1, Zenon DEF NodesFit
<1> QED
    BY <1>2 DEF ctors

\* define-rule keeps the invariant.
LEMMA DefineRuleStep == ASSUME IInv, NEW m \in Module, ApplyDefineRule(m) PROVE IInv'
<1> DEFINE tokens == worker[m].token_list
           left == value_hash[m][tokens[1].string]
           right == value_hash[m][tokens[2].string]
           rest == SubSeq(tokens, 3, Len(tokens))
           c == compile_function(value_hash[m], rest)
           rule == [left |-> left, right |-> right, opcodes |-> c.opcodes]
<1>1. Applies(m, Primitive("define-rule"))
    BY DEF ApplyDefineRule
<1>2. \/ Stop("abort") \/ Stop("exit") \/ Stop(c.status)
      \/ /\ c.status = "running"
         /\ node_ctor' = mod_define_rule(left, right, rule)
         /\ frames' = Advanced(m)
         /\ worker' = [worker EXCEPT ![m] = [worker[m] EXCEPT !.token_list = c.tokens,
                         !.return_stack = Left(m), !.value_stack = Front(worker[m].value_stack)]]
         /\ UNCHANGED <<loading, functions, value_hash>>
    BY DEF ApplyDefineRule, Become, mods
<1>3. CASE /\ c.status = "running"
           /\ node_ctor' = mod_define_rule(left, right, rule)
           /\ frames' = Advanced(m)
           /\ worker' = [worker EXCEPT ![m] = [worker[m] EXCEPT !.token_list = c.tokens,
                         !.return_stack = Left(m), !.value_stack = Front(worker[m].value_stack)]]
           /\ UNCHANGED <<loading, functions, value_hash>>
    <2>1. IsSeq(tokens) /\ FunctionsFit(functions) /\ AreValues(value_hash[m])
        BY WorkerIs
    <2>2. IsSeq(rest)
        <3>1. 3 \in Nat \ {0}
            OBVIOUS
        <3> QED
            BY <2>1, <3>1, RestOf, Zenon
    <2>3. c = compile_function(value_hash[m], rest)
        OBVIOUS
    <2> HIDE DEF rest, c
    <2>4. Compiled(c.opcodes) /\ IsSeq(c.tokens)
        <3>1. c.status = "running"
            BY <1>3
        <3> QED
            BY <2>1, <2>2, <2>3, <3>1, FunctionFits, Zenon
    <2>5. NodesFit(node_ctor')
        BY <1>3, RuleFits DEF IInv
    <2>6. NamesFit(value_hash')
        BY <1>3 DEF IInv
    <2>7. /\ FunctionsFit(functions') /\ \A n \in Module : Keeps(functions, functions', n)
          /\ loading' = loading /\ frames' = Advanced(m)
          /\ worker' = [worker EXCEPT ![m] = [worker[m] EXCEPT !.token_list = c.tokens,
                         !.return_stack = Left(m), !.value_stack = Front(worker[m].value_stack)]]
        BY <1>3, <2>1, KeepsAll
    <2> QED
        BY <1>1, <2>4, <2>5, <2>6, <2>7, WordStep
<1> HIDE DEF c
<1> QED
    BY <1>2, <1>3, StopStep

-----------------------------------------------------------------------------
(* Files that import others.                                               *)

\* The names that an import brings have values.
LEMMA NamesComeOver ==
    ASSUME NamesFit(value_hash), NEW m \in Module, NEW target \in Module, NEW names,
           Imported(m, names, target) = "running"
    PROVE  NamesFit(WithNames(m, names, target))
<1> DEFINE d == [name \in DOMAIN value_hash[m] \union Range(names) |->
                    IF name \in DOMAIN value_hash[m] THEN value_hash[m][name]
                    ELSE value_hash[target][name]]
           all == WithNames(m, names, target)
<1>1. AreValues(value_hash[m]) /\ AreValues(value_hash[target]) /\ DOMAIN value_hash = Module
    BY DEF NamesFit
<1>2. \A i \in DOMAIN names : names[i] \in DOMAIN value_hash[target]
    BY DEF Imported
<1>3. \A x \in Range(names) : x \in DOMAIN value_hash[target]
    BY <1>2 DEF Range
<1>4. AreValues(d)
    <2>1. ASSUME NEW x \in DOMAIN d PROVE IsValue(d[x])
        <3>1. CASE x \in DOMAIN value_hash[m]
            BY <1>1, <3>1 DEF AreValues
        <3>2. CASE x \notin DOMAIN value_hash[m]
            BY <1>1, <1>3, <3>2 DEF AreValues
        <3> QED
            BY <3>1, <3>2
    <2> HIDE DEF d
    <2> QED
        BY <2>1 DEF AreValues
<1>5. all = [value_hash EXCEPT ![m] = d]
    BY DEF WithNames
<1> HIDE DEF d, all
<1>6. DOMAIN all = Module /\ all[m] = d /\ \A n \in Module : n # m => all[n] = value_hash[n]
    BY <1>1, <1>5
<1>7. NamesFit(all)
    BY <1>1, <1>4, <1>6 DEF NamesFit
<1> QED
    BY <1>7 DEF all

\* The file of an import has a place among the tokens.
LEMMA PathIs ==
    ASSUME NEW s, IsSeq(s), NEW path, path = SelectInSeq(s, LAMBDA t : t.kind # "generic"), path # 0
    PROVE  path \in Nat \ {0}
<1> DEFINE I == {i \in 1 .. Len(s) : s[i].kind # "generic"}
<1>1. Len(s) \in Nat
    BY DEF IsSeq
<1>2. path = IF I # {} THEN Min(I) ELSE 0
    BY DEF SelectInSeq
<1>3. I # {} => Min(I) \in I
    <2>1. I \subseteq Nat
        OBVIOUS
    <2> HIDE DEF I
    <2> QED
        BY <2>1, LeastOf
<1> QED
    BY <1>1, <1>2, <1>3

\* The worker keeps g, or no frame, for the import that it waits for.
Keeping(self, self1, g) ==
    /\ IsWorker(self1) /\ self1.token_list = self.token_list
    /\ self1.value_stack = self.value_stack /\ self1.return_stack = self.return_stack
    /\ self1.import.frame = g

\* A worker fits when it keeps a frame for an import, and when it gives it back.
LEMMA KeepingFits ==
    ASSUME NEW m, NEW self, NEW fs, NEW fns, WorkerFits(m, self, fs, fns),
           NEW g \in FrameId \union {NoFrame}, g \notin Range(self.return_stack),
           NEW self1, Keeping(self, self1, g),
           NEW fs1, \A f \in Range(self.return_stack) : fs1[f] = fs[f],
           g # NoFrame => FrameFits(m, fs1[g], fns)
    PROVE  /\ WorkerFits(m, self1, fs1, fns)
           /\ Held(self1) = Range(self.return_stack) \union ({g} \ {NoFrame})
<1> DEFINE rs == self.return_stack
<1>1. HoldsFrames(m, self, fs, fns) /\ IsStack(rs)
    BY DEF WorkerFits, HoldsFrames
<1>2. /\ self1.return_stack = rs /\ self1.value_stack = self.value_stack
      /\ self1.token_list = self.token_list /\ self1.import.frame = g /\ IsWorker(self1)
    BY DEF Keeping
<1>3. Held(self1) = Range(rs) \union ({g} \ {NoFrame})
    BY <1>2 DEF Held
<1>4. ASSUME NEW f \in Held(self1) PROVE FrameFits(m, fs1[f], fns)
    <2>1. CASE f \in Range(rs)
        BY <1>1, <2>1 DEF HoldsFrames, Held
    <2>2. CASE f = g /\ g # NoFrame
        BY <2>2
    <2> QED
        BY <1>3, <2>1, <2>2
<1>5. HoldsFrames(m, self1, fs1, fns)
    <2>1. /\ IsSeq(self.token_list) /\ ValueSeq(self.value_stack)
          /\ rs # <<>> => Scratch(m) \in DOMAIN fns
        BY <1>1 DEF HoldsFrames
    <2> HIDE DEF rs
    <2>2. g \notin Range(rs) /\ g \in FrameId \union {NoFrame}
        BY DEF rs
    <2>3. /\ IsSeq(self1.token_list) /\ ValueSeq(self1.value_stack) /\ IsStack(self1.return_stack)
          /\ self1.return_stack # <<>> => Scratch(m) \in DOMAIN fns
          /\ self1.import.frame \in FrameId \union {NoFrame}
          /\ self1.import.frame \notin Range(self1.return_stack)
        BY <1>1, <1>2, <2>1, <2>2
    <2> QED
        BY <1>2, <1>4, <2>3, Zenon DEF HoldsFrames
<1>6. \A i \in 1 .. Len(rs) : fs1[rs[i]] = fs[rs[i]]
    <2>1. \A i \in 1 .. Len(rs) : rs[i] \in Range(rs)
        BY <1>1, InRange, Zenon
    <2> QED
        BY <2>1
<1>7. ASSUME NEW i \in 1 .. Len(rs), NEW fr, fr = fs1[rs[i]], NEW ops, ops = fns[fr.function]
      PROVE  IF i = Len(rs) THEN GoesOn(fr, ops, self.value_stack) ELSE Waits(fr, ops)
    <2>1. fr = fs[self.return_stack[i]]
        BY <1>6, <1>7
    <2>2. /\ i = Len(rs) => GoesOn(fr, ops, self.value_stack)
          /\ i # Len(rs) => Waits(fr, ops)
        BY <1>7, <2>1, StackFits
    <2> QED
        BY <2>2
<1>8. \A i \in 1 .. Len(self1.return_stack) :
        LET fr == fs1[self1.return_stack[i]]
        IN  IF i = Len(self1.return_stack) THEN GoesOn(fr, fns[fr.function], self1.value_stack)
            ELSE Waits(fr, fns[fr.function])
    BY <1>2, <1>7
<1> QED
    BY <1>3, <1>5, <1>8, Zenon DEF WorkerFits

\* Another file begins to be loaded, which is not being loaded yet.
LEMMA LoadsMore ==
    ASSUME NEW ld, NEW w, LoadsFit(ld, w), DOMAIN w = Module,
           Len(ld) > 0, NEW m, m = ld[Len(ld)],
           NEW target \in Module, target \notin Range(ld), NEW self1
    PROVE  LoadsFit(Append(ld, target), [w EXCEPT ![m] = self1])
<1> DEFINE k == Len(ld)
           ld1 == Append(ld, target)
           w1 == [w EXCEPT ![m] = self1]
<1>1. ld \in Seq(Module) /\ \A i, j \in 1 .. k : ld[i] = ld[j] => i = j
    BY DEF LoadsFit
<1>2. /\ k \in Nat \ {0} /\ ld1 \in Seq(Module) /\ Len(ld1) = k + 1 /\ ld1[k + 1] = target
      /\ \A i \in 1 .. k : ld1[i] = ld[i]
    BY <1>1, AppendProperties
<1>3. \A i \in 1 .. k : ld[i] # target
    BY <1>1 DEF Range
<1>4. \A i \in 1 .. k + 1 : i \in 1 .. k \/ i = k + 1
    BY <1>2
<1>5. \A i, j \in 1 .. k + 1 : ld1[i] = ld1[j] => i = j
    <2> SUFFICES ASSUME NEW i \in 1 .. k + 1, NEW j \in 1 .. k + 1, ld1[i] = ld1[j] PROVE i = j
        OBVIOUS
    <2> HIDE DEF k, ld1
    <2> QED
        BY <1>1, <1>2, <1>3, <1>4
<1>6. \A n \in Module : n # m => w1[n] = w[n]
    OBVIOUS
<1> HIDE DEF w1, ld1
<1>7. k \in 1 .. k /\ \A i \in 1 .. k - 1 : i \in 1 .. k
    BY <1>2
<1>8. ASSUME NEW n \in Module, w1[n].import # NotImporting
      PROVE  \E i \in 1 .. k : ld1[i] = n
    <2>1. CASE n = m
        BY <1>2, <1>7, <2>1
    <2>2. CASE n # m
        <3>1. w[n].import # NotImporting
            BY <1>6, <1>8, <2>2
        <3>2. PICK i \in 1 .. k - 1 : ld[i] = n
            BY <3>1 DEF LoadsFit
        <3> QED
            BY <1>2, <1>7, <3>2
    <2> QED
        BY <2>1, <2>2
<1>9. Len(ld1) - 1 = k
    BY <1>2
<1>10. LoadsFit(ld1, w1)
    BY <1>2, <1>5, <1>8, <1>9 DEF LoadsFit
<1> QED
    BY <1>10 DEF ld1, w1

\* The innermost load ends, and the one that asked for it goes on.
LEMMA LoadsLess ==
    ASSUME NEW ld, NEW w, LoadsFit(ld, w), DOMAIN w = Module, Len(ld) > 1,
           NEW m, m = ld[Len(ld) - 1], NEW self1, self1.import = NotImporting
    PROVE  LoadsFit(Front(ld), [w EXCEPT ![m] = self1])
<1> DEFINE k == Len(ld) - 1
           ld1 == Front(ld)
           w1 == [w EXCEPT ![m] = self1]
<1>1. ld \in Seq(Module) /\ \A i, j \in 1 .. Len(ld) : ld[i] = ld[j] => i = j
    BY DEF LoadsFit
<1>2. k \in Nat \ {0} /\ Len(ld) = k + 1
    BY <1>1
<1>3. /\ ld1 \in Seq(Module) /\ Len(ld1) = k
      /\ \A i \in 1 .. k : ld1[i] = ld[i]
    <2>1. ld1 = SubSeq(ld, 1, k)
        BY DEF Front
    <2> HIDE DEF ld1, k
    <2>2. k <= Len(ld) /\ 1 <= k
        BY <1>2
    <2> QED
        BY <1>1, <1>2, <2>1, <2>2, SubSeqProperties
<1>4. \A i \in 1 .. k : i \in 1 .. Len(ld)
    BY <1>2
<1>5. \A i, j \in 1 .. k : ld1[i] = ld1[j] => i = j
    <2> HIDE DEF k, ld1
    <2> QED
        BY <1>1, <1>3, <1>4, Zenon
<1>6. \A n \in Module : n # m => w1[n] = w[n]
    OBVIOUS
<1>7. m \in Module => w1[m].import = NotImporting
    <2>1. m \in Module => w1[m] = self1
        OBVIOUS
    <2> HIDE DEF w1
    <2> QED
        BY <2>1
<1>8. \A i \in 1 .. k : i \in 1 .. k - 1 \/ i = k
    <2> HIDE DEF k
    <2> QED
        BY <1>2
<1> HIDE DEF w1, ld1
<1>9. ASSUME NEW n \in Module, w1[n].import # NotImporting
      PROVE  \E i \in 1 .. k - 1 : ld1[i] = n
    <2>1. n # m
        BY <1>7, <1>9
    <2>2. w[n].import # NotImporting
        BY <1>6, <1>9, <2>1
    <2>3. PICK i \in 1 .. k : ld[i] = n
        BY <2>2 DEF LoadsFit
    <2>4. i \in 1 .. k - 1
        BY <1>8, <2>1, <2>3
    <2>5. i \in 1 .. k
        OBVIOUS
    <2> HIDE DEF k
    <2> QED
        BY <1>3, <2>3, <2>4, <2>5, Zenon
<1>10. LoadsFit(ld1, w1)
    BY <1>3, <1>5, <1>9 DEF LoadsFit
<1> QED
    BY <1>10 DEF ld1, w1

\* The frame that an import keeps.
Kept(m) == IF IsLast(m) THEN Top(m) ELSE NoFrame

\* Where the step is while it waits for an import.
Suspended(m) == [frames EXCEPT ![Top(m)].cursor = @ + 1]

\* An import keeps the frame of its last opcode: the worker holds the same frames
\* as before.
LEMMA SuspendedFrames ==
    ASSUME IInv, NEW m \in Module, InStep(m), ~Finished(Top(m)), Fetch(m).op = "apply",
           NEW fs1, fs1 = Suspended(m), NEW rs1, rs1 = Left(m)
    PROVE  /\ DOMAIN fs1 = FrameId /\ \A f \in FrameId : f # Top(m) => fs1[f] = frames[f]
           /\ FrameFits(m, fs1[Top(m)], functions)
           /\ \A f \in Range(rs1) : fs1[f] = Advanced(m)[f]
           /\ Kept(m) \in FrameId \union {NoFrame} /\ Kept(m) \notin Range(rs1)
           /\ Range(rs1) \union ({Kept(m)} \ {NoFrame}) = Held(worker[m])
<1> DEFINE f == Top(m)
           fr1 == [frames[f] EXCEPT !.cursor = @ + 1]
           rs == worker[m].return_stack
<1>1. /\ WorkerFits(m, worker[m], frames, functions) /\ rs # <<>> /\ f = Last(rs)
      /\ worker[m].import = NotImporting /\ f \in FrameId
      /\ FrameFits(m, frames[f], functions) /\ frames[f].cursor < Len(Ops(m)) /\ Len(Ops(m)) \in Nat
      /\ Ops(m)[frames[f].cursor + 1].op # "set variable"
    BY AtStep
<1>2. DOMAIN frames = FrameId /\ IsStack(rs) /\ HoldsFrames(m, worker[m], frames, functions)
    BY WorkerIs DEF IInv, Ownership
<1>3. DOMAIN fs1 = FrameId /\ fs1[f] = fr1 /\ \A g \in FrameId : g # f => fs1[g] = frames[g]
    BY <1>1, <1>2 DEF Suspended
<1>4. FrameFits(m, fs1[f], functions)
    <2>1. RunsOn(frames[f], Ops(m))
        BY <1>1 DEF FrameFits, Ops
    <2>2. Passed(frames[f], fr1, Ops(m))
        BY <1>1, <2>1, CursorMoves
    <2> HIDE DEF fr1
    <2>3. RunsOn(fr1, functions[fr1.function]) /\ fr1.function = frames[f].function
        BY <2>2 DEF Passed, Ops
    <2> QED
        BY <1>1, <1>3, <2>3 DEF FrameFits
<1>5. Held(worker[m]) = Range(rs)
    <2>1. NotImporting.frame = NoFrame
        BY DEF NotImporting
    <2> QED
        BY <1>1, <2>1 DEF Held
<1>6. NoFrame \notin Range(rs) /\ Range(rs) \subseteq FrameId
    BY <1>2, HeldIs
<1>7. CASE IsLast(m)
    <2>1. rs1 = Front(rs) /\ Kept(m) = f
        BY <1>7 DEF Left, Kept
    <2>2. Range(rs1) = Range(rs) \ {f} /\ f \in Range(rs)
        <3>1. Range(Front(rs)) = Range(rs) \ {Last(rs)} /\ Last(rs) \in Range(rs)
            BY <1>1, <1>2, StackIs
        <3> QED
            BY <1>1, <2>1, <3>1
    <2>3. \A g \in Range(rs1) : fs1[g] = Advanced(m)[g]
        <3>1. Advanced(m) = [frames EXCEPT ![f] = FREE]
            BY <1>7 DEF Advanced
        <3>2. \A g \in FrameId : g # f => Advanced(m)[g] = frames[g]
            BY <1>2, <3>1
        <3> QED
            BY <1>3, <1>6, <2>2, <3>2
    <2>4. f \notin Range(rs1) /\ Range(rs1) \union ({f} \ {NoFrame}) = Range(rs)
        BY <1>6, <2>2
    <2>5. Range(rs1) \union ({Kept(m)} \ {NoFrame}) = Held(worker[m])
        BY <1>5, <2>1, <2>4
    <2> QED
        BY <1>1, <1>3, <1>4, <2>1, <2>3, <2>4, <2>5
<1>8. CASE ~IsLast(m)
    <2>1. rs1 = rs /\ Kept(m) = NoFrame /\ fs1 = Advanced(m)
        BY <1>8 DEF Left, Kept, Advanced, Suspended
    <2> QED
        BY <1>3, <1>4, <1>5, <1>6, <2>1
<1> QED
    BY <1>7, <1>8

\* Beginning to load another file keeps the invariant.
LEMMA SuspendStep ==
    ASSUME IInv, NEW m \in Module, NEW v, Applies(m, v), NEW tl, IsSeq(tl),
           NEW target \in Module, target \notin Range(loading), NEW import, import.frame = Kept(m),
           worker' = [worker EXCEPT ![m] =
               [worker[m] EXCEPT !.token_list = tl, !.return_stack = Left(m),
                                 !.value_stack = Front(worker[m].value_stack), !.import = import]],
           frames' = Suspended(m), loading' = Append(loading, target),
           UNCHANGED <<functions, value_hash, node_ctor>>
    PROVE  IInv'
<1> DEFINE self == worker[m]
           vs == Front(self.value_stack)
           rs1 == Left(m)
           self0 == [self EXCEPT !.token_list = tl, !.return_stack = rs1, !.value_stack = vs]
           self1 == [self EXCEPT !.token_list = tl, !.return_stack = rs1, !.value_stack = vs,
                                 !.import = import]
           fs1 == Suspended(m)
           g == Kept(m)
<1>1. InStep(m) /\ ~Finished(Top(m)) /\ Fetch(m).op = "apply" /\ Running(m)
    BY AppliedIs
<1>2. /\ DOMAIN fs1 = FrameId /\ \A f \in FrameId : f # Top(m) => fs1[f] = frames[f]
      /\ FrameFits(m, fs1[Top(m)], functions)
      /\ \A f \in Range(rs1) : fs1[f] = Advanced(m)[f]
      /\ g \in FrameId \union {NoFrame} /\ g \notin Range(rs1)
      /\ Range(rs1) \union ({g} \ {NoFrame}) = Held(self)
    BY <1>1, SuspendedFrames
<1>3. Turns(self, self0, rs1)
    BY TokensTaken
<1>4. WorkerFits(m, self0, Advanced(m), functions)
    <2> HIDE DEF self0
    <2>1. StepsTo(m, Advanced(m))
        BY <1>1, AdvancedSteps
    <2>2. HoldsFrames(m, self0, Advanced(m), functions) /\ AllWait(self0, Advanced(m), functions)
        BY <1>1, <1>3, <2>1, StepTurns
    <2> QED
        BY <2>2, AllWaitFits
<1>5. Keeping(self0, self1, g) /\ self0.return_stack = rs1
    <2>1. IsWorker(self)
        BY WorkerIs
    <2>2. PICK A, B, C, D : self \in [token_list : A, value_stack : B, return_stack : C, import : D]
        BY <2>1 DEF IsWorker
    <2> HIDE DEF vs, rs1, self, g
    <2>3. /\ self1 \in [token_list : {tl}, value_stack : {vs}, return_stack : {rs1}, import : {import}]
          /\ self1.token_list = tl /\ self1.value_stack = vs
          /\ self1.return_stack = rs1 /\ self1.import = import
          /\ self0.token_list = tl /\ self0.value_stack = vs /\ self0.return_stack = rs1
        BY <2>2
    <2> HIDE DEF self0, self1
    <2>4. IsWorker(self1)
        BY <2>3, Zenon DEF IsWorker
    <2> QED
        BY <2>3, <2>4 DEF Keeping, g
<1>6. g # NoFrame => FrameFits(m, fs1[g], functions)
    BY <1>2 DEF Kept
<1>7. worker' = [worker EXCEPT ![m] = self1] /\ frames' = fs1
    OBVIOUS
<1> HIDE DEF self0, self1, fs1, g, rs1
<1>8. WorkerFits(m, self1, fs1, functions) /\ Held(self1) = Held(self)
    <2>1. /\ g \in FrameId \union {NoFrame} /\ g \notin Range(self0.return_stack)
          /\ \A f \in Range(self0.return_stack) : fs1[f] = Advanced(m)[f]
          /\ Range(self0.return_stack) \union ({g} \ {NoFrame}) = Held(self)
        BY <1>2, <1>5
    <2>2. /\ WorkerFits(m, self1, fs1, functions)
          /\ Held(self1) = Range(self0.return_stack) \union ({g} \ {NoFrame})
        BY <1>4, <1>5, <1>6, <2>1, KeepingFits
    <2> QED
        BY <2>1, <2>2
<1>9. Changes(self, self1, frames, fs1)
    <2>1. Top(m) \in Held(self)
        BY <1>1, AtStep
    <2> HIDE DEF self
    <2> QED
        BY <1>2, <1>8, <2>1 DEF Changes
<1>10. Ownership([worker EXCEPT ![m] = self1], fs1, functions)
    BY <1>8, <1>9, KeepsAll, WorkerIs, OwnersStep DEF IInv
<1>11. Ownership(worker', frames', functions')
    BY <1>7, <1>10, Zenon
<1>12. LoadsFit(loading', worker')
    <2>1. LoadsFit(loading, worker) /\ DOMAIN worker = Module
        BY DEF IInv, Ownership
    <2>2. m = loading[Len(loading)] /\ Len(loading) > 0
        BY <1>1, RunningIs
    <2>3. LoadsFit(Append(loading, target), [worker EXCEPT ![m] = self1])
        BY <2>1, <2>2, LoadsMore
    <2> QED
        BY <1>7, <2>3, Zenon
<1>13. NamesFit(value_hash') /\ NodesFit(node_ctor')
    BY DEF IInv
<1> QED
    BY <1>11, <1>12, <1>13 DEF IInv

\* import keeps the invariant, whether the file is loaded, has to be, or fails.
LEMMA ImportStep == ASSUME IInv, NEW m \in Module, ApplyImport(m) PROVE IInv'
<1> DEFINE tokens == worker[m].token_list
           path == SelectInSeq(tokens, LAMBDA t : t.kind # "generic")
           names == [i \in 1 .. path - 1 |-> tokens[i].string]
           target == TargetOf(m, tokens[path].path)
           tl == SubSeq(tokens, path + 1, Len(tokens))
           import == [module |-> target, names |-> names,
                      frame |-> IF IsLast(m) THEN Top(m) ELSE NoFrame]
<1> DEFINE Loaded ==
            /\ target \in Module /\ path # 0 /\ Imported(m, names, target) = "running"
            /\ value_hash' = WithNames(m, names, target)
            /\ frames' = Advanced(m)
            /\ worker' = [worker EXCEPT ![m] = [worker[m] EXCEPT !.token_list = tl,
                            !.return_stack = Left(m), !.value_stack = Front(worker[m].value_stack)]]
            /\ UNCHANGED <<loading, functions, node_ctor>>
           Suspends ==
            /\ target \in Module /\ path # 0 /\ target \notin Range(loading)
            /\ loading' = Append(loading, target)
            /\ worker' = [worker EXCEPT ![m] =
                   [worker[m] EXCEPT !.token_list = tl, !.return_stack = Left(m),
                                     !.value_stack = Front(worker[m].value_stack), !.import = import]]
            /\ frames' = [frames EXCEPT ![Top(m)].cursor = @ + 1]
            /\ UNCHANGED <<functions, value_hash, node_ctor>>
<1>1. Applies(m, Primitive("import"))
    BY DEF ApplyImport
<1>2. Stop("exit") \/ Stop("overflow") \/ Stop(Imported(m, names, target)) \/ Loaded \/ Suspends
    BY DEF ApplyImport, Become
<1>3. IsSeq(tokens) /\ FunctionsFit(functions)
    BY WorkerIs
<1>4. path # 0 => IsSeq(tl)
    <2>1. path # 0 => path \in Nat \ {0}
        BY <1>3, PathIs
    <2> HIDE DEF path
    <2>2. path # 0 => path + 1 \in Nat \ {0}
        BY <2>1
    <2> QED
        BY <1>3, <2>2, RestOf
<1> HIDE DEF path, names, target, tl
<1>5. CASE Loaded
    <2>1. NamesFit(value_hash')
        BY <1>5, NamesComeOver DEF IInv
    <2>2. NodesFit(node_ctor')
        BY <1>5 DEF IInv
    <2>3. /\ FunctionsFit(functions') /\ \A n \in Module : Keeps(functions, functions', n)
          /\ loading' = loading /\ frames' = Advanced(m) /\ IsSeq(tl)
          /\ worker' = [worker EXCEPT ![m] = [worker[m] EXCEPT !.token_list = tl,
                            !.return_stack = Left(m), !.value_stack = Front(worker[m].value_stack)]]
        BY <1>3, <1>4, <1>5, KeepsAll
    <2> QED
        BY <1>1, <2>1, <2>2, <2>3, WordStep
<1>6. CASE Suspends
    <2>1. import.frame = Kept(m)
        BY DEF Kept
    <2> HIDE DEF import
    <2>2. /\ target \in Module /\ target \notin Range(loading) /\ IsSeq(tl)
          /\ worker' = [worker EXCEPT ![m] =
                 [worker[m] EXCEPT !.token_list = tl, !.return_stack = Left(m),
                                   !.value_stack = Front(worker[m].value_stack), !.import = import]]
          /\ frames' = Suspended(m) /\ loading' = Append(loading, target)
          /\ UNCHANGED <<functions, value_hash, node_ctor>>
        BY <1>4, <1>6 DEF Suspended
    <2> QED
        BY <1>1, <2>1, <2>2, SuspendStep
<1> HIDE DEF Loaded, Suspends
<1> QED
    BY <1>2, <1>5, <1>6, StopStep

\* The end of an imported file keeps the invariant.
LEMMA EndImportStep == ASSUME IInv, NEW target \in Module, EndImport(target) PROVE IInv'
<1> DEFINE m == loading[Len(loading) - 1]
           self == worker[m]
           names == self.import.names
           kept == self.import.frame
           self1 == [self EXCEPT !.import = NotImporting]
           fs1 == [f \in FrameId |-> IF f = kept THEN FREE ELSE frames[f]]
           Returns ==
            /\ Imported(m, names, target) = "running"
            /\ loading' = Front(loading)
            /\ value_hash' = WithNames(m, names, target)
            /\ frames' = fs1
            /\ worker' = [worker EXCEPT ![m] = self1]
            /\ UNCHANGED <<functions, node_ctor>>
<1>1. Len(loading) > 1
    BY DEF EndImport
<1>2. Stop(Imported(m, names, target)) \/ Returns
    BY DEF EndImport, Become
<1>3. LoadsFit(loading, worker) /\ loading \in Seq(Module) /\ DOMAIN worker = Module
    BY DEF IInv, LoadsFit, Ownership
<1>4. m \in Module
    <2>1. Len(loading) - 1 \in 1 .. Len(loading)
        BY <1>1, <1>3
    <2> QED
        BY <1>3, <2>1
<1>5. CASE Returns
    <2>1. m = loading[Len(loading) - 1]
        OBVIOUS
    <2> HIDE DEF m
    <2>2. NamesFit(value_hash')
        BY <1>4, <1>5, NamesComeOver DEF IInv
    <2>3. NodesFit(node_ctor')
        BY <1>5 DEF IInv
    <2>4. self1.import = NotImporting /\ Keeping(self, self1, NoFrame)
        <3>1. IsWorker(self)
            BY <1>4, WorkerIs
        <3>2. PICK A, B, C, D : self \in [token_list : A, value_stack : B, return_stack : C, import : D]
            BY <3>1 DEF IsWorker
        <3> DEFINE no == NotImporting
        <3> HIDE DEF no
        <3>3. /\ self1 = [self EXCEPT !.import = no]
              /\ no.frame = NoFrame
            BY DEF no, NotImporting
        <3> HIDE DEF self1, self
        <3>4. /\ self1 \in [token_list : A, value_stack : B, return_stack : C, import : {no}]
              /\ self1.token_list = self.token_list /\ self1.value_stack = self.value_stack
              /\ self1.return_stack = self.return_stack /\ self1.import = no
            BY <3>2, <3>3
        <3>5. IsWorker(self1)
            BY <3>4, Zenon DEF IsWorker
        <3> QED
            BY <3>3, <3>4, <3>5 DEF Keeping, no
    <2>5. LoadsFit(loading', worker')
        <3> HIDE DEF self1
        <3>1. LoadsFit(Front(loading), [worker EXCEPT ![m] = self1])
            BY <1>1, <1>3, <2>1, <2>4, LoadsLess
        <3> QED
            BY <1>5, <3>1, Zenon
    <2>6. /\ WorkerFits(m, self, frames, functions) /\ HoldsFrames(m, self, frames, functions)
          /\ DOMAIN frames = FrameId /\ FunctionsFit(functions)
        BY <1>4, WorkerIs DEF IInv, Ownership
    <2>7. /\ NoFrame \notin Range(self.return_stack) /\ Range(self.return_stack) \subseteq FrameId
          /\ Held(self) \subseteq FrameId /\ kept \notin Range(self.return_stack)
          /\ Held(self) = Range(self.return_stack) \union ({kept} \ {NoFrame}) /\ NoFrame \notin FrameId
        BY <2>6, HeldIs DEF HoldsFrames
    <2>8. DOMAIN fs1 = FrameId /\ \A f \in FrameId : fs1[f] = IF f = kept THEN FREE ELSE frames[f]
        OBVIOUS
    <2> HIDE DEF self1, fs1, self
    <2>9. /\ WorkerFits(m, self1, fs1, functions)
          /\ Held(self1) = Range(self.return_stack) \union ({NoFrame} \ {NoFrame})
        <3>1. NoFrame \in FrameId \union {NoFrame} /\ ~(NoFrame # NoFrame)
            OBVIOUS
        <3>2. \A f \in Range(self.return_stack) : fs1[f] = frames[f]
            BY <2>7, <2>8
        <3> QED
            BY <2>4, <2>6, <2>7, <3>1, <3>2, KeepingFits
    <2>10. Changes(self, self1, frames, fs1)
        BY <2>7, <2>8, <2>9 DEF Changes
    <2>11. Ownership([worker EXCEPT ![m] = self1], fs1, functions)
        BY <1>4, <2>6, <2>9, <2>10, KeepsAll, OwnersStep DEF IInv, self
    <2>12. Ownership(worker', frames', functions')
        BY <1>5, <2>11, Zenon
    <2> QED
        BY <2>2, <2>3, <2>5, <2>12 DEF IInv
<1> HIDE DEF Returns
<1> QED
    BY <1>2, <1>5, StopStep

\* The end of a file of the command line keeps the invariant.
LEMMA EndFileStep == ASSUME IInv, NEW m \in Module, EndFile(m) PROVE IInv'
<1>1. loading' = <<>> /\ UNCHANGED <<worker, frames, functions, value_hash, node_ctor>>
    BY DEF EndFile
<1>2. Len(loading) = 1 /\ LoadsFit(loading, worker)
    BY DEF EndFile, IInv
<1>3. \A n \in Module : worker[n].import = NotImporting
    BY <1>2 DEF LoadsFit
<1>4. LoadsFit(loading', worker')
    BY <1>1, <1>3 DEF LoadsFit
<1> QED
    BY <1>1, <1>4 DEF IInv

\* The next file of the command line keeps the invariant.
LEMMA RunStep == ASSUME IInv, RunFile PROVE IInv'
<1> DEFINE path == path_resolve(Cwd, Head(argv))
<1>1. \/ Stop("exit")
      \/ /\ path \in Module /\ loading = <<>>
         /\ loading' = IF path \in global_mod_hash THEN <<>> ELSE <<path>>
         /\ UNCHANGED <<worker, frames, functions, value_hash, node_ctor>>
    BY DEF RunFile
<1> HIDE DEF path
<1>2. CASE /\ path \in Module /\ loading = <<>>
           /\ loading' = IF path \in global_mod_hash THEN <<>> ELSE <<path>>
           /\ UNCHANGED <<worker, frames, functions, value_hash, node_ctor>>
    <2>1. LoadsFit(loading, worker)
        BY DEF IInv
    <2>2. \A n \in Module : worker[n].import = NotImporting
        BY <1>2, <2>1 DEF LoadsFit
    <2>3. loading' = <<>> \/ loading' = <<path>>
        BY <1>2
    <2>4. loading' \in Seq(Module) /\ \A i, j \in 1 .. Len(loading') : i = j
        BY <1>2, <2>3
    <2>5. LoadsFit(loading', worker')
        BY <1>2, <2>2, <2>4 DEF LoadsFit
    <2> QED
        BY <1>2, <2>5 DEF IInv
<1> QED
    BY <1>1, <1>2, StopStep

-----------------------------------------------------------------------------
(* The theorems.                                                           *)

\* The words that every module has are values.
LEMMA PreludeFits == AreValues(Prelude)
<1> DEFINE names == StackWords \union PureWords \union TokenWords \union {"ok", "true", "false"}
           value(name) == CASE name = "true"  -> Immediate(xtrue)
                            [] name = "false" -> Immediate(xfalse)
                            [] OTHER          -> Primitive(name)
<1>1. Prelude = [name \in names |-> value(name)]
    BY DEF Prelude
<1>2. ASSUME NEW name PROVE IsValue(value(name))
    <2>1. CASE name = "true"
        BY <2>1 DEF IsValue, Immediate
    <2>2. CASE name = "false"
        BY <2>2 DEF IsValue, Immediate
    <2>3. CASE name # "true" /\ name # "false"
        BY <2>3 DEF IsValue, Primitive
    <2> QED
        BY <2>1, <2>2, <2>3
<1> HIDE DEF names, value
<1> QED
    BY <1>1, <1>2 DEF AreValues

\* A worker that has not begun fits, and holds no frame.
LEMMA NewWorkerFits ==
    ASSUME NEW m \in Module, IsSeq(code[m]), NEW fs, NEW fns
    PROVE  WorkerFits(m, NewWorker(m), fs, fns) /\ Held(NewWorker(m)) = {}
           /\ NewWorker(m).import = NotImporting
<1> DEFINE self == NewWorker(m)
           A == {code[m]}
           B == {<<>>}
           D == {NotImporting}
<1>1. /\ self \in [token_list : A, value_stack : B, return_stack : B, import : D]
      /\ self.token_list = code[m] /\ self.value_stack = <<>> /\ self.return_stack = <<>>
      /\ self.import = NotImporting
    BY DEF NewWorker
<1>2. NotImporting.frame = NoFrame
    BY DEF NotImporting
<1> HIDE DEF self, A, B, D
<1>3. IsWorker(self)
    BY <1>1, Zenon DEF IsWorker
<1>4. Range(self.return_stack) = {}
    BY <1>1 DEF Range
<1>5. Held(self) = {}
    BY <1>1, <1>2, <1>4 DEF Held
<1>6. IsStack(self.return_stack)
    BY <1>1 DEF IsStack
<1>7. \A i \in 1 .. Len(self.return_stack) : FALSE
    BY <1>1
<1>8. HoldsFrames(m, self, fs, fns)
    BY <1>1, <1>2, <1>3, <1>4, <1>5, <1>6, NoValues DEF HoldsFrames
<1> QED
    BY <1>1, <1>5, <1>7, <1>8 DEF WorkerFits, self

\* The invariant holds at first.
LEMMA InitFits == Init => IInv
<1> SUFFICES ASSUME Init PROVE IInv
    OBVIOUS
<1>1. /\ code \in Texts /\ value_hash = [m \in Module |-> Prelude] /\ loading = <<>>
      /\ worker = [m \in Module |-> NewWorker(m)] /\ functions = <<>> /\ node_ctor = <<>>
      /\ frames = [f \in FrameId |-> FREE]
    BY DEF Init
<1>2. \A m \in Module : IsSeq(code[m])
    <2> SUFFICES ASSUME NEW m \in Module PROVE IsSeq(code[m])
        OBVIOUS
    <2>1. code[m] \in Seq(Range(code[m]))
        BY <1>1, TextAssumption
    <2> QED
        BY <2>1, SeqIs
<1>3. /\ DOMAIN worker = Module
      /\ \A m \in Module : worker[m] = NewWorker(m)
    BY <1>1
<1>4. \A m \in Module : /\ WorkerFits(m, worker[m], frames, functions) /\ Held(worker[m]) = {}
                        /\ worker[m].import = NotImporting
    BY <1>2, <1>3, NewWorkerFits
<1>5. DOMAIN frames = FrameId /\ \A f \in FrameId : frames[f] = FREE
    BY <1>1
<1>6. FunctionsFit(functions)
    BY <1>1 DEF FunctionsFit
<1>7. Ownership(worker, frames, functions)
    BY <1>3, <1>4, <1>5, <1>6 DEF Ownership
<1>8. LoadsFit(loading, worker)
    BY <1>1, <1>4 DEF LoadsFit
<1>9. NamesFit(value_hash)
    BY <1>1, PreludeFits DEF NamesFit
<1>10. NodesFit(node_ctor)
    BY <1>1 DEF NodesFit
<1> QED
    BY <1>7, <1>8, <1>9, <1>10 DEF IInv

\* Every step keeps the invariant.
LEMMA NextFits == IInv /\ [Next]_vars => IInv'
<1> SUFFICES ASSUME IInv, [Next]_vars PROVE IInv'
    OBVIOUS
<1>1. CASE UNCHANGED vars
    BY <1>1 DEF vars, mods, IInv
<1>2. CASE RunFile
    BY <1>2, RunStep
<1>3. CASE Ended \/ \E m \in Module : RetryString(m)
    BY <1>3 DEF Ended, RetryString, vars, mods, IInv
<1>4. ASSUME NEW m \in Module,
             ExecuteInt(m) \/ ExecuteGeneric(m) \/ EndGeneric(m) \/ EndFrame(m)
             \/ Literal(m) \/ GetVariable(m) \/ SetVariable(m)
      PROVE  IInv'
    BY <1>4, IntStep, GenericStep, EndGenericStep, EndFrameStep, LiteralStep, GetStep, SetStep
<1>5. ASSUME NEW m \in Module,
             ApplyFunction(m) \/ ApplyStackWord(m) \/ ApplyPureWord(m) \/ ApplyOk(m)
             \/ ApplyNodeCtor(m)
      PROVE  IInv'
    BY <1>5, CallStep, StackWordStep, PureWordStep, OkStep, NodeStep
<1>6. ASSUME NEW m \in Module,
             ApplyDefine(m) \/ ApplyImport(m) \/ ApplyDefineNode(m) \/ ApplyDefineRule(m)
             \/ EndImport(m) \/ EndFile(m)
      PROVE  IInv'
    BY <1>6, DefineStep, ImportStep, DefineNodeStep, DefineRuleStep, EndImportStep, EndFileStep
<1> QED
    BY <1>1, <1>2, <1>3, <1>4, <1>5, <1>6 DEF Next

\* At every time each worker's stacks, frames and functions fit, and no frame has
\* two holders, whatever the files contain.
THEOREM InterpreterInvariant == Spec => []IInv
<1>1. Init => IInv
    BY InitFits
<1>2. IInv /\ [Next]_vars => IInv'
    BY NextFits
<1> QED
    BY <1>1, <1>2, PTL DEF Spec

\* The owners of a frame are the places where a worker holds it.
LEMMA OwnersAre ==
    ASSUME IInv, NEW f \in FrameId, NEW m, NEW i
    PROVE  /\ <<m, i>> \in Owners(f) <=>
                /\ m \in Module
                /\ \/ i = 0 /\ worker[m].import.frame = f
                   \/ i \in 1 .. Len(worker[m].return_stack) /\ worker[m].return_stack[i] = f
           /\ <<m, i>> \in Owners(f) => f \in Held(worker[m])
<1>1. <<m, i>> \in Owners(f) <=>
        /\ m \in Module
        /\ i \in {j \in DOMAIN worker[m].return_stack \union {0} :
                      IF j = 0 THEN worker[m].import.frame = f
                      ELSE worker[m].return_stack[j] = f}
    BY DEF Owners
<1>2. m \in Module => IsStack(worker[m].return_stack) /\ f # NoFrame
    BY WorkerIs, FrameAssumption DEF NoFrame
<1>3. m \in Module =>
        /\ DOMAIN worker[m].return_stack = 1 .. Len(worker[m].return_stack)
        /\ Range(worker[m].return_stack) =
                {worker[m].return_stack[j] : j \in 1 .. Len(worker[m].return_stack)}
        /\ 0 \notin 1 .. Len(worker[m].return_stack)
    <2>1. ~(0 \in 1 .. Len(worker[m].return_stack)) \/ Len(worker[m].return_stack) \notin Nat
        OBVIOUS
    <2> QED
        BY <1>2, <2>1, StackIs
<1>4. <<m, i>> \in Owners(f) <=>
        /\ m \in Module
        /\ \/ i = 0 /\ worker[m].import.frame = f
           \/ i \in 1 .. Len(worker[m].return_stack) /\ worker[m].return_stack[i] = f
    BY <1>1, <1>3
<1>5. <<m, i>> \in Owners(f) => f \in Held(worker[m])
    BY <1>2, <1>3, <1>4 DEF Held
<1> QED
    BY <1>4, <1>5

\* An owner is a worker and a place of its stack.
LEMMA OwnersArePairs == ASSUME NEW f, NEW o \in Owners(f) PROVE \E m, i : o = <<m, i>>
BY DEF Owners

\* A frame that is not free has one owner.
LEMMA OneOwner ==
    ASSUME IInv, NEW f \in FrameId, frames[f] # FREE
    PROVE  Cardinality(Owners(f)) = 1
<1>1. PICK m \in Module : f \in Held(worker[m])
    BY DEF IInv, Ownership
<1> DEFINE rs == worker[m].return_stack
<1>2. IsStack(rs) /\ worker[m].import.frame \notin Range(rs)
    BY WorkerIs DEF HoldsFrames
<1>3. Range(rs) = {rs[i] : i \in 1 .. Len(rs)}
    BY <1>2, StackIs
<1>4. PICK i : <<m, i>> \in Owners(f)
    <2>1. f = worker[m].import.frame \/ f \in Range(rs)
        BY <1>1 DEF Held
    <2>2. f = worker[m].import.frame => <<m, 0>> \in Owners(f)
        BY OwnersAre
    <2>3. ASSUME f \in Range(rs) PROVE \E i : <<m, i>> \in Owners(f)
        <3>1. PICK i \in 1 .. Len(rs) : rs[i] = f
            BY <1>3, <2>3
        <3>2. <<m, i>> \in Owners(f)
            BY <3>1, OwnersAre
        <3> QED
            BY <3>2, Zenon
    <2> QED
        BY <2>1, <2>2, <2>3, Zenon
<1>5. ASSUME NEW o \in Owners(f) PROVE o = <<m, i>>
    <2>1. PICK n, j : o = <<n, j>>
        BY OwnersArePairs
    <2>2. n \in Module /\ f \in Held(worker[n])
        BY <1>5, <2>1, OwnersAre
    <2>3. n = m
        BY <1>1, <2>2 DEF IInv, Ownership
    <2>4. /\ (j = 0 /\ worker[m].import.frame = f) \/ (j \in 1 .. Len(rs) /\ rs[j] = f)
          /\ (i = 0 /\ worker[m].import.frame = f) \/ (i \in 1 .. Len(rs) /\ rs[i] = f)
        BY <1>4, <1>5, <2>1, <2>3, OwnersAre
    <2>5. \A k \in 1 .. Len(rs) : rs[k] # worker[m].import.frame
        BY <1>2, <1>3
    <2>6. \A k, l \in 1 .. Len(rs) : rs[k] = rs[l] => k = l
        BY <1>2 DEF IsStack
    <2> HIDE DEF rs
    <2>7. j = i
        BY <2>4, <2>5, <2>6
    <2> QED
        BY <2>1, <2>3, <2>7
<1>6. Owners(f) = {<<m, i>>}
    BY <1>4, <1>5
<1> QED
    BY <1>6, FS_Singleton

\* The invariant says that frames are owned as they should be.
LEMMA OwnedFits == IInv => FramesAreOwned
<1> SUFFICES ASSUME IInv, NEW f \in FrameId
             PROVE  IF frames[f] = FREE THEN Owners(f) = {}
                    ELSE /\ Cardinality(Owners(f)) = 1
                         /\ frames[f].function \in DOMAIN functions
                         /\ Finished(f)
                            \/ LET op == functions[frames[f].function][frames[f].cursor + 1]
                               IN  op.op = "get variable" => frames[f].variables[op.index] # NULL
    BY DEF FramesAreOwned
<1>1. CASE frames[f] = FREE
    <2>1. ASSUME NEW o \in Owners(f) PROVE FALSE
        <3>1. PICK n, j : o = <<n, j>>
            BY OwnersArePairs
        <3>2. n \in Module /\ f \in Held(worker[n])
            BY <2>1, <3>1, OwnersAre
        <3> QED
            BY <1>1, <3>2, HeldAreTaken DEF IInv
    <2> QED
        BY <1>1, <2>1
<1>2. CASE frames[f] # FREE
    <2> DEFINE fr == frames[f]
               ops == functions[fr.function]
               k == fr.cursor
    <2>1. PICK m \in Module : f \in Held(worker[m])
        BY <1>2 DEF IInv, Ownership
    <2>2. FrameFits(m, fr, functions) /\ FunctionsFit(functions)
        BY <2>1, HeldAreTaken DEF IInv, Ownership
    <2>3. fr.function \in DOMAIN functions /\ RunsOn(fr, ops) /\ Compiled(ops)
        BY <2>2 DEF FrameFits, FunctionsFit
    <2>4. Len(ops) \in Nat /\ k \in Nat /\ k <= Len(ops)
        <3> HIDE DEF ops, fr
        <3>1. Len(ops) \in Nat
            BY <2>3, CompiledLength
        <3> QED
            BY <2>3, <3>1 DEF RunsOn
    <2>5. ASSUME ~Finished(f), ops[k + 1].op = "get variable"
          PROVE  fr.variables[ops[k + 1].index] # NULL
        <3>1. k # Len(ops)
            BY <2>5 DEF Finished
        <3>2. k + 1 \in 1 .. Len(ops) /\ (k + 1) - 1 = k
            BY <2>4, <3>1
        <3>3. PICK i \in 1 .. (k + 1) - 1 :
                ops[i].op = "set variable" /\ ops[i].index = ops[k + 1].index
            BY <2>3, <2>5, <3>2 DEF Compiled
        <3>4. i \in 1 .. k
            BY <3>2, <3>3
        <3>5. IsValue(fr.variables[ops[i].index])
            BY <2>3, <3>3, <3>4 DEF RunsOn
        <3>6. ~IsValue(NULL)
            BY DEF IsValue, NULL
        <3> QED
            BY <3>3, <3>5, <3>6
    <2>6. Cardinality(Owners(f)) = 1
        BY <1>2, OneOwner
    <2> QED
        BY <1>2, <2>3, <2>5, <2>6
<1> QED
    BY <1>1, <1>2

\* No frame leaks, is freed twice or used after it was freed
\* (core/worker_run_until.c frees it after its last opcode), and no variable is
\* read before it was set, for every text of every file and every number of
\* frames.
THEOREM FramesHaveOneOwner == Spec => []FramesAreOwned
<1>1. IInv => FramesAreOwned
    BY OwnedFits
<1> QED
    BY <1>1, InterpreterInvariant, PTL

\* The invariant says that no frame waits with nothing left to do.
LEMMA CallsFit == IInv => TailCallsAreProper
<1> SUFFICES ASSUME IInv, NEW m \in Module, NEW i \in DOMAIN worker[m].return_stack,
                    Finished(worker[m].return_stack[i])
             PROVE  i = Len(worker[m].return_stack) /\ frames[worker[m].return_stack[i]].cursor = 0
    BY DEF TailCallsAreProper
<1> DEFINE rs == worker[m].return_stack
           fr == frames[rs[i]]
           ops == functions[fr.function]
<1>1. IsStack(rs) /\ WorkerFits(m, worker[m], frames, functions)
    BY WorkerIs
<1>2. i \in 1 .. Len(rs)
    BY <1>1, StackIs
<1>3. fr.cursor = Len(ops)
    BY DEF Finished
<1>4. ~(Len(ops) < Len(ops))
    <2>1. rs[i] \in Held(worker[m])
        <3>1. rs[i] \in Range(rs)
            BY <1>1, <1>2, StackIs
        <3> QED
            BY <3>1 DEF Held
    <2>2. Ownership(worker, frames, functions)
        BY DEF IInv
    <2>3. FrameFits(m, frames[rs[i]], functions)
        BY <2>1, <2>2, HeldAreTaken
    <2>4. Compiled(ops)
        BY <2>2, <2>3 DEF FrameFits, Ownership, FunctionsFit
    <2> HIDE DEF ops
    <2>5. Len(ops) \in Nat
        BY <2>4, CompiledLength
    <2> QED
        BY <2>5, NotLess, Zenon
<1>5. CASE i # Len(rs)
    <2>1. Waits(fr, ops)
        BY <1>1, <1>2, <1>5, StackFits, Zenon
    <2> QED
        BY <1>3, <1>4, <2>1 DEF Waits
<1>6. CASE i = Len(rs)
    <2>1. GoesOn(fr, ops, worker[m].value_stack)
        BY <1>1, <1>2, <1>6, StackFits, Zenon
    <2> QED
        BY <1>3, <1>6, <2>1 DEF GoesOn
<1> QED
    BY <1>5, <1>6

\* "proper tail-call = do not push finished frame" (core/worker_run_until.c:43):
\* a frame that waits on a return stack has an opcode left, for every text of
\* every file.
THEOREM TailCallsStayProper == Spec => []TailCallsAreProper
<1>1. IInv => TailCallsAreProper
    BY CallsFit
<1> QED
    BY <1>1, InterpreterInvariant, PTL

-----------------------------------------------------------------------------
(* The rules of the constructors.                                          *)

\* The two constructors that a rule is for.
Pair(rule) == {rule.left, rule.right}

\* No rule is for p.
NoneFor(rules, p) == \A i \in 1 .. Len(rules) : Pair(rules[i]) # p

\* rule is the first of the rules that are for p.
FirstFor(rules, p, rule) ==
    \E i \in 1 .. Len(rules) :
        rules[i] = rule /\ Pair(rule) = p /\ \A j \in 1 .. i - 1 : Pair(rules[j]) # p

\* Among rules that are not all for others there is a first one.
LEMMA SomeIsFirst ==
    ASSUME NEW rules, IsSeq(rules), NEW p, ~NoneFor(rules, p)
    PROVE  \E rule : FirstFor(rules, p, rule)
<1> DEFINE I == {i \in 1 .. Len(rules) : Pair(rules[i]) = p}
<1>1. I # {} /\ I \subseteq Nat /\ Len(rules) \in Nat
    BY LengthIs DEF NoneFor
<1>2. Min(I) \in I /\ \A j \in I : Min(I) <= j
    <2> HIDE DEF I
    <2> QED
        BY <1>1, LeastOf
<1>3. PICK i \in I : \A j \in I : i <= j
    BY <1>2
<1>4. \A j \in 1 .. i - 1 : j \in 1 .. Len(rules) /\ ~(i <= j)
    BY <1>1, <1>3
<1>5. \A j \in 1 .. i - 1 : Pair(rules[j]) # p
    BY <1>3, <1>4
<1> DEFINE rule == rules[i]
<1>6. FirstFor(rules, p, rule)
    BY <1>3, <1>5 DEF FirstFor
<1> QED
    BY <1>6, Zenon

\* A first one is the only first one, and is there.
LEMMA FirstIsOne ==
    ASSUME NEW rules, IsSeq(rules), NEW p, NEW r, FirstFor(rules, p, r)
    PROVE  ~NoneFor(rules, p) /\ \A q : FirstFor(rules, p, q) => q = r
<1>1. Len(rules) \in Nat
    BY LengthIs
<1>2. PICK i \in 1 .. Len(rules) :
        rules[i] = r /\ Pair(r) = p /\ \A j \in 1 .. i - 1 : Pair(rules[j]) # p
    BY DEF FirstFor
<1>3. ASSUME NEW q, FirstFor(rules, p, q) PROVE q = r
    <2>1. PICK k \in 1 .. Len(rules) :
            rules[k] = q /\ Pair(q) = p /\ \A j \in 1 .. k - 1 : Pair(rules[j]) # p
        BY <1>3 DEF FirstFor
    <2>2. ~(i < k) /\ ~(k < i)
        BY <1>1, <1>2, <2>1
    <2> QED
        BY <1>1, <1>2, <2>1, <2>2
<1> QED
    BY <1>2, <1>3 DEF NoneFor

\* A rule that is added comes last.
LEMMA LastIs ==
    ASSUME NEW rules, IsSeq(rules), NEW rule
    PROVE  /\ IsSeq(Append(rules, rule)) /\ Len(rules) \in Nat
           /\ Len(Append(rules, rule)) = Len(rules) + 1
           /\ Append(rules, rule)[Len(rules) + 1] = rule
           /\ \A i \in 1 .. Len(rules) : Append(rules, rule)[i] = rules[i]
<1>1. PICK S : rules \in Seq(S)
    BY DEF IsSeq
<1>2. Append(rules, rule) \in Seq(S \union {rule})
    BY <1>1
<1>3. IsSeq(Append(rules, rule))
    BY <1>2, SeqIs
<1> QED
    BY <1>1, <1>3

\* A rule that is added is the first one only if there was none.
LEMMA FirstAfter ==
    ASSUME NEW rules, IsSeq(rules), NEW rule, NEW p, NEW r
    PROVE  FirstFor(Append(rules, rule), p, r) <=>
                FirstFor(rules, p, r) \/ (r = rule /\ Pair(rule) = p /\ NoneFor(rules, p))
<1> DEFINE more == Append(rules, rule)
           n == Len(rules)
<1>2. /\ n \in Nat /\ Len(more) = n + 1 /\ more[n + 1] = rule
      /\ \A i \in 1 .. n : more[i] = rules[i]
    BY LastIs
<1> HIDE DEF more, n
<1>4. ASSUME FirstFor(more, p, r)
      PROVE  FirstFor(rules, p, r) \/ (r = rule /\ Pair(rule) = p /\ NoneFor(rules, p))
    <2>1. PICK i \in 1 .. n + 1 :
            more[i] = r /\ Pair(r) = p /\ \A j \in 1 .. i - 1 : Pair(more[j]) # p
        BY <1>2, <1>4 DEF FirstFor
    <2>2. \A j \in 1 .. i - 1 : j \in 1 .. n
        BY <1>2
    <2>3. \A j \in 1 .. i - 1 : Pair(rules[j]) # p
        BY <1>2, <2>1, <2>2
    <2>4. CASE i = n + 1
        <3>1. i - 1 = n
            BY <1>2, <2>4
        <3> QED
            BY <1>2, <2>1, <2>3, <2>4, <3>1 DEF NoneFor, n
    <2>5. CASE i # n + 1
        <3>1. i \in 1 .. n
            BY <1>2, <2>5
        <3>2. rules[i] = r
            BY <1>2, <2>1, <3>1
        <3> QED
            BY <2>1, <2>3, <3>1, <3>2 DEF FirstFor, n
    <2> QED
        BY <2>4, <2>5
<1>5. ASSUME FirstFor(rules, p, r) PROVE FirstFor(more, p, r)
    <2>1. PICK i \in 1 .. n :
            rules[i] = r /\ Pair(r) = p /\ \A j \in 1 .. i - 1 : Pair(rules[j]) # p
        BY <1>5 DEF FirstFor, n
    <2>2. i \in 1 .. Len(more) /\ \A j \in 1 .. i - 1 : j \in 1 .. n
        BY <1>2
    <2>3. more[i] = r /\ \A j \in 1 .. i - 1 : Pair(more[j]) # p
        BY <1>2, <2>1, <2>2
    <2> QED
        BY <2>1, <2>2, <2>3 DEF FirstFor
<1>6. ASSUME r = rule, Pair(rule) = p, NoneFor(rules, p) PROVE FirstFor(more, p, r)
    <2>1. n + 1 \in 1 .. Len(more) /\ (n + 1) - 1 = n
        BY <1>2
    <2>2. \A j \in 1 .. n : Pair(more[j]) # p
        BY <1>2, <1>6 DEF NoneFor, n
    <2> QED
        BY <1>2, <1>6, <2>1, <2>2 DEF FirstFor
<1> QED
    BY <1>4, <1>5, <1>6 DEF more, n

-----------------------------------------------------------------------------
(* The rule that is found.                                                 *)

\* The rule that two nodes find when the constructors are these.
FoundAmong(ctors, left, right) ==
    LET rules == ctors[left].rule_array \o ctors[right].rule_array
        i == SelectInSeq(rules, LAMBDA rule : {rule.left, rule.right} = {left, right})
    IN  IF i = 0 THEN NoRule ELSE rules[i]

\* The rule that two nodes find is the first that is for both in the rules of the
\* left one, or else in those of the right one.
LEMMA FoundIs ==
    ASSUME NEW ctors, NEW left, NEW right,
           IsSeq(ctors[left].rule_array), IsSeq(ctors[right].rule_array)
    PROVE  /\ \A r : FirstFor(ctors[left].rule_array, {left, right}, r)
                        => FoundAmong(ctors, left, right) = r
           /\ /\ NoneFor(ctors[left].rule_array, {left, right})
              /\ NoneFor(ctors[right].rule_array, {left, right})
              => FoundAmong(ctors, left, right) = NoRule
<1> DEFINE a == ctors[left].rule_array
           b == ctors[right].rule_array
           rules == a \o b
           p == {left, right}
           I == {k \in 1 .. Len(rules) : Pair(rules[k]) = p}
           i == IF I # {} THEN Min(I) ELSE 0
<1>1. FoundAmong(ctors, left, right) = IF i = 0 THEN NoRule ELSE rules[i]
    BY DEF FoundAmong, SelectInSeq, Pair
<1>2. PICK S : a \in Seq(S)
    BY DEF IsSeq
<1>3. PICK T : b \in Seq(T)
    BY DEF IsSeq
<1>4. /\ Len(a) \in Nat /\ Len(b) \in Nat /\ Len(rules) = Len(a) + Len(b)
      /\ \A k \in 1 .. Len(a) : rules[k] = a[k]
      /\ \A k \in 1 .. Len(rules) : k \notin 1 .. Len(a) => rules[k] = b[k - Len(a)]
    <2> HIDE DEF a, b, rules
    <2>1. a \in Seq(S \union T) /\ b \in Seq(S \union T)
        BY <1>2, <1>3
    <2> QED
        BY <2>1 DEF rules
<1>5. I \subseteq Nat /\ (I # {} => Min(I) \in I /\ \A k \in I : Min(I) <= k)
    <2>1. I \subseteq Nat
        <3> HIDE DEF a, b, rules, p, i
        <3>1. Len(rules) \in Nat
            BY <1>4
        <3> QED
            BY <3>1
    <2> HIDE DEF I
    <2> QED
        BY <2>1, LeastOf
<1> HIDE DEF a, b, rules, p
<1>6. ASSUME NEW r, FirstFor(a, p, r) PROVE FoundAmong(ctors, left, right) = r
    <2>1. PICK k \in 1 .. Len(a) :
            a[k] = r /\ Pair(r) = p /\ \A j \in 1 .. k - 1 : Pair(a[j]) # p
        BY <1>6 DEF FirstFor
    <2>2. k \in 1 .. Len(rules) /\ \A j \in 1 .. k - 1 : j \in 1 .. Len(a) /\ j \in 1 .. Len(rules)
        BY <1>4
    <2>3. k \in I /\ rules[k] = r
        BY <1>4, <2>1, <2>2
    <2>4. \A j \in 1 .. k - 1 : j \notin I
        BY <1>4, <2>1, <2>2
    <2>5. i \in I /\ i <= k /\ i \in 1 .. Len(rules)
        BY <1>5, <2>3
    <2>6. i = k /\ i # 0
        <3> HIDE DEF i, I
        <3> QED
            BY <2>4, <2>5, <2>2
    <2> QED
        BY <1>1, <2>3, <2>6
<1>7. ASSUME NoneFor(a, p), NoneFor(b, p) PROVE FoundAmong(ctors, left, right) = NoRule
    <2>1. ASSUME NEW k \in I PROVE FALSE
        <3>1. k \in 1 .. Len(rules) /\ Pair(rules[k]) = p
            OBVIOUS
        <3>2. CASE k \in 1 .. Len(a)
            BY <1>4, <1>7, <3>1, <3>2 DEF NoneFor
        <3>3. CASE k \notin 1 .. Len(a)
            <4>1. k - Len(a) \in 1 .. Len(b)
                BY <1>4, <3>1, <3>3
            <4> QED
                BY <1>4, <1>7, <3>1, <3>3, <4>1 DEF NoneFor
        <3> QED
            BY <3>2, <3>3
    <2>2. I = {}
        BY <2>1
    <2> QED
        BY <1>1, <2>2
<1> QED
    BY <1>6, <1>7 DEF a, b, p


-----------------------------------------------------------------------------
(* The invariant of the rules.                                             *)

\* v is the value that define-node makes.
IsNode(v) == v # NULL /\ v[1] = "node-ctor"

\* The constructors that have names are there.
NodesAreThere(names, ctors) ==
    \A m \in Module : \A name \in DOMAIN names[m] :
        is_node_ctor(names[m][name]) => names[m][name] \in DOMAIN ctors

\* The rules of every constructor are for constructors that are there.
RulesFit(ctors) ==
    \A c \in DOMAIN ctors :
        /\ IsNode(c) /\ IsSeq(ctors[c].rule_array)
        /\ \A i \in 1 .. Len(ctors[c].rule_array) :
            Pair(ctors[c].rule_array[i]) \subseteq DOMAIN ctors

\* The first rule that a constructor has for itself and another one is the other's, too.
RulesAgree(ctors) ==
    \A c, d \in DOMAIN ctors : \A r :
        FirstFor(ctors[c].rule_array, {c, d}, r) => FirstFor(ctors[d].rule_array, {c, d}, r)

\* The inductive invariant of the rules, beside IInv.
RInv ==
    /\ NodesAreThere(value_hash, node_ctor)
    /\ RulesFit(node_ctor)
    /\ RulesAgree(node_ctor)

\* A constructor with these ports has no rules.
HasNoRules(ports) == ports.rule_array = <<>>

\* A new constructor has no rules, and none is for it yet.
LEMMA NodeIsNew ==
    ASSUME NEW ctors, RulesFit(ctors), RulesAgree(ctors),
           NEW v, IsNode(v), NEW ports, HasNoRules(ports)
    PROVE  /\ RulesFit(With(ctors, v, ports)) /\ RulesAgree(With(ctors, v, ports))
           /\ DOMAIN With(ctors, v, ports) = DOMAIN ctors \union {v}
           /\ \A c \in DOMAIN ctors : With(ctors, v, ports)[c] = ctors[c]
<1> DEFINE more == With(ctors, v, ports)
<1>1. /\ DOMAIN more = DOMAIN ctors \union {v}
      /\ \A c \in DOMAIN ctors : more[c] = ctors[c]
      /\ v \notin DOMAIN ctors => more[v].rule_array = <<>>
    BY DEF With, HasNoRules
<1> HIDE DEF more
<1>2. IsSeq(<<>>) /\ Len(<<>>) = 0 /\ \A p : NoneFor(<<>>, p)
    <2>1. <<>> \in Seq({}) /\ Len(<<>>) = 0
        OBVIOUS
    <2>2. IsSeq(<<>>)
        BY <2>1, SeqIs
    <2> QED
        BY <2>1, <2>2 DEF NoneFor
<1>3. RulesFit(more)
    <2> SUFFICES ASSUME NEW c \in DOMAIN more
                 PROVE  /\ IsNode(c) /\ IsSeq(more[c].rule_array)
                        /\ \A i \in 1 .. Len(more[c].rule_array) :
                            Pair(more[c].rule_array[i]) \subseteq DOMAIN more
        BY DEF RulesFit
    <2>1. CASE c \in DOMAIN ctors
        BY <1>1, <2>1 DEF RulesFit
    <2>2. CASE c \notin DOMAIN ctors
        <3>1. c = v /\ more[c].rule_array = <<>>
            BY <1>1, <2>2
        <3>2. 1 .. Len(more[c].rule_array) = {}
            BY <1>2, <3>1
        <3> QED
            BY <1>2, <3>1, <3>2
    <2> QED
        BY <2>1, <2>2
<1>4. RulesAgree(more)
    <2> SUFFICES ASSUME NEW c \in DOMAIN more, NEW d \in DOMAIN more, NEW r,
                        FirstFor(more[c].rule_array, {c, d}, r)
                 PROVE  FirstFor(more[d].rule_array, {c, d}, r)
        BY DEF RulesAgree
    <2>1. PICK i \in 1 .. Len(more[c].rule_array) :
            more[c].rule_array[i] = r /\ Pair(r) = {c, d}
        BY DEF FirstFor
    <2>2. c \in DOMAIN ctors
        <3> SUFFICES ASSUME c \notin DOMAIN ctors PROVE FALSE
            OBVIOUS
        <3>1. more[c].rule_array = <<>>
            BY <1>1
        <3> QED
            BY <1>2, <2>1, <3>1 DEF NoneFor
    <2>3. more[c] = ctors[c]
        BY <1>1, <2>2
    <2>4. Pair(r) \subseteq DOMAIN ctors
        BY <2>1, <2>2, <2>3 DEF RulesFit
    <2>5. d \in DOMAIN ctors
        BY <2>1, <2>4
    <2> QED
        BY <1>1, <2>2, <2>3, <2>5 DEF RulesAgree
<1> QED
    BY <1>1, <1>3, <1>4 DEF more

\* mod_define_rule leaves the rule at its constructors, and nothing else.
LEMMA RuleComes ==
    ASSUME RulesFit(node_ctor), NodesFit(node_ctor),
           NEW left \in DOMAIN node_ctor, NEW right \in DOMAIN node_ctor,
           NEW rule, Pair(rule) = {left, right},
           NEW more, more = mod_define_rule(left, right, rule)
    PROVE  /\ DOMAIN more = DOMAIN node_ctor
           /\ \A c \in DOMAIN node_ctor :
                /\ c \in {left, right} => more[c].rule_array = Append(node_ctor[c].rule_array, rule)
                /\ c \notin {left, right} => more[c] = node_ctor[c]
<1>1. /\ DOMAIN more = DOMAIN node_ctor
      /\ \A c \in DOMAIN node_ctor :
            /\ c \in {left, right} => more[c] = [node_ctor[c] EXCEPT !.rule_array = Append(@, rule)]
            /\ c \notin {left, right} => more[c] = node_ctor[c]
    BY DEF mod_define_rule
<1>2. ASSUME NEW c \in DOMAIN node_ctor, c \in {left, right}
      PROVE  more[c].rule_array = Append(node_ctor[c].rule_array, rule)
    <2>1. PICK P, R : node_ctor[c] \in
                [input_arity : Nat, output_arity : Nat, principal : P, rule_array : R]
        BY DEF NodesFit
    <2> DEFINE longer == Append(node_ctor[c].rule_array, rule)
    <2>2. more[c] = [node_ctor[c] EXCEPT !.rule_array = longer]
        BY <1>1, <1>2
    <2> HIDE DEF longer
    <2>3. more[c].rule_array = longer
        BY <2>1, <2>2
    <2> QED
        BY <2>3 DEF longer
<1> QED
    BY <1>1, <1>2

\* A rule that is defined comes last at both its constructors.
LEMMA RuleIsLast ==
    ASSUME RulesFit(node_ctor), RulesAgree(node_ctor), NodesFit(node_ctor),
           NEW left \in DOMAIN node_ctor, NEW right \in DOMAIN node_ctor,
           NEW rule, Pair(rule) = {left, right},
           NEW more, more = mod_define_rule(left, right, rule)
    PROVE  RulesFit(more) /\ RulesAgree(more)
<1>1. /\ DOMAIN more = DOMAIN node_ctor
      /\ \A c \in DOMAIN node_ctor :
            /\ c \in {left, right} => more[c].rule_array = Append(node_ctor[c].rule_array, rule)
            /\ c \notin {left, right} => more[c] = node_ctor[c]
    BY RuleComes
<1>2. \A c \in DOMAIN node_ctor : IsSeq(node_ctor[c].rule_array)
    BY DEF RulesFit
<1>3. RulesFit(more)
    <2> SUFFICES ASSUME NEW c \in DOMAIN node_ctor
                 PROVE  /\ IsNode(c) /\ IsSeq(more[c].rule_array)
                        /\ \A i \in 1 .. Len(more[c].rule_array) :
                            Pair(more[c].rule_array[i]) \subseteq DOMAIN node_ctor
        BY <1>1 DEF RulesFit
    <2>1. CASE c \notin {left, right}
        BY <1>1, <2>1 DEF RulesFit
    <2>2. CASE c \in {left, right}
        <3> DEFINE rules == node_ctor[c].rule_array
                   longer == Append(rules, rule)
        <3>1. IsSeq(rules) /\ IsNode(c) /\ \A i \in 1 .. Len(rules) : Pair(rules[i]) \subseteq DOMAIN node_ctor
            BY DEF RulesFit
        <3>2. more[c].rule_array = longer
            BY <1>1, <2>2
        <3> HIDE DEF rules
        <3>3. /\ IsSeq(longer) /\ Len(longer) = Len(rules) + 1 /\ longer[Len(rules) + 1] = rule
              /\ \A i \in 1 .. Len(rules) : longer[i] = rules[i]
            <4>1. IsSeq(rules)
                BY <3>1
            <4> QED
                BY <4>1, LastIs
        <3>4. Len(rules) \in Nat
            BY <3>1, LengthIs
        <3>5. Pair(rule) \subseteq DOMAIN node_ctor
            OBVIOUS
        <3> HIDE DEF longer
        <3>6. \A i \in 1 .. Len(longer) : i \in 1 .. Len(rules) \/ i = Len(rules) + 1
            BY <3>3, <3>4
        <3>7. \A i \in 1 .. Len(longer) : Pair(longer[i]) \subseteq DOMAIN node_ctor
            BY <3>1, <3>3, <3>5, <3>6
        <3> QED
            BY <3>1, <3>2, <3>3, <3>7
    <2> QED
        BY <2>1, <2>2
<1>4. RulesAgree(more)
    <2> SUFFICES ASSUME NEW c \in DOMAIN node_ctor, NEW d \in DOMAIN node_ctor, NEW r,
                        FirstFor(more[c].rule_array, {c, d}, r)
                 PROVE  FirstFor(more[d].rule_array, {c, d}, r)
        BY <1>1 DEF RulesAgree
    <2> DEFINE a == node_ctor[c].rule_array
               b == node_ctor[d].rule_array
               p == {c, d}
    <2>1. \A q : FirstFor(a, p, q) <=> FirstFor(b, p, q)
        <3>1. {d, c} = {c, d}
            OBVIOUS
        <3> QED
            BY <3>1, Zenon DEF RulesAgree
    <2>2. IsSeq(a) /\ IsSeq(b)
        BY <1>2
    <2>3. NoneFor(a, p) => NoneFor(b, p)
        <3> HIDE DEF a, b, p
        <3> QED
            BY <2>1, <2>2, SomeIsFirst, FirstIsOne
    <2>4. c \in {left, right} => more[c].rule_array = Append(a, rule)
        BY <1>1
    <2>5. d \in {left, right} => more[d].rule_array = Append(b, rule)
        BY <1>1
    <2>6. c \notin {left, right} => more[c].rule_array = a
        BY <1>1
    <2>7. d \notin {left, right} => more[d].rule_array = b
        BY <1>1
    <2>8. Pair(rule) = p => c \in {left, right} /\ d \in {left, right}
        BY Zenon
    <2>9. FirstFor(more[c].rule_array, p, r)
        OBVIOUS
    <2> HIDE DEF a, b, p
    <2>10. FirstFor(a, p, r) \/ (r = rule /\ Pair(rule) = p /\ NoneFor(a, p))
        <3>1. CASE c \in {left, right}
            <4>1. FirstFor(Append(a, rule), p, r)
                BY <2>4, <2>9, <3>1, Zenon
            <4> QED
                BY <2>2, <4>1, FirstAfter, Zenon
        <3>2. CASE c \notin {left, right}
            BY <2>6, <2>9, <3>2, Zenon
        <3> QED
            BY <3>1, <3>2, Zenon
    <2>11. FirstFor(b, p, r) \/ (r = rule /\ Pair(rule) = p /\ NoneFor(b, p) /\ d \in {left, right})
        BY <2>1, <2>3, <2>8, <2>10
    <2>12. FirstFor(more[d].rule_array, p, r)
        <3>1. CASE d \in {left, right}
            <4>1. FirstFor(Append(b, rule), p, r)
                BY <2>2, <2>11, FirstAfter, Zenon
            <4> QED
                BY <2>5, <3>1, <4>1, Zenon
        <3>2. CASE d \notin {left, right}
            <4>1. FirstFor(b, p, r)
                BY <2>11, <3>2, Zenon
            <4> QED
                BY <2>7, <3>2, <4>1, Zenon
        <3> QED
            BY <3>1, <3>2, Zenon
    <2> QED
        BY <2>12 DEF p
<1> QED
    BY <1>3, <1>4


-----------------------------------------------------------------------------
(* What the steps do to the rules.                                         *)

\* Every constructor keeps the first rule that it has for any two, and gets one that
\* it did not have only by one more rule.
FirstStay(ctors, more) ==
    \A c \in DOMAIN ctors :
        /\ c \in DOMAIN more
        /\ \A p, r :
            /\ FirstFor(ctors[c].rule_array, p, r) => FirstFor(more[c].rule_array, p, r)
            /\ FirstFor(more[c].rule_array, p, r) =>
                FirstFor(ctors[c].rule_array, p, r) \/ r = Last(more[c].rule_array)

\* What a step does to names and constructors.
Goes == RInv' /\ FirstStay(node_ctor, node_ctor')

\* Where neither changes nothing is to show.
LEMMA NothingDefined ==
    ASSUME RInv, UNCHANGED <<value_hash, node_ctor>>
    PROVE  Goes
<1>1. value_hash' = value_hash /\ node_ctor' = node_ctor
    OBVIOUS
<1> QED
    BY <1>1 DEF Goes, RInv, FirstStay

\* A new name for what is no constructor, or one that is there.
LEMMA NewNameIsThere ==
    ASSUME NEW names, DOMAIN names = Module, NEW ctors, NodesAreThere(names, ctors),
           NEW more, DOMAIN ctors \subseteq DOMAIN more,
           NEW m \in Module, NEW name, NEW v, is_node_ctor(v) => v \in DOMAIN more
    PROVE  NodesAreThere([names EXCEPT ![m] = With(names[m], name, v)], more)
<1> DEFINE d == With(names[m], name, v)
           names1 == [names EXCEPT ![m] = d]
<1>1. \A x \in DOMAIN d : (x \in DOMAIN names[m] /\ d[x] = names[m][x]) \/ d[x] = v
    BY DEF With
<1>2. \A x \in DOMAIN d : is_node_ctor(d[x]) => d[x] \in DOMAIN more
    <2> HIDE DEF d
    <2> QED
        BY <1>1 DEF NodesAreThere
<1> HIDE DEF d
<1>3. names1[m] = d /\ \A n \in Module : n # m => names1[n] = names[n]
    OBVIOUS
<1> HIDE DEF names1
<1>4. NodesAreThere(names1, more)
    BY <1>2, <1>3 DEF NodesAreThere
<1> QED
    BY <1>4 DEF names1, d

\* define.
LEMMA DefineGoes == ASSUME IInv, RInv, NEW m \in Module, ApplyDefine(m) PROVE Goes
<1> DEFINE name == Head(worker[m].token_list).string
           v == Function(m, name)
<1>1. \/ \E how : Stop(how)
      \/ /\ value_hash' = [value_hash EXCEPT ![m] = With(value_hash[m], name, v)]
         /\ node_ctor' = node_ctor
    BY DEF ApplyDefine
<1>2. ~is_node_ctor(v)
    BY DEF is_node_ctor, Function
<1> HIDE DEF name, v
<1>3. CASE \E how : Stop(how)
    BY <1>3, NothingDefined DEF Stop, mods
<1>4. CASE /\ value_hash' = [value_hash EXCEPT ![m] = With(value_hash[m], name, v)]
           /\ node_ctor' = node_ctor
    <2>1. NodesAreThere([value_hash EXCEPT ![m] = With(value_hash[m], name, v)], node_ctor)
        BY <1>2, NewNameIsThere DEF IInv, NamesFit, RInv
    <2>2. NodesAreThere(value_hash', node_ctor')
        BY <1>4, <2>1, Zenon
    <2> QED
        BY <1>4, <2>2 DEF Goes, RInv, FirstStay
<1> QED
    BY <1>1, <1>3, <1>4

\* define-node.
LEMMA DefineNodeGoes == ASSUME IInv, RInv, NEW m \in Module, ApplyDefineNode(m) PROVE Goes
<1> DEFINE tokens == worker[m].token_list
           name == Head(tokens).string
           end == SelectInSeq(Tail(tokens), LAMBDA t : t.string = "end")
           names == [i \in 1 .. end - 1 |-> tokens[i + 1].string]
           v == NodeCtor(m, name)
           ports == NodePorts(names)
<1>1. \/ \E how : Stop(how)
      \/ /\ value_hash' = [value_hash EXCEPT ![m] = With(value_hash[m], name, v)]
         /\ node_ctor' = With(node_ctor, v, ports)
    BY DEF ApplyDefineNode
<1>2. IsNode(v)
    BY DEF IsNode, NodeCtor, NULL
<1>3. HasNoRules(ports)
    BY DEF HasNoRules, NodePorts
<1> HIDE DEF tokens, name, end, names, v, ports
<1>4. CASE \E how : Stop(how)
    BY <1>4, NothingDefined DEF Stop, mods
<1>5. CASE /\ value_hash' = [value_hash EXCEPT ![m] = With(value_hash[m], name, v)]
           /\ node_ctor' = With(node_ctor, v, ports)
    <2>1. /\ RulesFit(node_ctor') /\ RulesAgree(node_ctor')
          /\ DOMAIN node_ctor' = DOMAIN node_ctor \union {v}
          /\ \A c \in DOMAIN node_ctor : node_ctor'[c] = node_ctor[c]
        <3> DEFINE more == With(node_ctor, v, ports)
        <3>1. RulesFit(node_ctor) /\ RulesAgree(node_ctor)
            BY DEF RInv
        <3>2. node_ctor' = more
            BY <1>5
        <3>3. /\ RulesFit(more) /\ RulesAgree(more) /\ DOMAIN more = DOMAIN node_ctor \union {v}
              /\ \A c \in DOMAIN node_ctor : more[c] = node_ctor[c]
            BY <1>2, <1>3, <3>1, NodeIsNew
        <3> HIDE DEF more
        <3> QED
            BY <3>2, <3>3
    <2>2. NodesAreThere([value_hash EXCEPT ![m] = With(value_hash[m], name, v)], node_ctor')
        BY <2>1, NewNameIsThere DEF IInv, NamesFit, RInv
    <2>3. NodesAreThere(value_hash', node_ctor')
        BY <1>5, <2>2, Zenon
    <2> QED
        BY <2>1, <2>3 DEF Goes, RInv, FirstStay
<1> QED
    BY <1>1, <1>4, <1>5

\* define-rule.
LEMMA DefineRuleGoes == ASSUME IInv, RInv, NEW m \in Module, ApplyDefineRule(m) PROVE Goes
<1> DEFINE tokens == worker[m].token_list
           left == value_hash[m][tokens[1].string]
           right == value_hash[m][tokens[2].string]
           c == compile_function(value_hash[m], SubSeq(tokens, 3, Len(tokens)))
           rule == [left |-> left, right |-> right, opcodes |-> c.opcodes]
<1>1. \/ \E how : Stop(how)
      \/ /\ node_ctor' = mod_define_rule(left, right, rule) /\ value_hash' = value_hash
         /\ tokens[1].string \in DOMAIN value_hash[m] /\ is_node_ctor(left)
         /\ tokens[2].string \in DOMAIN value_hash[m] /\ is_node_ctor(right)
    BY Zenon DEF ApplyDefineRule, mods
<1>2. Pair(rule) = {left, right}
    BY DEF Pair
<1>3. CASE \E how : Stop(how)
    BY <1>3, NothingDefined DEF Stop, mods
<1>4. CASE /\ node_ctor' = mod_define_rule(left, right, rule) /\ value_hash' = value_hash
           /\ tokens[1].string \in DOMAIN value_hash[m] /\ is_node_ctor(left)
           /\ tokens[2].string \in DOMAIN value_hash[m] /\ is_node_ctor(right)
    <2>1. left \in DOMAIN node_ctor /\ right \in DOMAIN node_ctor
        <3>1. NodesAreThere(value_hash, node_ctor)
            BY DEF RInv
        <3> QED
            BY <1>4, <3>1, Zenon DEF NodesAreThere
    <2> HIDE DEF rule, c, left, right, tokens
    <2>2. RulesFit(node_ctor') /\ RulesAgree(node_ctor')
        BY <1>2, <1>4, <2>1, RuleIsLast DEF RInv, IInv
    <2>3. /\ DOMAIN node_ctor' = DOMAIN node_ctor
          /\ \A x \in DOMAIN node_ctor :
                /\ x \in {left, right} =>
                    node_ctor'[x].rule_array = Append(node_ctor[x].rule_array, rule)
                /\ x \notin {left, right} => node_ctor'[x] = node_ctor[x]
        BY <1>2, <1>4, <2>1, RuleComes DEF RInv, IInv
    <2>4. NodesAreThere(value_hash', node_ctor')
        BY <1>4, <2>3 DEF RInv, NodesAreThere
    <2>5. FirstStay(node_ctor, node_ctor')
        <3> SUFFICES ASSUME NEW x \in DOMAIN node_ctor, NEW p, NEW r
                     PROVE  /\ FirstFor(node_ctor[x].rule_array, p, r) =>
                                FirstFor(node_ctor'[x].rule_array, p, r)
                            /\ FirstFor(node_ctor'[x].rule_array, p, r) =>
                                \/ FirstFor(node_ctor[x].rule_array, p, r)
                                \/ r = Last(node_ctor'[x].rule_array)
            BY <2>3 DEF FirstStay
        <3>1. CASE x \notin {left, right}
            BY <2>3, <3>1
        <3>2. CASE x \in {left, right}
            <4> DEFINE rules == node_ctor[x].rule_array
                       longer == Append(rules, rule)
            <4>1. IsSeq(rules)
                BY DEF RInv, RulesFit
            <4>2. node_ctor'[x].rule_array = longer
                BY <2>3, <3>2
            <4> HIDE DEF rules
            <4>3. FirstFor(longer, p, r) <=>
                    FirstFor(rules, p, r) \/ (r = rule /\ Pair(rule) = p /\ NoneFor(rules, p))
                BY <4>1, FirstAfter, Zenon
            <4>4. Len(longer) = Len(rules) + 1 /\ longer[Len(rules) + 1] = rule
                BY <4>1, LastIs
            <4> HIDE DEF longer
            <4>5. Last(longer) = rule
                BY <4>4 DEF Last
            <4> QED
                BY <4>2, <4>3, <4>5 DEF rules
        <3> QED
            BY <3>1, <3>2
    <2> QED
        BY <2>2, <2>4, <2>5 DEF Goes, RInv
<1> QED
    BY <1>1, <1>3, <1>4

\* What an import brings is there.
LEMMA ImportedAreThere ==
    ASSUME IInv, RInv, NEW m \in Module, NEW target \in Module, NEW names,
           Imported(m, names, target) = "running"
    PROVE  NodesAreThere(WithNames(m, names, target), node_ctor)
<1> DEFINE d == [name \in DOMAIN value_hash[m] \union Range(names) |->
                    IF name \in DOMAIN value_hash[m] THEN value_hash[m][name]
                    ELSE value_hash[target][name]]
           all == WithNames(m, names, target)
<1>1. \A i \in DOMAIN names : names[i] \in DOMAIN value_hash[target]
    BY DEF Imported
<1>2. \A x \in Range(names) : x \in DOMAIN value_hash[target]
    BY <1>1 DEF Range
<1>3. \A x \in DOMAIN d : \E n \in Module : x \in DOMAIN value_hash[n] /\ d[x] = value_hash[n][x]
    BY <1>2
<1>4. all = [value_hash EXCEPT ![m] = d] /\ DOMAIN value_hash = Module
    BY DEF WithNames, IInv, NamesFit
<1> HIDE DEF d, all
<1>5. all[m] = d /\ \A n \in Module : n # m => all[n] = value_hash[n]
    BY <1>4
<1>6. NodesAreThere(all, node_ctor)
    BY <1>3, <1>5 DEF RInv, NodesAreThere
<1> QED
    BY <1>6 DEF all

\* import, of a file that is loaded.
LEMMA ImportGoes == ASSUME IInv, RInv, NEW m \in Module, ApplyImport(m) PROVE Goes
<1> DEFINE tokens == worker[m].token_list
           path == SelectInSeq(tokens, LAMBDA t : t.kind # "generic")
           names == [i \in 1 .. path - 1 |-> tokens[i].string]
           target == TargetOf(m, tokens[path].path)
<1>1. \/ \E how : Stop(how)
      \/ UNCHANGED <<value_hash, node_ctor>>
      \/ /\ target \in Module /\ Imported(m, names, target) = "running"
         /\ value_hash' = WithNames(m, names, target) /\ node_ctor' = node_ctor
    BY Zenon DEF ApplyImport
<1> HIDE DEF names, target
<1>2. CASE \E how : Stop(how)
    BY <1>2, NothingDefined DEF Stop, mods
<1>3. CASE /\ target \in Module /\ Imported(m, names, target) = "running"
           /\ value_hash' = WithNames(m, names, target) /\ node_ctor' = node_ctor
    BY <1>3, ImportedAreThere DEF Goes, RInv, FirstStay
<1> QED
    BY <1>1, <1>2, <1>3, NothingDefined

\* The end of an imported file.
LEMMA EndImportGoes == ASSUME IInv, RInv, NEW target \in Module, EndImport(target) PROVE Goes
<1> DEFINE m == loading[Len(loading) - 1]
           names == worker[m].import.names
<1>1. \/ \E how : Stop(how)
      \/ /\ Imported(m, names, target) = "running"
         /\ value_hash' = WithNames(m, names, target) /\ node_ctor' = node_ctor
    BY DEF EndImport
<1>2. m \in Module
    <2>1. Len(loading) > 1 /\ loading \in Seq(Module)
        BY DEF EndImport, IInv, LoadsFit
    <2>2. Len(loading) - 1 \in 1 .. Len(loading)
        BY <2>1
    <2> QED
        BY <2>1, <2>2
<1> HIDE DEF names, m
<1>3. CASE \E how : Stop(how)
    BY <1>3, NothingDefined DEF Stop, mods
<1>4. CASE /\ Imported(m, names, target) = "running"
           /\ value_hash' = WithNames(m, names, target) /\ node_ctor' = node_ctor
    BY <1>2, <1>4, ImportedAreThere DEF Goes, RInv, FirstStay
<1> QED
    BY <1>1, <1>3, <1>4

\* A step that only changes the stack, or ends the process, defines nothing.
LEMMA ValuesDefineNothing ==
    ASSUME NEW m, \/ \E vs : Values(m, vs)
                  \/ \E how : Stop(how)
                  \/ \E name, accepted, results : Replaces(m, name, accepted, results)
    PROVE  UNCHANGED <<value_hash, node_ctor>>
<1>1. ASSUME NEW vs, Values(m, vs) PROVE UNCHANGED <<value_hash, node_ctor>>
    BY <1>1, Zenon DEF Values, mods
<1>2. ASSUME NEW how, Stop(how) PROVE UNCHANGED <<value_hash, node_ctor>>
    BY <1>2 DEF Stop, mods
<1>3. ASSUME NEW name, NEW accepted, NEW results, Replaces(m, name, accepted, results)
      PROVE  UNCHANGED <<value_hash, node_ctor>>
    <2>1. (\E how : Stop(how)) \/ (\E vs : Values(m, vs))
        BY <1>3, Zenon DEF Replaces
    <2> QED
        BY <1>1, <1>2, <2>1, Zenon
<1> QED
    BY <1>1, <1>2, <1>3, Zenon

\* No other step defines anything.
LEMMA OthersDefineNothing ==
    ASSUME NEW m \in Module,
           \/ ExecuteInt(m) \/ ExecuteGeneric(m) \/ EndGeneric(m)
           \/ EndFrame(m) \/ Literal(m) \/ GetVariable(m) \/ SetVariable(m)
           \/ ApplyFunction(m) \/ ApplyStackWord(m) \/ ApplyPureWord(m) \/ ApplyOk(m)
           \/ ApplyNodeCtor(m) \/ EndFile(m)
    PROVE  UNCHANGED <<value_hash, node_ctor>>
<1>1. CASE ExecuteInt(m)
    BY <1>1 DEF ExecuteInt, mods
<1>2. CASE ExecuteGeneric(m)
    BY <1>2 DEF ExecuteGeneric, Stop, mods
<1>3. CASE EndGeneric(m)
    BY <1>3 DEF EndGeneric, mods
<1>4. CASE EndFrame(m)
    BY <1>4 DEF EndFrame, mods
<1>5. CASE Literal(m)
    BY <1>5, ValuesDefineNothing, Zenon DEF Literal
<1>6. CASE GetVariable(m)
    BY <1>6, ValuesDefineNothing, Zenon DEF GetVariable
<1>7. CASE SetVariable(m)
    BY <1>7, Zenon DEF SetVariable, Stop, mods
<1>8. CASE ApplyFunction(m)
    BY <1>8 DEF ApplyFunction, mods
<1>9. CASE ApplyStackWord(m)
    BY <1>9, ValuesDefineNothing, Zenon DEF ApplyStackWord
<1>10. CASE ApplyPureWord(m)
    BY <1>10, ValuesDefineNothing, Zenon DEF ApplyPureWord
<1>11. CASE ApplyOk(m)
    BY <1>11, ValuesDefineNothing, Zenon DEF ApplyOk
<1>12. CASE ApplyNodeCtor(m)
    BY <1>12, ValuesDefineNothing, Zenon DEF ApplyNodeCtor
<1>13. CASE EndFile(m)
    BY <1>13 DEF EndFile
<1> QED
    BY <1>1, <1>2, <1>3, <1>4, <1>5, <1>6, <1>7, <1>8, <1>9, <1>10, <1>11, <1>12, <1>13

\* Every step keeps the invariant of the rules, and every constructor its first ones.
LEMMA NextGoes == ASSUME IInv, RInv, [Next]_vars PROVE Goes
<1>1. CASE UNCHANGED vars
    BY <1>1, NothingDefined DEF vars, mods
<1>2. CASE RunFile
    <2>1. UNCHANGED <<value_hash, node_ctor>>
        BY <1>2 DEF RunFile, Stop, mods
    <2> QED
        BY <2>1, NothingDefined
<1>3. CASE Ended \/ \E m \in Module : RetryString(m)
    BY <1>3, NothingDefined DEF Ended, RetryString, vars, mods
<1>4. ASSUME NEW m \in Module,
             ApplyDefine(m) \/ ApplyImport(m) \/ ApplyDefineNode(m) \/ ApplyDefineRule(m)
             \/ EndImport(m)
      PROVE  Goes
    BY <1>4, DefineGoes, ImportGoes, DefineNodeGoes, DefineRuleGoes, EndImportGoes
<1>5. ASSUME NEW m \in Module,
             \/ ExecuteInt(m) \/ ExecuteGeneric(m) \/ EndGeneric(m)
             \/ EndFrame(m) \/ Literal(m) \/ GetVariable(m) \/ SetVariable(m)
             \/ ApplyFunction(m) \/ ApplyStackWord(m) \/ ApplyPureWord(m) \/ ApplyOk(m)
             \/ ApplyNodeCtor(m) \/ EndFile(m)
      PROVE  Goes
    BY <1>5, OthersDefineNothing, NothingDefined
<1> QED
    BY <1>1, <1>2, <1>3, <1>4, <1>5 DEF Next

\* No module has a constructor at first.
LEMMA NoRulesAtFirst == Init => RInv
<1> SUFFICES ASSUME Init PROVE RInv
    OBVIOUS
<1>1. value_hash = [m \in Module |-> Prelude] /\ node_ctor = <<>>
    BY DEF Init
<1>2. \A name \in DOMAIN Prelude : ~is_node_ctor(Prelude[name])
    <2> DEFINE names == StackWords \union PureWords \union TokenWords \union {"ok", "true", "false"}
               value(name) == CASE name = "true"  -> Immediate(xtrue)
                                [] name = "false" -> Immediate(xfalse)
                                [] OTHER          -> Primitive(name)
    <2>1. Prelude = [name \in names |-> value(name)]
        BY DEF Prelude
    <2>2. ASSUME NEW name PROVE ~is_node_ctor(value(name))
        <3>1. CASE name = "true"
            BY <3>1 DEF is_node_ctor, Immediate
        <3>2. CASE name = "false"
            BY <3>2 DEF is_node_ctor, Immediate
        <3>3. CASE name # "true" /\ name # "false"
            BY <3>3 DEF is_node_ctor, Primitive
        <3> QED
            BY <3>1, <3>2, <3>3
    <2> HIDE DEF names, value
    <2> QED
        BY <2>1, <2>2
<1>3. NodesAreThere(value_hash, node_ctor)
    BY <1>1, <1>2 DEF NodesAreThere
<1>4. DOMAIN node_ctor = {}
    BY <1>1
<1> QED
    BY <1>3, <1>4 DEF RInv, RulesFit, RulesAgree

-----------------------------------------------------------------------------
(* The theorems about rules.                                               *)

\* At every time the rules of any two constructors agree on the first one for both.
THEOREM RulesInvariant == Spec => []RInv
<1>1. Init => RInv
    BY NoRulesAtFirst
<1>2. IInv /\ RInv /\ [Next]_vars => RInv'
    BY NextGoes DEF Goes
<1> QED
    BY <1>1, <1>2, InterpreterInvariant, PTL DEF Spec

\* The rule that is found is a first one of the left constructor, or there is none at all.
LEMMA FoundAtLeft ==
    ASSUME NEW ctors, RulesFit(ctors), RulesAgree(ctors),
           NEW c \in DOMAIN ctors, NEW d \in DOMAIN ctors
    PROVE  \/ /\ FirstFor(ctors[c].rule_array, {c, d}, FoundAmong(ctors, c, d))
              /\ FirstFor(ctors[d].rule_array, {c, d}, FoundAmong(ctors, c, d))
           \/ /\ FoundAmong(ctors, c, d) = NoRule
              /\ NoneFor(ctors[c].rule_array, {c, d}) /\ NoneFor(ctors[d].rule_array, {c, d})
<1> DEFINE a == ctors[c].rule_array
           b == ctors[d].rule_array
           p == {c, d}
<1>1. IsSeq(a) /\ IsSeq(b)
    BY DEF RulesFit
<1>2. \A r : FirstFor(a, p, r) <=> FirstFor(b, p, r)
    <2>1. {d, c} = {c, d}
        OBVIOUS
    <2> QED
        BY <2>1, Zenon DEF RulesAgree
<1>3. /\ \A r : FirstFor(a, p, r) => FoundAmong(ctors, c, d) = r
      /\ NoneFor(a, p) /\ NoneFor(b, p) => FoundAmong(ctors, c, d) = NoRule
    BY <1>1, FoundIs
<1> HIDE DEF a, b, p
<1>4. CASE ~NoneFor(a, p) \/ ~NoneFor(b, p)
    <2>1. PICK r : FirstFor(a, p, r) /\ FirstFor(b, p, r)
        BY <1>1, <1>2, <1>4, SomeIsFirst
    <2> QED
        BY <1>3, <2>1 DEF a, b, p
<1>5. CASE NoneFor(a, p) /\ NoneFor(b, p)
    BY <1>3, <1>5 DEF a, b, p
<1> QED
    BY <1>4, <1>5

\* The same rule is found from either side (core/connect.c searches the rules of the
\* node on the left before those of the other), for every text of every file.
THEOREM RulesAreSymmetric == Spec => []SameRuleEitherWay
<1>1. RInv => SameRuleEitherWay
    <2> SUFFICES ASSUME RInv, NEW c \in DOMAIN node_ctor, NEW d \in DOMAIN node_ctor
                 PROVE  connect_active_pair(c, d) = connect_active_pair(d, c)
        BY DEF SameRuleEitherWay
    <2>1. /\ connect_active_pair(c, d) = FoundAmong(node_ctor, c, d)
          /\ connect_active_pair(d, c) = FoundAmong(node_ctor, d, c)
        BY DEF connect_active_pair, FoundAmong
    <2> DEFINE a == node_ctor[c].rule_array
               p == {c, d}
    <2>2. {d, c} = {c, d}
        OBVIOUS
    <2>3. /\ RulesFit(node_ctor) /\ RulesAgree(node_ctor) /\ IsSeq(a)
        BY DEF RInv, RulesFit
    <2>4. \/ FirstFor(a, p, FoundAmong(node_ctor, c, d))
          \/ FoundAmong(node_ctor, c, d) = NoRule /\ NoneFor(a, p)
        BY <2>3, FoundAtLeft
    <2>5. \/ FirstFor(a, p, FoundAmong(node_ctor, d, c))
          \/ FoundAmong(node_ctor, d, c) = NoRule /\ NoneFor(a, p)
        BY <2>2, <2>3, FoundAtLeft
    <2> HIDE DEF a, p
    <2> QED
        BY <2>1, <2>3, <2>4, <2>5, FirstIsOne
<1> QED
    BY <1>1, RulesInvariant, PTL

\* The rule that is found is the first that was defined for the two constructors, from
\* its definition on, whatever is defined or imported later (core/mod.c adds rules at
\* the end).
THEOREM FirstRulesStay == Spec => FirstRuleStays
<1>1. IInv /\ RInv /\ [Next]_vars =>
        [\A c, d \in DOMAIN node_ctor :
            IF connect_active_pair(c, d) # NoRule
            THEN connect_active_pair(c, d)' = connect_active_pair(c, d)
            ELSE connect_active_pair(c, d)' # NoRule =>
                connect_active_pair(c, d)' = Last(node_ctor'[c].rule_array)]_vars
    <2> SUFFICES ASSUME IInv, RInv, [Next]_vars,
                        NEW c \in DOMAIN node_ctor, NEW d \in DOMAIN node_ctor
                 PROVE  IF connect_active_pair(c, d) # NoRule
                        THEN connect_active_pair(c, d)' = connect_active_pair(c, d)
                        ELSE connect_active_pair(c, d)' # NoRule =>
                                connect_active_pair(c, d)' = Last(node_ctor'[c].rule_array)
        OBVIOUS
    <2>1. RInv' /\ FirstStay(node_ctor, node_ctor')
        BY NextGoes DEF Goes
    <2>2. /\ connect_active_pair(c, d) = FoundAmong(node_ctor, c, d)
          /\ connect_active_pair(c, d)' = FoundAmong(node_ctor', c, d)
        BY DEF connect_active_pair, FoundAmong, SelectInSeq
    <2> DEFINE a == node_ctor[c].rule_array
               a1 == node_ctor'[c].rule_array
               r == FoundAmong(node_ctor, c, d)
               r1 == FoundAmong(node_ctor', c, d)
               p == {c, d}
    <2>3. FirstFor(a, p, r) \/ (r = NoRule /\ NoneFor(a, p))
        BY FoundAtLeft DEF RInv
    <2>4. c \in DOMAIN node_ctor' /\ d \in DOMAIN node_ctor'
        BY <2>1 DEF FirstStay
    <2>5. FirstFor(a1, p, r1) \/ (r1 = NoRule /\ NoneFor(a1, p))
        BY <2>1, <2>4, FoundAtLeft DEF RInv
    <2>6. IsSeq(a) /\ IsSeq(a1)
        BY <2>1, <2>4 DEF RInv, RulesFit
    <2>7. /\ FirstFor(a, p, r) => FirstFor(a1, p, r)
          /\ FirstFor(a1, p, r1) => FirstFor(a, p, r1) \/ r1 = Last(a1)
        <3> HIDE DEF r, r1
        <3> QED
            BY <2>1 DEF FirstStay
    <2> HIDE DEF a, a1, r, r1, p
    <2>8. CASE FirstFor(a, p, r)
        <3>1. r1 = r
            BY <2>5, <2>6, <2>7, <2>8, FirstIsOne
        <3>2. r = NoRule => r1 = NoRule
            BY <3>1
        <3> QED
            BY <2>2, <3>1, <3>2 DEF r, r1, a1
    <2>9. CASE r = NoRule /\ NoneFor(a, p)
        <3>1. r1 # NoRule => r1 = Last(a1)
            BY <2>5, <2>6, <2>7, <2>9, FirstIsOne
        <3> QED
            BY <2>2, <2>9, <3>1 DEF r, r1, a1
    <2> QED
        BY <2>3, <2>8, <2>9
<1> QED
    BY <1>1, InterpreterInvariant, RulesInvariant, PTL DEF Spec, FirstRuleStays

=============================================================================
