------------------------- MODULE InetRuntimeProofs -------------------------
(***************************************************************************)
(* The inductive invariant of InetRuntime, that every step of it keeps it, *)
(* and the theorems that follow.  They hold for every number of workers,   *)
(* constructors, rules and sizes of the heap, and for every program that   *)
(* uses what it puts into a local variable once and has one principal port *)
(* per node, which the language does not enforce.                          *)
(*                                                                         *)
(* First of all: how many references there are to a value of the net,      *)
(* place by place.  That is said of given stacks, nodes and wires, so that *)
(* it holds before and after steps.  Then the invariant, what follows from *)
(* it, that it holds at the beginning, and the steps that only their       *)
(* worker takes part in: fetching words, local variables, new wires and    *)
(* new nodes.  Then the steps that several workers can reach at the same   *)
(* time: filling ports, connecting, disconnecting.                         *)
(*                                                                         *)
(* The last part is about the discipline of NetKinds: a second invariant,  *)
(* on top of the first, says what is a number and what a value of the net  *)
(* in stacks, variables, ports and wires, and every step keeps it too.     *)
(***************************************************************************)
EXTENDS NetKinds, FiniteSetTheorems, SequenceTheorems, WellFoundedInduction, TLAPS

-----------------------------------------------------------------------------
(* Counting references.                                                    *)

\* One if it is v that is there, and none otherwise.
OneIf(u, v) == IF u = v THEN 1 ELSE 0

\* How often v is among the values of function or sequence f.
Count(f, v) == Cardinality({i \in DOMAIN f : f[i] = v})

LEMMA CountIsNat ==
    ASSUME NEW f, NEW v, IsFiniteSet(DOMAIN f)
    PROVE  /\ Count(f, v) \in Nat
           /\ IsFiniteSet({i \in DOMAIN f : f[i] = v})
<1>1. {i \in DOMAIN f : f[i] = v} \in SUBSET DOMAIN f
    OBVIOUS
<1> QED
    BY <1>1, FS_Subset, FS_CardinalityType DEF Count

\* A value that is there counts at least one, and one that counts none is not.
LEMMA CountIsPositive ==
    ASSUME NEW f, NEW i \in DOMAIN f, IsFiniteSet(DOMAIN f)
    PROVE  Count(f, f[i]) >= 1
<1> DEFINE S == {j \in DOMAIN f : f[j] = f[i]}
<1>1. IsFiniteSet(S) /\ Count(f, f[i]) = Cardinality(S) /\ Cardinality(S) \in Nat
    BY CountIsNat DEF Count
<1>2. S # {}
    OBVIOUS
<1> HIDE DEF S
<1>3. Cardinality(S) # 0
    BY <1>1, <1>2, FS_EmptySet
<1> QED
    BY <1>1, <1>3

\* g is f with one place more, or with another value at one place.
OneMore(f, g, i) ==
    /\ i \notin DOMAIN f /\ DOMAIN g = DOMAIN f \union {i}
    /\ \A j \in DOMAIN f : g[j] = f[j]
OneChanged(f, g, i) ==
    /\ i \in DOMAIN f /\ DOMAIN g = DOMAIN f
    /\ \A j \in DOMAIN f \ {i} : g[j] = f[j]

\* What follows for counts.
CountsMore(f, g, i, v) == Count(g, v) = Count(f, v) + OneIf(g[i], v)
CountsChange(f, g, i, v) == Count(g, v) = Count(f, v) - OneIf(f[i], v) + OneIf(g[i], v)

LEMMA CountMore ==
    ASSUME NEW f, NEW g, NEW i, NEW v, IsFiniteSet(DOMAIN f), OneMore(f, g, i)
    PROVE  IsFiniteSet(DOMAIN g) /\ CountsMore(f, g, i, v)
<1> USE DEF OneMore, CountsMore
<1> DEFINE S == {j \in DOMAIN f : f[j] = v}
           T == {j \in DOMAIN g : g[j] = v}
<1>1. IsFiniteSet(S) /\ Count(f, v) = Cardinality(S) /\ Count(f, v) \in Nat
    BY CountIsNat DEF Count
<1>2. IsFiniteSet(DOMAIN g)
    BY FS_AddElement
<1>3. CASE g[i] = v
    <2>1. T = S \union {i} /\ i \notin S
        BY <1>3
    <2>2. Count(g, v) = Cardinality(T)
        BY DEF Count
    <2> HIDE DEF S, T
    <2>3. Cardinality(S \union {i}) = Cardinality(S) + 1
        BY <1>1, <2>1, FS_AddElement
    <2> QED
        BY <1>1, <1>2, <1>3, <2>1, <2>2, <2>3 DEF OneIf
<1>4. CASE g[i] # v
    <2>1. T = S
        BY <1>4
    <2>2. Count(g, v) = Cardinality(T)
        BY DEF Count
    <2> HIDE DEF S, T
    <2> QED
        BY <1>1, <1>2, <1>4, <2>1, <2>2 DEF OneIf
<1> QED
    BY <1>3, <1>4

LEMMA CountAt ==
    ASSUME NEW f, NEW g, NEW i, NEW v, IsFiniteSet(DOMAIN f), OneChanged(f, g, i)
    PROVE  CountsChange(f, g, i, v)
<1> USE DEF OneChanged, CountsChange
<1> DEFINE S == {j \in DOMAIN f \ {i} : f[j] = v}
<1>1. IsFiniteSet(S) /\ i \notin S
    <2>1. S \in SUBSET DOMAIN f
        OBVIOUS
    <2> QED
        BY <2>1, FS_Subset
<1>2. Cardinality(S) \in Nat
    BY <1>1, FS_CardinalityType
<1>3. Cardinality(S \union {i}) = Cardinality(S) + 1
    BY <1>1, FS_AddElement
<1>4. Count(f, v) = Cardinality(S) + OneIf(f[i], v)
    <2>1. CASE f[i] = v
        <3>1. {j \in DOMAIN f : f[j] = v} = S \union {i}
            BY <2>1
        <3> QED
            BY <1>3, <2>1, <3>1 DEF Count, OneIf
    <2>2. CASE f[i] # v
        <3>1. {j \in DOMAIN f : f[j] = v} = S
            BY <2>2
        <3> QED
            BY <1>2, <2>2, <3>1 DEF Count, OneIf
    <2> QED
        BY <2>1, <2>2
<1>5. Count(g, v) = Cardinality(S) + OneIf(g[i], v)
    <2>1. CASE g[i] = v
        <3>1. {j \in DOMAIN g : g[j] = v} = S \union {i}
            BY <2>1
        <3> QED
            BY <1>3, <2>1, <3>1 DEF Count, OneIf
    <2>2. CASE g[i] # v
        <3>1. {j \in DOMAIN g : g[j] = v} = S
            BY <2>2
        <3> QED
            BY <1>2, <2>2, <3>1 DEF Count, OneIf
    <2> QED
        BY <2>1, <2>2
<1> HIDE DEF S
<1> QED
    BY <1>2, <1>4, <1>5 DEF OneIf

\* Sets that do not meet count what they count together.
LEMMA DisjointUnion ==
    ASSUME NEW S, NEW T, IsFiniteSet(S), IsFiniteSet(T), S \intersect T = {}
    PROVE  /\ IsFiniteSet(S \union T)
           /\ Cardinality(S \union T) = Cardinality(S) + Cardinality(T)
           /\ Cardinality(S) \in Nat /\ Cardinality(T) \in Nat
<1>1. Cardinality(S \intersect T) = 0
    BY FS_EmptySet
<1>2. Cardinality(S) \in Nat /\ Cardinality(T) \in Nat
    BY FS_CardinalityType
<1>3. /\ IsFiniteSet(S \union T)
      /\ Cardinality(S \union T) = Cardinality(S) + Cardinality(T) - Cardinality(S \intersect T)
    BY FS_Union
<1> QED
    BY <1>1, <1>2, <1>3

-----------------------------------------------------------------------------
(* Sequences.                                                              *)

LEMMA SeqIsFinite ==
    ASSUME NEW S, NEW s \in Seq(S)
    PROVE  /\ IsFiniteSet(DOMAIN s)
           /\ DOMAIN s = 1 .. Len(s)
           /\ Len(s) \in Nat
<1>1. DOMAIN s = 1 .. Len(s) /\ Len(s) \in Nat
    OBVIOUS
<1> QED
    BY <1>1, FS_Interval

LEMMA CountAppend ==
    ASSUME NEW S, NEW s \in Seq(S), NEW u \in S, NEW v
    PROVE  Count(Append(s, u), v) = Count(s, v) + OneIf(u, v)
<1> DEFINE t == Append(s, u)
           i == Len(s) + 1
<1>1. /\ t \in Seq(S) /\ Len(t) = i /\ t[i] = u
      /\ \A j \in 1 .. Len(s) : t[j] = s[j]
    OBVIOUS
<1>2. DOMAIN s = 1 .. Len(s) /\ Len(s) \in Nat /\ IsFiniteSet(DOMAIN s) /\ DOMAIN t = 1 .. i
    BY <1>1, SeqIsFinite
<1>3. OneMore(s, t, i)
    BY <1>1, <1>2 DEF OneMore
<1> HIDE DEF t, i
<1>4. CountsMore(s, t, i, v)
    BY <1>2, <1>3, CountMore
<1> QED
    BY <1>1, <1>4 DEF t, CountsMore

LEMMA PopIs ==
    ASSUME NEW S, NEW s \in Seq(S), s # <<>>
    PROVE  /\ Pop(s) \in Seq(S)
           /\ Len(Pop(s)) = Len(s) - 1
           /\ \A i \in 1 .. Len(s) - 1 : Pop(s)[i] = s[i]
           /\ Top(s) \in S
           /\ Len(s) \in Nat \ {0}
<1>1. Len(s) \in Nat \ {0} /\ DOMAIN s = 1 .. Len(s) /\ \A i \in 1 .. Len(s) : s[i] \in S
    OBVIOUS
<1>2. /\ SubSeq(s, 1, Len(s) - 1) \in Seq(S)
      /\ Len(SubSeq(s, 1, Len(s) - 1)) = IF 1 <= Len(s) - 1 THEN (Len(s) - 1) - 1 + 1 ELSE 0
      /\ \A i \in 1 .. (Len(s) - 1) - 1 + 1 : SubSeq(s, 1, Len(s) - 1)[i] = s[1 + i - 1]
    BY <1>1, SubSeqProperties
<1> QED
    BY <1>1, <1>2 DEF Pop, Top

LEMMA CountPop ==
    ASSUME NEW S, NEW s \in Seq(S), s # <<>>, NEW v
    PROVE  Count(s, v) = Count(Pop(s), v) + OneIf(Top(s), v)
<1> DEFINE t == Pop(s)
           i == Len(s)
<1>1. /\ t \in Seq(S) /\ i \in Nat \ {0} /\ Len(t) = i - 1
      /\ \A j \in 1 .. i - 1 : t[j] = s[j]
    BY PopIs
<1>2. DOMAIN t = 1 .. Len(t) /\ IsFiniteSet(DOMAIN t) /\ DOMAIN s = 1 .. i
    BY <1>1, SeqIsFinite
<1>3. OneMore(t, s, i)
    BY <1>1, <1>2 DEF OneMore
<1> HIDE DEF t, i
<1>4. CountsMore(t, s, i, v)
    BY <1>2, <1>3, CountMore
<1> QED
    BY <1>4 DEF t, i, Top, CountsMore

LEMMA CountNothing ==
    ASSUME NEW v
    PROVE  Count(<<>>, v) = 0
<1>1. {i \in DOMAIN <<>> : <<>>[i] = v} = {}
    OBVIOUS
<1> QED
    BY <1>1, FS_EmptySet DEF Count

LEMMA CountPair ==
    ASSUME NEW a, NEW b, NEW v
    PROVE  Count(<<a, b>>, v) = OneIf(a, v) + OneIf(b, v)
<1> DEFINE S == {a, b}
<1>0. <<>> \in Seq(S) /\ a \in S /\ b \in S /\ Append(<<>>, a) \in Seq(S)
    OBVIOUS
<1>1. <<a, b>> = Append(Append(<<>>, a), b)
    OBVIOUS
<1> HIDE DEF S
<1>2. Count(Append(<<>>, a), v) = Count(<<>>, v) + OneIf(a, v) /\ Count(<<>>, v) = 0
    BY <1>0, CountAppend, CountNothing
<1>3. Count(Append(Append(<<>>, a), b), v) = Count(Append(<<>>, a), v) + OneIf(b, v)
    BY <1>0, CountAppend
<1>4. Count(<<a, b>>, v) = Count(Append(Append(<<>>, a), b), v)
    BY <1>1, Zenon
<1> HIDE <1>1
<1> QED
    BY <1>2, <1>3, <1>4 DEF OneIf

\* The second sequence's places are moved behind the first's.
LEMMA CountConcat ==
    ASSUME NEW S, NEW s \in Seq(S), NEW t \in Seq(S), NEW v
    PROVE  Count(s \o t, v) = Count(s, v) + Count(t, v)
<1> DEFINE m == Len(s)
           n == Len(t)
           r == s \o t
           A == {i \in 1 .. m : s[i] = v}
           B == {i \in 1 .. n : t[i] = v}
           C == {i \in m + 1 .. m + n : r[i] = v}
           h == [i \in B |-> m + i]
<1>1. /\ m \in Nat /\ n \in Nat
      /\ DOMAIN s = 1 .. m /\ DOMAIN t = 1 .. n /\ DOMAIN r = 1 .. m + n
      /\ \A i \in 1 .. m + n : r[i] = IF i <= m THEN s[i] ELSE t[i - m]
    OBVIOUS
<1>2. Count(s, v) = Cardinality(A) /\ Count(t, v) = Cardinality(B)
    BY <1>1 DEF Count
<1>3. IsFiniteSet(A) /\ IsFiniteSet(B)
    BY <1>1, SeqIsFinite, CountIsNat
<1>4. {i \in DOMAIN r : r[i] = v} = A \union C /\ A \intersect C = {}
    BY <1>1
<1>5. h \in Bijection(B, C)
    <2> HIDE DEF r
    <2>1. \A i \in B : h[i] = m + i /\ m + i \in C
        BY <1>1
    <2>2. ASSUME NEW i \in C
          PROVE  i - m \in B /\ h[i - m] = i
        <3>1. i \in m + 1 .. m + n /\ r[i] = v /\ i - m \in 1 .. n /\ m + (i - m) = i
            BY <1>1
        <3>2. t[i - m] = v
            BY <1>1, <3>1
        <3> QED
            BY <3>1, <3>2
    <2>3. h \in [B -> C]
        BY <2>1
    <2>4. \A i, j \in B : h[i] = h[j] => i = j
        BY <1>1, <2>1
    <2> HIDE DEF h, B, C
    <2> QED
        BY <2>2, <2>3, <2>4 DEF Bijection, Injection, Surjection, IsInjective
<1> HIDE DEF A, B, C, h
<1>6. IsFiniteSet(C) /\ Cardinality(C) = Cardinality(B)
    BY <1>3, <1>5, FS_Bijection DEF ExistsBijection
<1>7. Cardinality(A \union C) = Cardinality(A) + Cardinality(C)
    BY <1>3, <1>4, <1>6, DisjointUnion
<1> QED
    BY <1>2, <1>4, <1>6, <1>7 DEF Count
-----------------------------------------------------------------------------
(* The places of a value, for workers wk, nodes nd and wires wr.           *)

TaggedWith(tag, w, T) == {<<tag, w, i>> : i \in T}

LEMMA TaggedCount ==
    ASSUME NEW tag, NEW w, NEW T, IsFiniteSet(T)
    PROVE  /\ IsFiniteSet(TaggedWith(tag, w, T))
           /\ Cardinality(TaggedWith(tag, w, T)) = Cardinality(T)
<1> DEFINE h == [i \in T |-> <<tag, w, i>>]
<1>1. h \in Bijection(T, TaggedWith(tag, w, T))
    BY DEF TaggedWith, Bijection, Injection, Surjection, IsInjective
<1> QED
    BY <1>1, FS_Bijection DEF ExistsBijection

\* The values of the variables that the rest of the code gets.
VariableValues(s) == [x \in Awaited(s.code) |-> s.variables[x]]

\* The values of all ports.
PortValues(nd) == [e \in Node \X Index |-> nd[e[1]].values[e[2]]]

HandPlaces(w, s, v) ==
    TaggedWith("stack", w, {i \in DOMAIN s.stack : s.stack[i] = v})
    \union TaggedWith("pair", w, {i \in DOMAIN s.pair : s.pair[i] = v})
    \union TaggedWith("variable", w, {x \in DOMAIN VariableValues(s) : VariableValues(s)[x] = v})

PortPlaces(nd, v) ==
    {<<"port", e[1], e[2]>> : e \in {e \in Node \X Index : nd[e[1]].values[e[2]] = v}}

WirePlaces(wr, v) == {<<"wire", x, 0>> : x \in {y \in Wire : wr[y] = v}}

Places(wk, nd, wr, v) ==
    (UNION {HandPlaces(u, wk[u], v) : u \in Thread}) \union PortPlaces(nd, v) \union WirePlaces(wr, v)

HandCount(s, v) == Count(s.stack, v) + Count(s.pair, v) + Count(VariableValues(s), v)
PortCount(nd, v) == Count(PortValues(nd), v)

LEMMA ReferencesAre ==
    ASSUME NEW v
    PROVE  References(v) = Places(worker, node, wire, v)
<1>1. ASSUME NEW w
      PROVE  InHand(w, v) = HandPlaces(w, worker[w], v)
    <2>1. {x \in DOMAIN VariableValues(worker[w]) : VariableValues(worker[w])[x] = v}
            = {y \in Variable : /\ worker[w].variables[y] = v
                               /\ y \in Awaited(worker[w].code)}
        BY DEF VariableValues, Awaited
    <2> QED
        BY <2>1, Zenon DEF InHand, HandPlaces, TaggedWith
<1> QED
    BY <1>1, Zenon DEF References, Places, PortPlaces, WirePlaces, InNodes, InWires

WorkerState ==
    [pc : Label, task : Task \union {NoTask}, stack : Seq(Value), code : Seq(Word),
     variables : [Variable -> Value \union {NULL}], node : Node \union {NULL},
     port : Nat, pair : {<<>>} \union (Value \X Value), found : Task \union {NoTask}]

LEMMA AwaitedIsFinite ==
    ASSUME NEW code \in Seq(Word)
    PROVE  IsFiniteSet(Awaited(code))
<1> DEFINE gets(i, x) == code[i] = [op |-> "get", arg |-> x]
           h == [x \in Awaited(code) |-> CHOOSE i \in DOMAIN code : gets(i, x)]
<1>1. ASSUME NEW x \in Awaited(code)
      PROVE  h[x] \in DOMAIN code /\ gets(h[x], x)
    <2>1. \E i \in DOMAIN code : gets(i, x)
        BY DEF Awaited
    <2> QED
        BY <2>1
<1>2. h \in Injection(Awaited(code), DOMAIN code)
    <2>1. ASSUME NEW x \in Awaited(code), NEW y \in Awaited(code), h[x] = h[y]
          PROVE  x = y
        <3>1. [op |-> "get", arg |-> x] = [op |-> "get", arg |-> y]
            BY <1>1, <2>1
        <3>2. [op |-> "get", arg |-> x].arg = [op |-> "get", arg |-> y].arg
            BY <3>1
        <3> QED
            BY <3>2
    <2>2. h \in [Awaited(code) -> DOMAIN code]
        BY <1>1
    <2> QED
        BY <2>1, <2>2 DEF Injection, IsInjective
<1>3. IsFiniteSet(DOMAIN code)
    BY SeqIsFinite
<1> QED
    BY <1>2, <1>3, FS_Injection

\* The three parts of what a worker has in hand.
LEMMA HandIs ==
    ASSUME NEW w, NEW s \in WorkerState, NEW v
    PROVE  /\ IsFiniteSet(HandPlaces(w, s, v))
           /\ Cardinality(HandPlaces(w, s, v)) = HandCount(s, v)
           /\ Count(s.stack, v) \in Nat
           /\ Count(s.pair, v) \in Nat
           /\ Count(VariableValues(s), v) \in Nat
<1> DEFINE A == {i \in DOMAIN s.stack : s.stack[i] = v}
           B == {i \in DOMAIN s.pair : s.pair[i] = v}
           C == {x \in DOMAIN VariableValues(s) : VariableValues(s)[x] = v}
           TA == TaggedWith("stack", w, A)
           TB == TaggedWith("pair", w, B)
           TC == TaggedWith("variable", w, C)
<1>1. IsFiniteSet(DOMAIN s.stack) /\ IsFiniteSet(DOMAIN s.pair) /\ IsFiniteSet(DOMAIN VariableValues(s))
    <2>1. s.stack \in Seq(Value) /\ s.code \in Seq(Word)
        BY DEF WorkerState
    <2>2. s.pair \in Seq(Value)
        <3>1. s.pair = <<>> \/ s.pair \in Value \X Value
            BY DEF WorkerState
        <3>2. CASE s.pair \in Value \X Value
            <4>1. PICK a \in Value, b \in Value : s.pair = <<a, b>>
                BY <3>2
            <4> QED
                BY <4>1
        <3>3. CASE s.pair = <<>>
            BY <3>3, EmptySeq, Zenon
        <3> QED
            BY <3>1, <3>2, <3>3
    <2>3. DOMAIN VariableValues(s) = Awaited(s.code)
        BY DEF VariableValues
    <2> QED
        BY <2>1, <2>2, <2>3, SeqIsFinite, AwaitedIsFinite
<1>2. /\ IsFiniteSet(A) /\ Cardinality(A) = Count(s.stack, v) /\ Count(s.stack, v) \in Nat
      /\ IsFiniteSet(B) /\ Cardinality(B) = Count(s.pair, v) /\ Count(s.pair, v) \in Nat
      /\ IsFiniteSet(C) /\ Cardinality(C) = Count(VariableValues(s), v)
      /\ Count(VariableValues(s), v) \in Nat
    BY <1>1, CountIsNat DEF Count
<1>3. /\ \A e \in TA : e[1] = "stack"
      /\ \A e \in TB : e[1] = "pair"
      /\ \A e \in TC : e[1] = "variable"
    BY DEF TaggedWith
<1>4. HandPlaces(w, s, v) = (TA \union TB) \union TC
    BY Zenon DEF HandPlaces
<1> HIDE DEF A, B, C
<1>5. /\ IsFiniteSet(TA) /\ Cardinality(TA) = Cardinality(A)
      /\ IsFiniteSet(TB) /\ Cardinality(TB) = Cardinality(B)
      /\ IsFiniteSet(TC) /\ Cardinality(TC) = Cardinality(C)
    BY <1>2, TaggedCount
<1> HIDE DEF TA, TB, TC
<1>6. TA \intersect TB = {} /\ (TA \union TB) \intersect TC = {}
    BY <1>3
<1>7. /\ IsFiniteSet(TA \union TB)
      /\ Cardinality(TA \union TB) = Cardinality(TA) + Cardinality(TB)
    BY <1>5, <1>6, DisjointUnion
<1>8. /\ IsFiniteSet((TA \union TB) \union TC)
      /\ Cardinality((TA \union TB) \union TC) = Cardinality(TA \union TB) + Cardinality(TC)
    BY <1>5, <1>6, <1>7, DisjointUnion
<1> QED
    BY <1>2, <1>4, <1>5, <1>7, <1>8 DEF HandCount

LEMMA PortsAre ==
    ASSUME NEW nd, NEW v
    PROVE  /\ IsFiniteSet(PortPlaces(nd, v))
           /\ Cardinality(PortPlaces(nd, v)) = PortCount(nd, v)
           /\ PortCount(nd, v) \in Nat
           /\ IsFiniteSet(DOMAIN PortValues(nd))
<1> DEFINE T == {e \in Node \X Index : nd[e[1]].values[e[2]] = v}
           h == [e \in T |-> <<"port", e[1], e[2]>>]
<1>1. IsFiniteSet(Node) /\ IsFiniteSet(Index)
    BY FS_Interval, HeapAssumption, CtorAssumption DEF Node, Index
<1>2. IsFiniteSet(DOMAIN PortValues(nd))
    BY <1>1, FS_Product DEF PortValues
<1>3. {e \in DOMAIN PortValues(nd) : PortValues(nd)[e] = v} = T
    BY DEF PortValues
<1>4. h \in Bijection(T, PortPlaces(nd, v))
    <2>1. \A e \in T : e = <<e[1], e[2]>> /\ h[e] = <<"port", e[1], e[2]>>
        OBVIOUS
    <2>2. PortPlaces(nd, v) = {<<"port", e[1], e[2]>> : e \in T}
        BY Zenon DEF PortPlaces
    <2>3. h \in [T -> PortPlaces(nd, v)]
        BY <2>2
    <2>4. ASSUME NEW e \in T, NEW f \in T, h[e] = h[f]
          PROVE  e = f
        <3>1. <<"port", e[1], e[2]>> = <<"port", f[1], f[2]>>
            BY <2>1, <2>4, Zenon
        <3>2. e[1] = f[1] /\ e[2] = f[2]
            BY <3>1
        <3>3. <<e[1], e[2]>> = <<f[1], f[2]>>
            BY <3>2, Zenon
        <3> QED
            BY <2>1, <3>3, Zenon
    <2>5. ASSUME NEW p \in PortPlaces(nd, v)
          PROVE  \E e \in T : h[e] = p
        BY <2>2
    <2> HIDE DEF h, T
    <2> QED
        BY <2>3, <2>4, <2>5 DEF Bijection, Injection, Surjection, IsInjective
<1>5. IsFiniteSet(T) /\ PortCount(nd, v) = Cardinality(T) /\ PortCount(nd, v) \in Nat
    <2>1. /\ Count(PortValues(nd), v) \in Nat
          /\ IsFiniteSet({e \in DOMAIN PortValues(nd) : PortValues(nd)[e] = v})
        BY <1>2, CountIsNat
    <2> HIDE DEF T
    <2> QED
        BY <1>3, <2>1, Zenon DEF Count, PortCount
<1> HIDE DEF h, T
<1> QED
    BY <1>2, <1>4, <1>5, FS_Bijection DEF ExistsBijection

LEMMA WiresAre ==
    ASSUME NEW wr, NEW v, DOMAIN wr = Wire
    PROVE  /\ IsFiniteSet(WirePlaces(wr, v))
           /\ Cardinality(WirePlaces(wr, v)) = Count(wr, v)
           /\ Count(wr, v) \in Nat
           /\ IsFiniteSet(DOMAIN wr)
<1> DEFINE T == {y \in Wire : wr[y] = v}
           h == [x \in T |-> <<"wire", x, 0>>]
<1>1. IsFiniteSet(DOMAIN wr)
    BY FS_Interval, HeapAssumption DEF Wire
<1>2. IsFiniteSet(T) /\ Count(wr, v) = Cardinality(T) /\ Count(wr, v) \in Nat
    BY <1>1, CountIsNat DEF Count
<1>3. h \in Bijection(T, WirePlaces(wr, v))
    BY DEF WirePlaces, Bijection, Injection, Surjection, IsInjective
<1> QED
    BY <1>1, <1>2, <1>3, FS_Bijection DEF ExistsBijection

-----------------------------------------------------------------------------
(* All places of a value.                                                  *)

\* What all workers but w have in hand.
Rest(w, wk, v) == UNION {HandPlaces(u, wk[u], v) : u \in Thread \ {w}}

LEMMA PlacesCount ==
    ASSUME NEW w \in Thread, NEW wk, NEW nd, NEW wr, NEW v,
           wk[w] \in WorkerState, DOMAIN wr = Wire, IsFiniteSet(Rest(w, wk, v))
    PROVE  /\ IsFiniteSet(Places(wk, nd, wr, v))
           /\ Cardinality(Places(wk, nd, wr, v))
                = Cardinality(Rest(w, wk, v)) + HandCount(wk[w], v)
                    + PortCount(nd, v) + Count(wr, v)
           /\ Cardinality(Rest(w, wk, v)) \in Nat
           /\ HandCount(wk[w], v) \in Nat
           /\ PortCount(nd, v) \in Nat
           /\ Count(wr, v) \in Nat
<1> DEFINE R == Rest(w, wk, v)
           H == HandPlaces(w, wk[w], v)
           P == PortPlaces(nd, v)
           W == WirePlaces(wr, v)
<1>1. /\ \A e \in R : e[2] # w /\ e[1] \in {"stack", "pair", "variable"}
      /\ \A e \in H : e[2] = w /\ e[1] \in {"stack", "pair", "variable"}
      /\ \A e \in P : e[1] = "port"
      /\ \A e \in W : e[1] = "wire"
    BY DEF Rest, HandPlaces, PortPlaces, WirePlaces, TaggedWith
<1>2. Places(wk, nd, wr, v) = ((R \union H) \union P) \union W
    <2> DEFINE U == UNION {HandPlaces(u, wk[u], v) : u \in Thread}
    <2>1. U = R \union H
        BY DEF Rest
    <2>2. Places(wk, nd, wr, v) = U \union P \union W
        BY DEF Places
    <2> HIDE DEF U, R, H, P, W
    <2> QED
        BY <2>1, <2>2
<1>3. /\ IsFiniteSet(R) /\ IsFiniteSet(H) /\ IsFiniteSet(P) /\ IsFiniteSet(W)
      /\ Cardinality(H) = HandCount(wk[w], v)
      /\ Cardinality(P) = PortCount(nd, v)
      /\ Cardinality(W) = Count(wr, v)
    BY HandIs, PortsAre, WiresAre
<1> HIDE DEF R, H, P, W
<1>4. R \intersect H = {} /\ (R \union H) \intersect P = {} /\ ((R \union H) \union P) \intersect W = {}
    BY <1>1
<1>5. IsFiniteSet(R \union H) /\ Cardinality(R \union H) = Cardinality(R) + Cardinality(H)
    BY <1>3, <1>4, DisjointUnion
<1>6. /\ IsFiniteSet((R \union H) \union P)
      /\ Cardinality((R \union H) \union P) = Cardinality(R \union H) + Cardinality(P)
    BY <1>3, <1>4, <1>5, DisjointUnion
<1>7. /\ IsFiniteSet(((R \union H) \union P) \union W)
      /\ Cardinality(((R \union H) \union P) \union W)
            = Cardinality((R \union H) \union P) + Cardinality(W)
    BY <1>3, <1>4, <1>6, DisjointUnion
<1>8. /\ Cardinality(R) \in Nat /\ Cardinality(H) \in Nat
      /\ Cardinality(P) \in Nat /\ Cardinality(W) \in Nat
    BY <1>3, FS_CardinalityType
<1>9. Cardinality(Places(wk, nd, wr, v))
        = Cardinality(R) + Cardinality(H) + Cardinality(P) + Cardinality(W)
    BY <1>2, <1>5, <1>6, <1>7, <1>8
<1> QED
    BY <1>2, <1>3, <1>7, <1>8, <1>9 DEF R

LEMMA RestIsFinite ==
    ASSUME NEW w \in Thread, NEW wk, NEW nd, NEW wr, NEW v,
           IsFiniteSet(Places(wk, nd, wr, v))
    PROVE  IsFiniteSet(Rest(w, wk, v))
<1>1. Rest(w, wk, v) \in SUBSET Places(wk, nd, wr, v)
    BY DEF Rest, Places
<1> QED
    BY <1>1, FS_Subset

\* Another worker's hand is part of the rest.
LEMMA OthersHold ==
    ASSUME NEW w \in Thread, NEW u \in Thread \ {w}, NEW wk, NEW v,
           wk[u] \in WorkerState, IsFiniteSet(Rest(w, wk, v))
    PROVE  Cardinality(Rest(w, wk, v)) >= HandCount(wk[u], v)
<1>1. HandPlaces(u, wk[u], v) \in SUBSET Rest(w, wk, v)
    BY DEF Rest
<1> QED
    BY <1>1, FS_Subset, HandIs

-----------------------------------------------------------------------------
(* What a node exposes when it is disconnected.                            *)

\* The k-th smallest element of a finite set of numbers.
Ranked(S, k) == CHOOSE i \in S : Cardinality({j \in S : j < i}) = k - 1

LEMMA Enumeration ==
    ASSUME NEW S \in SUBSET Nat, IsFiniteSet(S)
    PROVE  /\ \A k \in 1 .. Cardinality(S) : Ranked(S, k) \in S
           /\ \A i \in S : \E k \in 1 .. Cardinality(S) : Ranked(S, k) = i
           /\ \A k, l \in 1 .. Cardinality(S) : Ranked(S, k) = Ranked(S, l) => k = l
           /\ Cardinality(S) \in Nat
<1> DEFINE below(i) == {j \in S : j < i}
           N == Cardinality(S)
           at(i) == Cardinality(below(i))
           h == [i \in S |-> at(i) + 1]
<1>0. N \in Nat
    BY FS_CardinalityType
<1>1. ASSUME NEW T \in SUBSET S, NEW i \in S \ T
      PROVE  IsFiniteSet(T) /\ Cardinality(T) \in Nat /\ Cardinality(T \union {i}) = Cardinality(T) + 1
    BY FS_Subset, FS_CardinalityType, FS_AddElement
<1>2. ASSUME NEW i \in S
      PROVE  at(i) \in Nat /\ at(i) + 1 <= N
    <2>1. below(i) \in SUBSET S /\ i \in S \ below(i) /\ below(i) \union {i} \in SUBSET S
        OBVIOUS
    <2>2. at(i) \in Nat /\ Cardinality(below(i) \union {i}) = at(i) + 1
        BY <1>1, <2>1
    <2>3. Cardinality(below(i) \union {i}) <= N
        BY <2>1, FS_Subset
    <2> QED
        BY <2>2, <2>3
<1>3. ASSUME NEW i \in S, NEW j \in S, i < j
      PROVE  at(i) < at(j)
    <2>1. below(i) \in SUBSET S /\ i \in S \ below(i) /\ below(j) \in SUBSET S
        OBVIOUS
    <2>2. below(i) \union {i} \in SUBSET below(j)
        <3>1. ASSUME NEW k \in S, k < i
              PROVE  k < j
            <4>1. k \in Nat /\ i \in Nat /\ j \in Nat
                OBVIOUS
            <4> QED
                BY <1>3, <3>1, <4>1
        <3> QED
            BY <1>3, <3>1
    <2>3. IsFiniteSet(below(j))
        BY <2>1, FS_Subset
    <2>4. Cardinality(below(i) \union {i}) <= at(j)
        BY <2>2, <2>3, FS_Subset
    <2>5. Cardinality(below(i) \union {i}) = at(i) + 1
        BY <1>1, <2>1
    <2> HIDE DEF below
    <2> QED
        BY <1>2, <2>4, <2>5
<1>4. ASSUME NEW i \in S, NEW j \in S, at(i) = at(j)
      PROVE  i = j
    <2>1. at(i) \in Nat /\ at(j) \in Nat
        BY <1>2
    <2>2. ~(i < j) /\ ~(j < i)
        <3>1. i < j => at(i) < at(j)
            BY <1>3
        <3>2. j < i => at(j) < at(i)
            BY <1>3
        <3> HIDE DEF at
        <3> QED
            BY <1>4, <2>1, <3>1, <3>2
    <2> QED
        BY <2>2
<1> HIDE DEF at
<1>5. h \in Injection(S, 1 .. N)
    <2>1. h \in [S -> 1 .. N]
        BY <1>0, <1>2
    <2>2. ASSUME NEW i \in S, NEW j \in S, h[i] = h[j]
          PROVE  i = j
        <3>1. at(i) = at(j)
            BY <1>2, <2>2
        <3> QED
            BY <1>4, <3>1
    <2> HIDE DEF h
    <2> QED
        BY <2>1, <2>2 DEF Injection, IsInjective
<1>6. IsFiniteSet(1 .. N) /\ Cardinality(1 .. N) = N
    BY <1>0, FS_Interval
<1>7. h \in Surjection(S, 1 .. N)
    <2> HIDE DEF h, N
    <2>1. Cardinality(S) = Cardinality(1 .. N)
        BY <1>6 DEF N
    <2> QED
        BY <1>5, <1>6, <2>1, FS_Injection
<1>8. ASSUME NEW k \in 1 .. N
      PROVE  Ranked(S, k) \in S /\ at(Ranked(S, k)) = k - 1
    <2>1. PICK i \in S : h[i] = k
        <3> HIDE DEF h
        <3> QED
            BY <1>7 DEF Surjection
    <2>2. at(i) = k - 1
        BY <1>2, <2>1
    <2>3. \E j \in S : Cardinality({m \in S : m < j}) = k - 1
        BY <2>2 DEF at
    <2> QED
        BY <2>3 DEF Ranked, at
<1>9. ASSUME NEW i \in S
      PROVE  at(i) + 1 \in 1 .. N /\ Ranked(S, at(i) + 1) = i
    <2>1. at(i) \in Nat /\ at(i) + 1 \in 1 .. N
        BY <1>0, <1>2
    <2>2. PICK k \in 1 .. N : k = at(i) + 1
        BY <2>1
    <2>3. Ranked(S, k) \in S /\ at(Ranked(S, k)) = k - 1
        BY <1>8
    <2>4. at(Ranked(S, k)) = at(i)
        BY <2>1, <2>2, <2>3
    <2>5. Ranked(S, k) = i
        BY <1>4, <2>3, <2>4
    <2> QED
        BY <2>1, <2>2, <2>5
<1>10. ASSUME NEW k \in 1 .. N, NEW l \in 1 .. N, Ranked(S, k) = Ranked(S, l)
       PROVE  k = l
    <2>1. at(Ranked(S, k)) = k - 1 /\ at(Ranked(S, l)) = l - 1
        BY <1>8
    <2>2. k - 1 = l - 1
        BY <1>10, <2>1
    <2> QED
        BY <1>0, <2>2
<1> QED
    BY <1>0, <1>8, <1>9, <1>10

\* A sequence that enumerates the values of f at S counts each as often.
LEMMA EnumeratedCount ==
    ASSUME NEW S \in SUBSET Nat, IsFiniteSet(S), NEW f, NEW v
    PROVE  Count([k \in 1 .. Cardinality(S) |-> f[Ranked(S, k)]], v)
                = Cardinality({i \in S : f[i] = v})
<1> DEFINE N == Cardinality(S)
           e == [k \in 1 .. N |-> f[Ranked(S, k)]]
           A == {k \in 1 .. N : f[Ranked(S, k)] = v}
           B == {i \in S : f[i] = v}
           h == [k \in A |-> Ranked(S, k)]
<1>1. /\ \A k \in 1 .. N : Ranked(S, k) \in S
      /\ \A i \in S : \E k \in 1 .. N : Ranked(S, k) = i
      /\ \A k, l \in 1 .. N : Ranked(S, k) = Ranked(S, l) => k = l
      /\ N \in Nat
    BY Enumeration
<1>2. Count(e, v) = Cardinality(A)
    <2>1. {k \in DOMAIN e : e[k] = v} = A
        OBVIOUS
    <2> QED
        BY <2>1 DEF Count
<1>3. IsFiniteSet(A)
    <2>1. A \in SUBSET (1 .. N) /\ IsFiniteSet(1 .. N)
        BY <1>1, FS_Interval
    <2> QED
        BY <2>1, FS_Subset
<1> HIDE DEF N
<1>4. h \in Bijection(A, B)
    BY <1>1 DEF Bijection, Injection, Surjection, IsInjective
<1> HIDE DEF A, B, h
<1>5. Cardinality(B) = Cardinality(A)
    BY <1>3, <1>4, FS_Bijection DEF ExistsBijection
<1> QED
    BY <1>2, <1>5 DEF N, B

LEMMA ValuesAre ==
    /\ NULL \notin Value /\ FREE \notin Value /\ NULL \notin End /\ FREE \notin End
    /\ Wire \intersect PrincipalWire = {}
    /\ Node \subseteq Nat \ {0} /\ Wire \subseteq Nat \ {0} /\ PrincipalWire \subseteq Nat \ {0}
BY HeapAssumption, NumberAssumption DEF NULL, FREE, Value, End, Wire, PrincipalWire, Node

LEMMA NumbersAre ==
    /\ Value = End \union Number /\ Number \intersect End = {}
    /\ End = Wire \union PrincipalWire
BY NumberAssumption DEF Value, End

LEMMA PortsOf ==
    ASSUME NEW c \in DOMAIN Ctor
    PROVE  /\ Arity(c) \in Nat /\ Ctor[c].input_arity \in Nat
           /\ Ctor[c].input_arity <= Arity(c)
           /\ Port(c) \subseteq Index /\ Port(c) \subseteq Nat
           /\ IsFiniteSet(Port(c))
           /\ Port(c) = 0 .. Arity(c) - 1
           /\ Ctor[c].principal \subseteq Port(c)
<1>1. /\ Ctor[c].input_arity \in Nat /\ Ctor[c].output_arity \in Nat
      /\ Ctor[c].principal \subseteq Port(c) /\ Arity(c) <= NodeMaxArity /\ NodeMaxArity \in Nat
    BY CtorAssumption
<1>2. Arity(c) \in Nat /\ Ctor[c].input_arity <= Arity(c)
    BY <1>1 DEF Arity
<1>3. IsFiniteSet(Port(c))
    BY <1>2, FS_Interval DEF Port
<1>4. Port(c) \subseteq Index /\ Port(c) \subseteq Nat
    BY <1>1, <1>2 DEF Port, Index
<1> QED
    BY <1>1, <1>2, <1>3, <1>4 DEF Port

\* What a whole node exposes: the wires and numbers at its ports.
LEMMA ExposedIs ==
    ASSUME NEW n \in Node, node[n].ctor \in DOMAIN Ctor,
           \A i \in Port(node[n].ctor) : node[n].values[i] \in Value
    PROVE  /\ Exposed(n) \in Seq(Value)
           /\ \A v \in Wire : Count(Exposed(n), v)
                                = Cardinality({i \in Port(node[n].ctor) : node[n].values[i] = v})
           /\ \A v \in PrincipalWire : Count(Exposed(n), v) = 0
<1> DEFINE f == node[n].values
           P == Port(node[n].ctor)
           S == {i \in P : ~is_principal_wire(f[i])}
           N == Cardinality(S)
           e == [k \in 1 .. N |-> f[Ranked(S, k)]]
<1>1. P \subseteq Nat /\ IsFiniteSet(P)
    BY PortsOf
<1>2. S \in SUBSET Nat /\ IsFiniteSet(S)
    <2>1. S \in SUBSET P
        OBVIOUS
    <2> QED
        BY <1>1, <2>1, FS_Subset
<1>3. \A i \in S : f[i] \in Wire \union Number
    BY DEF is_principal_wire, Value, End
<1>4. Exposed(n) = e
    BY DEF Exposed, Ranked
<1>5. \A k \in 1 .. N : Ranked(S, k) \in S
    BY <1>2, Enumeration
<1>6. N \in Nat
    BY <1>2, FS_CardinalityType
<1>7. e \in Seq(Value)
    <2> HIDE DEF S, f, N
    <2>1. \A k \in 1 .. N : f[Ranked(S, k)] \in Value
        BY <1>3, <1>5 DEF Value, End
    <2>2. e \in [1 .. N -> Value]
        BY <2>1
    <2> HIDE DEF e
    <2> QED
        BY <1>6, <2>2, SeqDef
<1>8. \A v : Count(e, v) = Cardinality({i \in S : f[i] = v})
    <2> TAKE v
    <2> HIDE DEF S, f
    <2> QED
        BY <1>2, EnumeratedCount
<1>9. ASSUME NEW v \in Wire
      PROVE  {i \in S : f[i] = v} = {i \in P : f[i] = v}
    BY ValuesAre DEF is_principal_wire
<1>10. ASSUME NEW v \in PrincipalWire
       PROVE  Cardinality({i \in S : f[i] = v}) = 0
    <2>1. {i \in S : f[i] = v} = {}
        BY <1>3, ValuesAre, NumbersAre
    <2> QED
        BY <2>1, FS_EmptySet
<1> HIDE DEF e, S
<1> QED
    BY <1>4, <1>7, <1>8, <1>9, <1>10

-----------------------------------------------------------------------------
(* How steps change ports and wires.                                       *)

\* A node that is cleaned loses what is at its ports.
IsCleaned(nd, nd2, n) == n \in Node /\ DOMAIN nd = Node /\ nd2 = [nd EXCEPT ![n] = CleanNode]
LosesPorts(nd, nd2, n, v) ==
    PortCount(nd, v) = PortCount(nd2, v) + Cardinality({i \in Index : nd[n].values[i] = v})

LEMMA CleanCounts ==
    ASSUME NEW nd, NEW nd2, NEW n, NEW v \in End, IsCleaned(nd, nd2, n)
    PROVE  LosesPorts(nd, nd2, n, v)
<1> USE DEF IsCleaned, LosesPorts
<1> DEFINE T == {i \in Index : nd[n].values[i] = v}
           A == {e \in Node \X Index : nd[e[1]].values[e[2]] = v}
           B == {e \in Node \X Index : nd2[e[1]].values[e[2]] = v}
           C == {<<n, i>> : i \in T}
           h == [i \in T |-> <<n, i>>]
<1>1. PortCount(nd, v) = Cardinality(A) /\ PortCount(nd2, v) = Cardinality(B)
    <2>1. /\ {e \in DOMAIN PortValues(nd) : PortValues(nd)[e] = v} = A
          /\ {e \in DOMAIN PortValues(nd2) : PortValues(nd2)[e] = v} = B
        BY DEF PortValues
    <2> QED
        BY <2>1, Zenon DEF PortCount, Count
<1>2. IsFiniteSet(Index) /\ IsFiniteSet(Node \X Index)
    <2>1. IsFiniteSet(Node) /\ IsFiniteSet(Index)
        BY FS_Interval, HeapAssumption, CtorAssumption DEF Node, Index
    <2> QED
        BY <2>1, FS_Product
<1>3. IsFiniteSet(T) /\ IsFiniteSet(B)
    <2>1. T \in SUBSET Index /\ B \in SUBSET (Node \X Index)
        OBVIOUS
    <2> HIDE DEF T, B
    <2> QED
        BY <1>2, <2>1, FS_Subset
<1>4. A = B \union C /\ B \intersect C = {}
    <2>1. \A i \in Index : nd2[n].values[i] # v
        BY ValuesAre DEF CleanNode
    <2>2. \A m \in Node \ {n} : nd2[m] = nd[m]
        OBVIOUS
    <2>3. ASSUME NEW e \in Node \X Index, e[1] = n
          PROVE  e \notin B /\ (e \in A <=> e \in C)
        <3>1. e = <<n, e[2]>> /\ e[2] \in Index
            BY <2>3
        <3> QED
            BY <2>1, <2>3, <3>1
    <2>4. ASSUME NEW e \in Node \X Index, e[1] # n
          PROVE  e \notin C /\ (e \in A <=> e \in B)
        BY <2>2, <2>4
    <2>5. C \subseteq Node \X Index
        OBVIOUS
    <2>6. A \subseteq Node \X Index /\ B \subseteq Node \X Index
        OBVIOUS
    <2> HIDE DEF A, B, C
    <2> QED
        BY <2>3, <2>4, <2>5, <2>6
<1>5. h \in Bijection(T, C)
    BY DEF Bijection, Injection, Surjection, IsInjective
<1> HIDE DEF A, B, C, T, h
<1>6. IsFiniteSet(C) /\ Cardinality(C) = Cardinality(T)
    BY <1>3, <1>5, FS_Bijection DEF ExistsBijection
<1>7. Cardinality(A) = Cardinality(B) + Cardinality(C)
    BY <1>3, <1>4, <1>6, DisjointUnion
<1> QED
    BY <1>1, <1>6, <1>7 DEF T

NodeState == [ctor : DOMAIN Ctor \union {"none"}, values : [Index -> Value \union {NULL}]]

\* Port i of node n gets value u.
PortGets(nd, nd2, n, i, u) ==
    /\ n \in Node /\ i \in Index /\ nd \in [Node -> NodeState]
    /\ nd2 = [nd EXCEPT ![n].values[i] = u]
PortCounts(nd, nd2, n, i, u, v) ==
    PortCount(nd2, v) = PortCount(nd, v) - OneIf(nd[n].values[i], v) + OneIf(u, v)

LEMMA PortSetCounts ==
    ASSUME NEW nd, NEW nd2, NEW n, NEW i, NEW u, NEW v, PortGets(nd, nd2, n, i, u)
    PROVE  PortCounts(nd, nd2, n, i, u, v)
<1> USE DEF PortGets, PortCounts
<1> DEFINE f == PortValues(nd)
           g == PortValues(nd2)
           e == <<n, i>>
<1>1. f[e] = nd[n].values[i] /\ g[e] = u /\ e \in DOMAIN f
    BY DEF PortValues, NodeState
<1>2. OneChanged(f, g, e)
    <2>1. DOMAIN f = Node \X Index /\ DOMAIN g = Node \X Index
        BY DEF PortValues
    <2>2. ASSUME NEW d \in (Node \X Index) \ {e}
          PROVE  g[d] = f[d]
        <3>1. d = <<d[1], d[2]>> /\ d[1] \in Node /\ d[2] \in Index /\ ~(d[1] = n /\ d[2] = i)
            BY <2>2
        <3>2. nd2[d[1]].values[d[2]] = nd[d[1]].values[d[2]]
            BY <3>1 DEF NodeState
        <3> QED
            BY <3>2 DEF PortValues
    <2> QED
        BY <1>1, <2>1, <2>2 DEF OneChanged
<1>3. IsFiniteSet(DOMAIN f)
    BY PortsAre
<1> HIDE DEF f, g, e
<1>4. CountsChange(f, g, e, v)
    BY <1>2, <1>3, CountAt
<1> QED
    BY <1>1, <1>4 DEF CountsChange, PortCount, f, g

\* A new constructor leaves the ports as they are.
CtorGets(nd, nd2, n, c) ==
    n \in Node /\ nd \in [Node -> NodeState] /\ nd2 = [nd EXCEPT ![n].ctor = c]

LEMMA CtorSetCounts ==
    ASSUME NEW nd, NEW nd2, NEW n, NEW c, NEW v, CtorGets(nd, nd2, n, c)
    PROVE  PortCount(nd2, v) = PortCount(nd, v)
<1> USE DEF CtorGets
<1>1. PortValues(nd2) = PortValues(nd)
    <2>1. \A m \in Node : nd2[m].values = nd[m].values
        BY DEF NodeState
    <2> QED
        BY <2>1 DEF PortValues
<1> QED
    BY <1>1 DEF PortCount

\* Wire x gets value u, which v counts.
WireGets(wr, wr2, x, u) == x \in Wire /\ DOMAIN wr = Wire /\ wr2 = [wr EXCEPT ![x] = u]
WireCounts(wr, wr2, x, u, v) == Count(wr2, v) = Count(wr, v) - OneIf(wr[x], v) + OneIf(u, v)

LEMMA WireSetCounts ==
    ASSUME NEW wr, NEW wr2, NEW x, NEW u, NEW v, WireGets(wr, wr2, x, u)
    PROVE  WireCounts(wr, wr2, x, u, v)
<1> USE DEF WireGets, WireCounts
<1>1. IsFiniteSet(DOMAIN wr)
    BY WiresAre
<1>2. OneChanged(wr, wr2, x) /\ wr2[x] = u
    BY DEF OneChanged
<1>3. CountsChange(wr, wr2, x, v)
    BY <1>1, <1>2, CountAt
<1> QED
    BY <1>2, <1>3 DEF CountsChange

-----------------------------------------------------------------------------
(* Code and names.                                                         *)

\* A set of numbers has a first one.
LEMMA FirstIsIn ==
    ASSUME NEW S, S \subseteq Nat, S # {}
    PROVE  First(S) \in S /\ \A y \in S : First(S) <= y
<1>1. \E x \in S : \A y \in S : <<y, x>> \notin OpToRel(<, Nat)
    BY WFMin, NatLessThanWellFounded, Zenon
<1>2. \E x \in S : \A y \in S : ~(y < x)
    <2>1. \A x \in S : x \in Nat
        OBVIOUS
    <2> QED
        BY <1>1, <2>1, Zenon DEF OpToRel
<1> HIDE <1>1
<1>3. PICK x \in S : \A y \in S : ~(y < x)
    BY <1>2
<1>4. \A y \in S : x <= y
    <2> TAKE y \in S
    <2>1. x \in Nat /\ y \in Nat /\ ~(y < x)
        BY <1>3
    <2> QED
        BY <2>1
<1> QED
    BY <1>4 DEF First

LEMMA RestOfCode ==
    ASSUME NEW code \in Seq(Word), code # <<>>
    PROVE  /\ Tail(code) \in Seq(Word)
           /\ Len(code) \in Nat \ {0}
           /\ Len(Tail(code)) = Len(code) - 1
           /\ Head(code) = code[1] /\ Head(code) \in Word
           /\ \A i \in 1 .. Len(code) - 1 : Tail(code)[i] = code[i + 1]
           /\ DOMAIN code = 1 .. Len(code)
           /\ DOMAIN Tail(code) = 1 .. Len(code) - 1
           /\ Tail(code) = SubSeq(code, 2, Len(code))
BY HeadTailProperties, TailIsSubSeq

\* What the rest of the code awaits, from the first word on.
LEMMA AwaitedFirst ==
    ASSUME NEW code \in Seq(Word), code # <<>>, NEW x \in Variable
    PROVE  x \in Awaited(code) <=>
             \/ Head(code) = [op |-> "get", arg |-> x]
             \/ Head(code) # [op |-> "set", arg |-> x] /\ x \in Awaited(Tail(code))
<1> DEFINE get == [op |-> "get", arg |-> x]
           set == [op |-> "set", arg |-> x]
           t == Tail(code)
           awaits(s) == \E i \in DOMAIN s : s[i] = get /\ \A j \in 1 .. i - 1 : s[j] # set
<1>0. get # set
    <2>1. get.op # set.op
        OBVIOUS
    <2> QED
        BY <2>1
<1>1. /\ Len(code) \in Nat \ {0}
      /\ Head(code) = code[1]
      /\ \A i \in 1 .. Len(code) - 1 : t[i] = code[i + 1]
      /\ DOMAIN code = 1 .. Len(code)
      /\ DOMAIN t = 1 .. Len(code) - 1
    BY RestOfCode
<1>2. (x \in Awaited(code) <=> awaits(code)) /\ (x \in Awaited(t) <=> awaits(t))
    BY DEF Awaited
<1> HIDE DEF get, set, t
<1>3. ASSUME awaits(code)
      PROVE  code[1] = get \/ (code[1] # set /\ awaits(t))
    <2>1. PICK i \in DOMAIN code : code[i] = get /\ \A j \in 1 .. i - 1 : code[j] # set
        BY <1>3
    <2>2. CASE i = 1
        BY <2>1, <2>2
    <2>3. CASE i # 1
        <3>1. i \in 2 .. Len(code) /\ i - 1 \in DOMAIN t /\ 1 \in 1 .. i - 1
            BY <1>1, <2>3
        <3>2. t[i - 1] = get
            BY <1>1, <2>1, <3>1
        <3>3. ASSUME NEW j \in 1 .. (i - 1) - 1
              PROVE  t[j] # set
            <4>1. j \in 1 .. Len(code) - 1 /\ j + 1 \in 1 .. i - 1
                BY <1>1, <3>1
            <4> QED
                BY <1>1, <2>1, <4>1
        <3>4. code[1] # set
            BY <2>1, <3>1
        <3> QED
            BY <3>1, <3>2, <3>3, <3>4
    <2> QED
        BY <2>2, <2>3
<1>4. ASSUME code[1] = get
      PROVE  awaits(code)
    BY <1>1, <1>4
<1>5. ASSUME code[1] # set, awaits(t)
      PROVE  awaits(code)
    <2>1. PICK i \in DOMAIN t : t[i] = get /\ \A j \in 1 .. i - 1 : t[j] # set
        BY <1>5
    <2>2. i + 1 \in DOMAIN code /\ code[i + 1] = get
        BY <1>1, <2>1
    <2>3. ASSUME NEW j \in 1 .. (i + 1) - 1
          PROVE  code[j] # set
        <3>1. CASE j = 1
            BY <1>5, <3>1
        <3>2. CASE j # 1
            <4>1. j - 1 \in 1 .. i - 1 /\ j - 1 \in 1 .. Len(code) - 1 /\ (j - 1) + 1 = j
                BY <1>1, <3>2
            <4> QED
                BY <1>1, <2>1, <4>1
        <3> QED
            BY <3>1, <3>2
    <2> QED
        BY <2>2, <2>3
<1> HIDE DEF awaits
<1> QED
    BY <1>0, <1>1, <1>2, <1>3, <1>4, <1>5 DEF get, set, t

LEMMA NothingAwaited == Awaited(<<>>) = {} /\ Linear(<<>>)
BY DEF Awaited, Linear

\* The rest of linear code is linear.
LEMMA LinearRest ==
    ASSUME NEW code \in Seq(Word), code # <<>>, Linear(code)
    PROVE  /\ Linear(Tail(code))
           /\ Head(code).op \in {"get", "set"} =>
                (Head(code).arg \in Awaited(Tail(code)) <=> Head(code).op = "set")
<1> DEFINE t == Tail(code)
           n == Len(code)
<1>1. /\ n \in Nat \ {0} /\ Len(t) = n - 1 /\ t \in Seq(Word)
      /\ Head(code) = code[1]
      /\ \A i \in 1 .. n - 1 : t[i] = code[i + 1]
      /\ DOMAIN code = 1 .. n
      /\ DOMAIN t = 1 .. n - 1
      /\ t = SubSeq(code, 2, n)
      /\ \A i \in 1 .. n : code[i] \in Word
    BY RestOfCode
<1> HIDE DEF t, n
<1>2. ASSUME NEW i \in 1 .. n - 1
      PROVE  SubSeq(t, i + 1, n - 1) = SubSeq(code, (i + 1) + 1, n)
    <2> DEFINE a == SubSeq(t, i + 1, n - 1)
               b == SubSeq(code, (i + 1) + 1, n)
    <2>0. \A j \in 1 .. n - 1 : t[j] \in Word
        BY <1>1
    <2>1. /\ a \in Seq(Word)
          /\ Len(a) = IF i + 1 <= n - 1 THEN (n - 1) - (i + 1) + 1 ELSE 0
          /\ \A j \in 1 .. (n - 1) - (i + 1) + 1 : a[j] = t[(i + 1) + j - 1]
        <3>1. i + 1 \in Int /\ n - 1 \in Int /\ \A j \in i + 1 .. n - 1 : t[j] \in Word
            BY <1>1, <2>0
        <3> QED
            BY <3>1, SubSeqProperties
    <2>2. /\ b \in Seq(Word)
          /\ Len(b) = IF (i + 1) + 1 <= n THEN n - ((i + 1) + 1) + 1 ELSE 0
          /\ \A j \in 1 .. n - ((i + 1) + 1) + 1 : b[j] = code[((i + 1) + 1) + j - 1]
        <3>1. (i + 1) + 1 \in Int /\ n \in Int /\ \A j \in (i + 1) + 1 .. n : code[j] \in Word
            BY <1>1
        <3> QED
            BY <3>1, SubSeqProperties
    <2> HIDE DEF a, b
    <2>3. Len(a) = Len(b) /\ Len(a) \in Nat /\ Len(a) <= (n - 1) - (i + 1) + 1
        BY <1>1, <2>1, <2>2
    <2>4. ASSUME NEW j \in 1 .. Len(a)
          PROVE  a[j] = b[j]
        <3>1. /\ j \in 1 .. (n - 1) - (i + 1) + 1 /\ j \in 1 .. n - ((i + 1) + 1) + 1
              /\ (i + 1) + j - 1 \in 1 .. n - 1
              /\ ((i + 1) + j - 1) + 1 = ((i + 1) + 1) + j - 1
            BY <1>1, <2>3
        <3> QED
            BY <1>1, <2>1, <2>2, <3>1
    <2>5. a = b
        BY <2>1, <2>2, <2>3, <2>4, SeqEqual
    <2> QED
        BY <2>5 DEF a, b
<1>3. Linear(t)
    <2> SUFFICES ASSUME NEW i \in DOMAIN t, t[i].op \in {"get", "set"}
                 PROVE  t[i].arg \in Awaited(SubSeq(t, i + 1, Len(t))) <=> t[i].op = "set"
        BY DEF Linear
    <2>1. i \in 1 .. n - 1 /\ i + 1 \in DOMAIN code /\ t[i] = code[i + 1] /\ Len(t) = n - 1
        BY <1>1
    <2>2. code[i + 1].arg \in Awaited(SubSeq(code, (i + 1) + 1, n)) <=> code[i + 1].op = "set"
        BY <2>1 DEF Linear, n
    <2> QED
        BY <1>2, <2>1, <2>2
<1>4. Head(code).op \in {"get", "set"} =>
        (Head(code).arg \in Awaited(t) <=> Head(code).op = "set")
    <2>1. 1 \in DOMAIN code /\ 1 + 1 = 2
        BY <1>1
    <2>2. code[1].op \in {"get", "set"} =>
            (code[1].arg \in Awaited(SubSeq(code, 1 + 1, n)) <=> code[1].op = "set")
        BY <2>1 DEF Linear, n
    <2> QED
        BY <1>1, <2>1, <2>2
<1> QED
    BY <1>3, <1>4 DEF t

-----------------------------------------------------------------------------
(* The invariant.                                                          *)

Types ==
    /\ node \in [Node -> NodeState]
    /\ mutex \in [Node -> Thread \union {NULL}]
    /\ wire \in [Wire -> Value \union {NULL, FREE}]
    /\ principal_wire \in [PrincipalWire -> [node : Node \union {NULL}, index : Nat,
                                             oppsite : PrincipalWire \union {NULL}]]
    /\ task_pool \subseteq Task
    /\ worker \in [Thread -> WorkerState]
    /\ phase \in {"load", "run", "done"}
    /\ interactions \in Nat

\* What the locals of a worker say of where it is.
Locals(s) ==
    /\ s.pc \in {"idle", "disconnect left", "disconnect right"} =>
         s.code = <<>> /\ s.node = NULL /\ s.found = NoTask
    /\ s.pc \in {"connect", "assertion failed"} <=> s.pair # <<>>
    /\ s.node # NULL => s.pc \in {"input", "output", "connect", "assertion failed"}
    /\ s.pc \in {"input", "output"} => s.node # NULL
    /\ s.task # NoTask <=> s.pc \in {"disconnect left", "disconnect right"}
    /\ s.found # NoTask => s.pc = "add task" \/ s.node # NULL
    /\ s.pc = "add task" => s.found # NoTask
    /\ Linear(s.code)
    /\ \A x \in Awaited(s.code) : s.variables[x] # NULL

\* What is at the ports of a node suits its constructor, and is known by the
\* principal wire that is there.
PortsFit(n) ==
    \A i \in Index : node[n].values[i] # NULL =>
        /\ node[n].ctor \in DOMAIN Ctor
        /\ i \in Port(node[n].ctor)
        /\ node[n].values[i] \in PrincipalWire <=> i \in Ctor[node[n].ctor].principal
        /\ node[n].values[i] \in PrincipalWire =>
             /\ principal_wire[node[n].values[i]].node = n
             /\ principal_wire[node[n].values[i]].index = i

\* A live principal wire is at the port it names.
HasItsPort(p) ==
    \/ principal_wire[p] = Freed
    \/ /\ principal_wire[p].node \in Node
       /\ principal_wire[p].index \in Index
       /\ node[principal_wire[p].node].values[principal_wire[p].index] = p

\* How many references there should be.
Need(v) ==
    IF v \in Wire
    THEN IF wire[v] = FREE THEN 0 ELSE IF wire[v] = NULL THEN 2 ELSE 1
    ELSE IF principal_wire[v] = Freed THEN 0
    ELSE IF principal_wire[v].oppsite = NULL THEN 2 ELSE 1

EndsAreCounted(v) == IsFiniteSet(References(v)) /\ Cardinality(References(v)) = Need(v)

\* The node that a worker reconnects is locked by it, and filled as far as the
\* worker has got.  A wire made for a port that is not principal still has no
\* value, so connect finds no task there; a task that was found came from the
\* principal port, which is behind.
Reconnects(w) ==
    LET s == worker[w]
        n == s.node
        c == Ctor[node[n].ctor]
    IN  n # NULL =>
        /\ mutex[n] = w
        /\ node[n].ctor \in DOMAIN Ctor
        /\ s.pc \in {"input", "connect"} =>
             /\ s.port <= c.input_arity
             /\ \A i \in Port(node[n].ctor) :
                  node[n].values[i] = NULL <=> i < s.port \/ i >= c.input_arity
        /\ s.pc = "output" =>
             /\ s.port >= c.input_arity /\ s.port <= Arity(node[n].ctor)
             /\ \A i \in Port(node[n].ctor) : node[n].values[i] = NULL <=> i >= s.port
        /\ s.pc = "connect" /\ s.port \notin c.principal =>
             /\ s.pair[1] \in Wire /\ wire[s.pair[1]] = NULL
             /\ s.port \in Port(node[n].ctor) /\ node[n].values[s.port] = s.pair[1]
        /\ s.pc = "input" /\ s.found # NoTask => \A i \in c.principal : i >= s.port
        /\ s.pc = "connect" /\ s.found # NoTask => \A i \in c.principal : i > s.port

Both(t) == {t.left, t.right}

\* The principal wires whose nodes a worker alone will disconnect, or publish
\* as a task.
Held(s) ==
    IF s.found # NoTask THEN Both(s.found)
    ELSE IF s.pc = "disconnect left" THEN Both(s.task)
    ELSE IF s.pc = "disconnect right" THEN {s.task.right}
    ELSE {}

ClaimsAreApart ==
    /\ \A w, u \in Thread : w # u => Held(worker[w]) \intersect Held(worker[u]) = {}
    /\ \A w \in Thread : \A t \in task_pool : Both(t) \intersect Held(worker[w]) = {}
    /\ \A t, u \in task_pool : t # u => Both(t) \intersect Both(u) = {}

ClaimsHaveMet ==
    \A w \in Thread : \A p \in Held(worker[w]) : principal_wire[p].oppsite # NULL

Stands(t) ==
    /\ t.left # t.right
    /\ principal_wire[t.left].oppsite = t.right
    /\ principal_wire[t.right].oppsite = t.left
    /\ Rules[t.rule].first = CtorOf(t.left)
    /\ Rules[t.rule].second = CtorOf(t.right)

AllStand == \A t \in LiveTasks : Stands(t)

IInv ==
    /\ Types
    /\ \A w \in Thread : Locals(worker[w])
    /\ \A n \in Node : PortsFit(n)
    /\ \A p \in PrincipalWire : HasItsPort(p)
    /\ \A v \in End : EndsAreCounted(v)
    /\ \A w \in Thread : Reconnects(w)
    /\ UnlockedNodeIsWhole
    /\ ClaimsAreApart
    /\ ClaimsHaveMet
    /\ AllStand

-----------------------------------------------------------------------------
(* Consequences.                                                           *)

LEMMA ReferencesAreNext ==
    ASSUME NEW v
    PROVE  References(v)' = Places(worker', node', wire', v)
<1>1. ASSUME NEW w
      PROVE  InHand(w, v)' = HandPlaces(w, worker'[w], v)
    <2>1. {x \in DOMAIN VariableValues(worker'[w]) : VariableValues(worker'[w])[x] = v}
            = {y \in Variable : /\ worker'[w].variables[y] = v
                               /\ y \in Awaited(worker'[w].code)}
        BY DEF VariableValues, Awaited
    <2> QED
        BY <2>1, Zenon DEF InHand, HandPlaces, TaggedWith
<1> QED
    BY <1>1, Zenon DEF References, Places, PortPlaces, WirePlaces, InNodes, InWires

\* The references to v that are not in w's hand, a port or a wire are r; a step
\* of w leaves them alone.
Balance(w, v, r) ==
    /\ r \in Nat
    /\ Need(v) = r + Count(worker[w].stack, v) + Count(worker[w].pair, v)
                   + Count(VariableValues(worker[w]), v) + PortCount(node, v) + Count(wire, v)
    /\ Count(worker[w].stack, v) \in Nat /\ Count(worker[w].pair, v) \in Nat
    /\ Count(VariableValues(worker[w]), v) \in Nat
    /\ PortCount(node, v) \in Nat /\ Count(wire, v) \in Nat
    /\ \A u \in Thread \ {w} : r >= HandCount(worker[u], v) /\ HandCount(worker[u], v) \in Nat

NextBalance(w, v, r) ==
    LET n == r + Count(worker'[w].stack, v) + Count(worker'[w].pair, v)
               + Count(VariableValues(worker'[w]), v) + PortCount(node', v) + Count(wire', v)
    IN  EndsAreCounted(v)' <=> Need(v)' = n

LEMMA HasBalance ==
    ASSUME IInv, NEW w \in Thread, NEW v \in End
    PROVE  Balance(w, v, Cardinality(Rest(w, worker, v)))
<1> DEFINE r == Cardinality(Rest(w, worker, v))
<1>1. EndsAreCounted(v) /\ worker[w] \in WorkerState /\ DOMAIN wire = Wire
      /\ \A u \in Thread \ {w} : worker[u] \in WorkerState
    BY DEF IInv, Types
<1>2. References(v) = Places(worker, node, wire, v)
    BY ReferencesAre
<1>3. IsFiniteSet(Rest(w, worker, v))
    BY <1>1, <1>2, RestIsFinite DEF EndsAreCounted
<1>4. /\ Need(v) = r + HandCount(worker[w], v) + PortCount(node, v) + Count(wire, v)
      /\ r \in Nat /\ HandCount(worker[w], v) \in Nat
      /\ PortCount(node, v) \in Nat /\ Count(wire, v) \in Nat
    BY <1>1, <1>2, <1>3, PlacesCount DEF EndsAreCounted
<1>5. /\ Count(worker[w].stack, v) \in Nat /\ Count(worker[w].pair, v) \in Nat
      /\ Count(VariableValues(worker[w]), v) \in Nat
    BY <1>1, HandIs
<1>6. ASSUME NEW u \in Thread \ {w}
      PROVE  r >= HandCount(worker[u], v) /\ HandCount(worker[u], v) \in Nat
    <2>1. r >= HandCount(worker[u], v)
        BY <1>1, <1>3, OthersHold
    <2>2. worker[u] \in WorkerState
        BY <1>1
    <2>3. /\ Count(worker[u].stack, v) \in Nat /\ Count(worker[u].pair, v) \in Nat
          /\ Count(VariableValues(worker[u]), v) \in Nat
        BY <2>2, HandIs
    <2>4. HandCount(worker[u], v) \in Nat
        BY <2>3 DEF HandCount
    <2> QED
        BY <2>1, <2>4
<1> HIDE DEF r
<1>7. HandCount(worker[w], v) = Count(worker[w].stack, v) + Count(worker[w].pair, v)
                                  + Count(VariableValues(worker[w]), v)
    BY DEF HandCount
<1>8. Need(v) = r + Count(worker[w].stack, v) + Count(worker[w].pair, v)
                   + Count(VariableValues(worker[w]), v) + PortCount(node, v) + Count(wire, v)
    BY <1>4, <1>5, <1>7
<1>9. Balance(w, v, r)
    BY <1>4, <1>5, <1>6, <1>8, Zenon DEF Balance
<1> QED
    BY <1>9 DEF r

LEMMA HasNextBalance ==
    ASSUME IInv, NEW w \in Thread, NEW v \in End,
           \A u \in Thread \ {w} : worker'[u] = worker[u],
           worker'[w] \in WorkerState, DOMAIN wire' = Wire
    PROVE  NextBalance(w, v, Cardinality(Rest(w, worker, v)))
<1> DEFINE r == Cardinality(Rest(w, worker, v))
<1>1. EndsAreCounted(v) /\ References(v) = Places(worker, node, wire, v)
    BY ReferencesAre DEF IInv
<1>2. IsFiniteSet(Rest(w, worker, v))
    BY <1>1, RestIsFinite DEF EndsAreCounted
<1>3. Rest(w, worker', v) = Rest(w, worker, v)
    BY DEF Rest
<1>4. References(v)' = Places(worker', node', wire', v)
    BY ReferencesAreNext
<1>5. /\ IsFiniteSet(References(v)')
      /\ Cardinality(References(v)')
            = r + HandCount(worker'[w], v) + PortCount(node', v) + Count(wire', v)
      /\ r \in Nat /\ PortCount(node', v) \in Nat /\ Count(wire', v) \in Nat
    BY <1>2, <1>3, <1>4, PlacesCount
<1>6. /\ Count(worker'[w].stack, v) \in Nat /\ Count(worker'[w].pair, v) \in Nat
      /\ Count(VariableValues(worker'[w]), v) \in Nat
    BY HandIs
<1> HIDE DEF r
<1>7. HandCount(worker'[w], v) = Count(worker'[w].stack, v) + Count(worker'[w].pair, v)
                                  + Count(VariableValues(worker'[w]), v)
    BY DEF HandCount
<1>8. Cardinality(References(v)')
        = r + Count(worker'[w].stack, v) + Count(worker'[w].pair, v)
            + Count(VariableValues(worker'[w]), v) + PortCount(node', v) + Count(wire', v)
    BY <1>5, <1>6, <1>7
<1>9. EndsAreCounted(v)' <=> IsFiniteSet(References(v)') /\ Cardinality(References(v)') = Need(v)'
    BY DEF EndsAreCounted
<1>10. NextBalance(w, v, r)
    BY <1>5, <1>8, <1>9 DEF NextBalance
<1> QED
    BY <1>10 DEF r

-----------------------------------------------------------------------------
(* What most steps leave as it is.                                         *)

\* The tasks a worker has found or is about to handle.
TasksOf(s) == ({s.found} \union (IF s.pc = "disconnect left" THEN {s.task} ELSE {})) \ {NoTask}

LEMMA LiveTasksAre ==
    \A t : t \in LiveTasks <=> (t \in task_pool /\ t # NoTask) \/ \E w \in Thread : t \in TasksOf(worker[w])
BY DEF LiveTasks, TasksOf, At

LEMMA LiveTasksAreNext ==
    \A t : t \in LiveTasks' <=> (t \in task_pool' /\ t # NoTask) \/ \E w \in Thread : t \in TasksOf(worker'[w])
BY DEF LiveTasks, TasksOf, At

LEMMA TasksAre ==
    /\ NoTask \notin Task
    /\ \A t \in Task : t.left \in PrincipalWire /\ t.right \in PrincipalWire /\ t.rule \in DOMAIN Rules
BY ValuesAre DEF NoTask, Task, NULL

LEMMA TasksAreHeld ==
    ASSUME NEW s \in WorkerState, Locals(s), NEW t \in TasksOf(s)
    PROVE  Both(t) \subseteq Held(s) /\ t \in Task
BY DEF TasksOf, Locals, Held, WorkerState

LEMMA HeldAre ==
    ASSUME NEW s \in WorkerState, Locals(s)
    PROVE  Held(s) \subseteq PrincipalWire
BY TasksAre, ZenonT(40) DEF Locals, Held, Both, WorkerState

\* A step of w that frees no more than principal wires it held, and leaves the
\* others, if they have met, and their nodes as they are.
LEMMA ClaimsStay ==
    ASSUME IInv, NEW w \in Thread, NEW Gone,
           \A u \in Thread \ {w} : worker'[u] = worker[u],
           Held(worker'[w]) \subseteq Held(worker[w]) \ Gone,
           TasksOf(worker'[w]) \subseteq TasksOf(worker[w]),
           \A t \in TasksOf(worker'[w]) : Both(t) \intersect Gone = {},
           Gone \subseteq Held(worker[w]),
           task_pool' = task_pool,
           \A p \in PrincipalWire \ Gone : principal_wire[p].oppsite # NULL =>
                /\ principal_wire'[p].oppsite = principal_wire[p].oppsite
                /\ CtorOf(p)' = CtorOf(p)
    PROVE  ClaimsAreApart' /\ ClaimsHaveMet' /\ AllStand'
<1>1. /\ task_pool \subseteq Task
      /\ \A u \in Thread : worker[u] \in WorkerState /\ Locals(worker[u])
      /\ ClaimsAreApart /\ ClaimsHaveMet /\ AllStand
    BY DEF IInv, Types
<1>2. \A u \in Thread : Held(worker'[u]) \subseteq Held(worker[u])
    OBVIOUS
<1>3. ClaimsAreApart'
    BY <1>1, <1>2 DEF ClaimsAreApart
<1>4. \A u \in Thread : Held(worker'[u]) \intersect Gone = {}
    BY <1>1 DEF ClaimsAreApart
<1>5. ClaimsHaveMet'
    <2> SUFFICES ASSUME NEW u \in Thread, NEW p \in Held(worker'[u])
                 PROVE  principal_wire'[p].oppsite # NULL
        BY DEF ClaimsHaveMet
    <2>1. p \in Held(worker[u]) /\ p \notin Gone /\ p \in PrincipalWire
        BY <1>1, <1>2, <1>4, HeldAre
    <2> QED
        BY <1>1, <2>1 DEF ClaimsHaveMet
<1>6. AllStand'
    <2> SUFFICES ASSUME NEW t \in LiveTasks'
                 PROVE  Stands(t)'
        BY DEF AllStand
    <2>1. t \in LiveTasks /\ Both(t) \intersect Gone = {} /\ t \in Task
        <3>1. CASE t \in task_pool
            BY <1>1, <3>1, LiveTasksAre, TasksAre DEF ClaimsAreApart
        <3>2. CASE \E u \in Thread \ {w} : t \in TasksOf(worker[u])
            <4>1. PICK u \in Thread \ {w} : t \in TasksOf(worker[u])
                BY <3>2
            <4>2. Both(t) \subseteq Held(worker[u]) /\ t \in Task
                BY <1>1, <4>1, TasksAreHeld
            <4>3. Held(worker[u]) \intersect Gone = {}
                BY <1>4, <4>1
            <4> QED
                BY <4>1, <4>2, <4>3, LiveTasksAre
        <3>3. CASE t \in TasksOf(worker'[w])
            <4>1. t \in TasksOf(worker[w])
                BY <3>3
            <4>2. t \in Task
                BY <1>1, <4>1, TasksAreHeld
            <4> QED
                BY <3>3, <4>1, <4>2, LiveTasksAre
        <3> QED
            BY <3>1, <3>2, <3>3, LiveTasksAreNext
    <2>2. t.left \in PrincipalWire \ Gone /\ t.right \in PrincipalWire \ Gone
        BY <2>1, TasksAre DEF Both
    <2>3. Stands(t)
        BY <1>1, <2>1 DEF AllStand
    <2>4. principal_wire[t.left].oppsite # NULL /\ principal_wire[t.right].oppsite # NULL
        BY <2>2, <2>3, ValuesAre DEF Stands, NULL
    <2> QED
        BY <2>2, <2>3, <2>4 DEF Stands
<1> QED
    BY <1>3, <1>5, <1>6

\* The node another worker reconnects is not touched, nor is a wire it has made
\* for a port and still holds.
LEMMA OthersReconnect ==
    ASSUME IInv, NEW u \in Thread, worker'[u] = worker[u],
           \A n \in Node : mutex[n] = u => node'[n] = node[n] /\ mutex'[n] = mutex[n],
           \A x \in Wire : wire[x] = NULL /\ PortCount(node, x) >= 1 /\ HandCount(worker[u], x) >= 1
                => wire'[x] = NULL
    PROVE  Reconnects(u)'
<1> DEFINE s == worker[u]
           n == s.node
           c == Ctor[node[n].ctor]
<1>1. Reconnects(u) /\ s \in WorkerState /\ Locals(s)
    BY DEF IInv, Types
<1>2. CASE n = NULL
    BY <1>2, SMTT(30) DEF Reconnects
<1>3. CASE n # NULL
    <2>1. n \in Node /\ mutex[n] = u /\ node[n].ctor \in DOMAIN Ctor
        BY <1>1, <1>3 DEF Reconnects, WorkerState
    <2>2. node'[n] = node[n] /\ mutex'[n] = mutex[n]
        BY <2>1
    <2>3. ASSUME s.pc = "connect", s.port \notin c.principal
          PROVE  wire'[s.pair[1]] = NULL
        <3> DEFINE x == s.pair[1]
        <3>1. /\ x \in Wire /\ wire[x] = NULL
              /\ s.port \in Port(node[n].ctor) /\ node[n].values[s.port] = x
            BY <1>1, <1>3, <2>3 DEF Reconnects
        <3>2. PortCount(node, x) >= 1
            <4>1. s.port \in Index
                BY <2>1, <3>1, PortsOf
            <4>2. <<n, s.port>> \in DOMAIN PortValues(node) /\ PortValues(node)[<<n, s.port>>] = x
                BY <2>1, <3>1, <4>1 DEF PortValues
            <4>3. IsFiniteSet(DOMAIN PortValues(node))
                BY PortsAre
            <4> HIDE DEF x
            <4>4. Count(PortValues(node), PortValues(node)[<<n, s.port>>]) >= 1
                BY <4>2, <4>3, CountIsPositive
            <4> QED
                BY <4>2, <4>4 DEF PortCount
        <3>3. HandCount(s, x) >= 1
            <4>1. s.pair \in Value \X Value
                BY <1>1, <2>3 DEF Locals, WorkerState
            <4>2. PICK a \in Value, b \in Value : s.pair = <<a, b>>
                BY <4>1
            <4>3. x = a
                BY <4>2
            <4> HIDE DEF x
            <4>4. Count(s.pair, x) = OneIf(a, x) + OneIf(b, x)
                BY <4>2, CountPair
            <4>5. Count(s.stack, x) \in Nat /\ Count(VariableValues(s), x) \in Nat
                BY <1>1, HandIs
            <4> QED
                BY <4>3, <4>4, <4>5 DEF HandCount, OneIf
        <3> HIDE DEF x
        <3> QED
            BY <3>1, <3>2, <3>3 DEF x
    <2> QED
        BY <1>1, <1>3, <2>1, <2>2, <2>3 DEF Reconnects
<1> QED
    BY <1>2, <1>3

\* A step of w that leaves the heap as it is.
LEMMA HeapStays ==
    ASSUME IInv, NEW w \in Thread, UNCHANGED heap,
           \A u \in Thread \ {w} : worker'[u] = worker[u],
           worker' \in [Thread -> WorkerState],
           Locals(worker'[w]), Reconnects(w)',
           \A v \in End : HandCount(worker'[w], v) = HandCount(worker[w], v),
           task_pool' \subseteq Task, phase' \in {"load", "run", "done"}, interactions' \in Nat,
           ClaimsAreApart', ClaimsHaveMet', AllStand'
    PROVE  IInv'
<1>1. UNCHANGED <<node, mutex, wire, principal_wire>>
    BY DEF heap
<1>2. Types'
    BY <1>1 DEF IInv, Types
<1>3. \A u \in Thread : Locals(worker[u])'
    BY DEF IInv
<1>4. (\A n \in Node : PortsFit(n)') /\ (\A p \in PrincipalWire : HasItsPort(p)') /\ UnlockedNodeIsWhole'
    BY <1>1 DEF IInv, PortsFit, HasItsPort, UnlockedNodeIsWhole
<1>5. ASSUME NEW v \in End
      PROVE  EndsAreCounted(v)'
    <2> DEFINE r == Cardinality(Rest(w, worker, v))
    <2>1. worker'[w] \in WorkerState /\ DOMAIN wire' = Wire
        BY <1>2 DEF Types
    <2>2. Balance(w, v, r) /\ NextBalance(w, v, r)
        BY <2>1, HasBalance, HasNextBalance
    <2>3. HandCount(worker'[w], v) = HandCount(worker[w], v)
        OBVIOUS
    <2>4. Need(v)' = Need(v) /\ PortCount(node', v) = PortCount(node, v) /\ Count(wire', v) = Count(wire, v)
        BY <1>1 DEF Need
    <2>5. /\ Count(worker'[w].stack, v) \in Nat /\ Count(worker'[w].pair, v) \in Nat
          /\ Count(VariableValues(worker'[w]), v) \in Nat
        BY <2>1, HandIs
    <2> HIDE DEF r
    <2> QED
        BY <2>2, <2>3, <2>4, <2>5 DEF Balance, NextBalance, HandCount
<1>6. \A u \in Thread : Reconnects(u)'
    BY <1>1, OthersReconnect
<1> QED
    BY <1>2, <1>3, <1>4, <1>5, <1>6 DEF IInv

-----------------------------------------------------------------------------
(* Steps of one worker alone.                                              *)

LEMMA WorkerIs ==
    ASSUME IInv, NEW w \in Thread
    PROVE  /\ worker[w] \in WorkerState
           /\ Locals(worker[w])
           /\ worker \in [Thread -> WorkerState]
BY DEF IInv, Types

LEMMA Becomes ==
    ASSUME IInv, NEW w \in Thread, NEW self \in WorkerState, Become(w, self)
    PROVE  /\ worker'[w] = self
           /\ \A u \in Thread \ {w} : worker'[u] = worker[u]
           /\ worker' \in [Thread -> WorkerState]
BY WorkerIs DEF Become

LEMMA SameHand ==
    ASSUME NEW s, NEW t, NEW v, t.stack = s.stack, t.pair = s.pair,
           t.code = s.code, t.variables = s.variables
    PROVE  HandCount(t, v) = HandCount(s, v)
BY DEF HandCount, VariableValues

\* A body that is begun awaits nothing.
LEMMA BodyIs ==
    ASSUME LinearBodies, NEW r \in DOMAIN Rules
    PROVE  /\ Rules[r].body \in Seq(Word)
           /\ Awaited(Rules[r].body) = {}
           /\ Linear(Rules[r].body)
<1> DEFINE R == [first : DOMAIN Ctor, second : DOMAIN Ctor, body : Seq(Word)]
<1>1. Rules[r] \in R
    <2>1. Rules \in Seq(R)
        BY BodyAssumption
    <2> HIDE DEF R
    <2> QED
        BY <2>1
<1>2. Rules[r].body \in Bodies
    BY DEF Bodies
<1> QED
    BY <1>1, <1>2, BodyAssumption DEF LinearBodies

LEMMA RestOfWord ==
    ASSUME NEW code \in Seq(Word), code # <<>>, Head(code).op \notin {"get", "set"}
    PROVE  Awaited(Tail(code)) = Awaited(code)
<1>1. ASSUME NEW x \in Variable
      PROVE  x \in Awaited(code) <=> x \in Awaited(Tail(code))
    <2>1. /\ [op |-> "get", arg |-> x].op = "get" /\ [op |-> "set", arg |-> x].op = "set"
          /\ Head(code).op # "get" /\ Head(code).op # "set"
        OBVIOUS
    <2>2. Head(code) # [op |-> "get", arg |-> x] /\ Head(code) # [op |-> "set", arg |-> x]
        BY <2>1, Zenon
    <2> QED
        BY <2>2, AwaitedFirst
<1> QED
    BY <1>1 DEF Awaited

LEMMA NoHand ==
    ASSUME NEW s, s.code = <<>>, NEW v
    PROVE  Count(VariableValues(s), v) = 0
<1>1. {x \in DOMAIN VariableValues(s) : VariableValues(s)[x] = v} = {}
    BY NothingAwaited DEF VariableValues
<1> QED
    BY <1>1, FS_EmptySet DEF Count

LEMMA TakeTaskKeeps ==
    ASSUME IInv, NEW w \in Thread, TakeTask(w)
    PROVE  IInv'
<1> DEFINE s == worker[w]
<1>1. PICK t \in task_pool :
        /\ task_pool' = task_pool \ {t}
        /\ Become(w, [s EXCEPT !.pc = "disconnect left", !.task = t])
    BY DEF TakeTask
<1>2. UNCHANGED <<heap, phase, interactions>> /\ s.pc = "idle"
    BY DEF TakeTask, At
<1>3. s \in WorkerState /\ Locals(s) /\ t \in Task /\ task_pool \subseteq Task /\ t # NoTask
    BY WorkerIs, TasksAre DEF IInv, Types
<1> DEFINE s2 == [s EXCEPT !.pc = "disconnect left", !.task = t]
<1>4. /\ s2 \in WorkerState
      /\ s2.pc = "disconnect left" /\ s2.task = t /\ s2.stack = s.stack /\ s2.code = s.code
      /\ s2.variables = s.variables /\ s2.node = s.node /\ s2.pair = s.pair /\ s2.found = s.found
    BY <1>3 DEF WorkerState, Label
<1>5. /\ worker'[w] = s2
      /\ \A u \in Thread \ {w} : worker'[u] = worker[u]
      /\ worker' \in [Thread -> WorkerState]
    BY <1>1, <1>4, Becomes
<1>6. s.found = NoTask /\ s.node = NULL /\ s.code = <<>> /\ s.pair = <<>>
    BY <1>2, <1>3 DEF Locals
<1> HIDE DEF s2
<1>7. Locals(s2)
    BY <1>2, <1>3, <1>4, <1>6 DEF Locals
<1>8. Reconnects(w)'
    BY <1>4, <1>5, <1>6 DEF Reconnects
<1>9. \A v \in End : HandCount(s2, v) = HandCount(s, v)
    BY <1>4, SameHand
<1>10. Held(s2) = Both(t) /\ TasksOf(s2) = {t}
    BY <1>3, <1>4, <1>6 DEF Held, TasksOf
<1>11. ClaimsAreApart /\ ClaimsHaveMet /\ AllStand
    BY DEF IInv
<1>12. ClaimsAreApart'
    BY <1>1, <1>5, <1>10, <1>11 DEF ClaimsAreApart
<1>13. Stands(t)
    BY <1>3, <1>11, LiveTasksAre DEF AllStand
<1>14. ClaimsHaveMet'
    <2>1. \A p \in Both(t) : principal_wire[p].oppsite # NULL
        BY <1>3, <1>13, TasksAre, ValuesAre DEF Stands, Both, NULL
    <2> QED
        BY <1>2, <1>5, <1>10, <1>11, <2>1 DEF ClaimsHaveMet, heap
<1>15. AllStand'
    <2> SUFFICES ASSUME NEW t2 \in LiveTasks'
                 PROVE  Stands(t2)'
        BY DEF AllStand
    <2>1. t2 \in LiveTasks
        BY <1>1, <1>3, <1>5, <1>10, LiveTasksAre, LiveTasksAreNext
    <2> QED
        BY <1>2, <1>11, <2>1 DEF AllStand, Stands, CtorOf, heap
<1> QED
    BY <1>1, <1>2, <1>3, <1>5, <1>7, <1>8, <1>9, <1>12, <1>14, <1>15, HeapStays DEF IInv, Types

LEMMA EndRuleKeeps ==
    ASSUME IInv, NEW w \in Thread, EndRule(w)
    PROVE  IInv'
<1> DEFINE s == worker[w]
           s2 == [Idle EXCEPT !.stack = s.stack]
<1>1. /\ s.pc = "execute" /\ s.code = <<>> /\ Become(w, s2)
      /\ interactions' = interactions + 1 /\ UNCHANGED <<heap, task_pool, phase>>
    BY DEF EndRule, At
<1>2. s \in WorkerState /\ Locals(s)
    BY WorkerIs
<1>3. /\ s2.pc = "idle" /\ s2.task = NoTask /\ s2.stack = s.stack /\ s2.code = <<>>
      /\ s2.node = NULL /\ s2.pair = <<>> /\ s2.found = NoTask
    BY DEF Idle
<1>4. s2 \in WorkerState
    <2>1. <<>> \in Seq(Word)
        OBVIOUS
    <2>2. [x \in Variable |-> NULL] \in [Variable -> Value \union {NULL}]
        OBVIOUS
    <2> QED
        BY <1>2, <2>1, <2>2 DEF Idle, WorkerState, Label
<1>5. /\ worker'[w] = s2
      /\ \A u \in Thread \ {w} : worker'[u] = worker[u]
      /\ worker' \in [Thread -> WorkerState]
    BY <1>1, <1>4, Becomes
<1>6. s.node = NULL /\ s.pair = <<>> /\ s.found = NoTask /\ s.task = NoTask
    BY <1>1, <1>2 DEF Locals
<1> HIDE DEF s2
<1>7. Locals(s2)
    BY <1>3, NothingAwaited DEF Locals
<1>8. Reconnects(w)'
    BY <1>3, <1>5 DEF Reconnects
<1>9. ASSUME NEW v \in End
      PROVE  HandCount(s2, v) = HandCount(s, v)
    <2>1. Count(VariableValues(s2), v) = 0 /\ Count(VariableValues(s), v) = 0
        BY <1>1, <1>3, NoHand
    <2> QED
        BY <1>3, <1>6, <2>1 DEF HandCount
<1>10. Held(s2) = {} /\ TasksOf(s2) = {}
    BY <1>3 DEF Held, TasksOf
<1>11. ClaimsAreApart' /\ ClaimsHaveMet' /\ AllStand'
    <2>1. \A p \in PrincipalWire : principal_wire'[p] = principal_wire[p] /\ CtorOf(p)' = CtorOf(p)
        BY <1>1 DEF heap, CtorOf
    <2> QED
        BY <1>1, <1>5, <1>10, <2>1, ClaimsStay
<1>12. task_pool' \subseteq Task /\ phase' \in {"load", "run", "done"} /\ interactions' \in Nat
    BY <1>1 DEF IInv, Types
<1> QED
    BY <1>1, <1>5, <1>7, <1>8, <1>9, <1>11, <1>12, HeapStays

LEMMA AddTaskKeeps ==
    ASSUME IInv, NEW w \in Thread, AddTask(w)
    PROVE  IInv'
<1> DEFINE s == worker[w]
           t == s.found
           s2 == [s EXCEPT !.pc = "execute", !.found = NoTask]
<1>1. /\ s.pc = "add task" /\ Become(w, s2)
      /\ task_pool' = task_pool \union {t} /\ UNCHANGED <<heap, phase, interactions>>
    BY DEF AddTask, At
<1>2. s \in WorkerState /\ Locals(s)
    BY WorkerIs
<1>3. /\ s2 \in WorkerState
      /\ s2.pc = "execute" /\ s2.task = s.task /\ s2.stack = s.stack /\ s2.code = s.code
      /\ s2.variables = s.variables /\ s2.node = s.node /\ s2.pair = s.pair /\ s2.found = NoTask
    BY <1>2 DEF WorkerState, Label
<1>4. /\ worker'[w] = s2
      /\ \A u \in Thread \ {w} : worker'[u] = worker[u]
      /\ worker' \in [Thread -> WorkerState]
    BY <1>1, <1>3, Becomes
<1>5. s.node = NULL /\ s.pair = <<>> /\ t # NoTask /\ s.task = NoTask /\ t \in Task
    BY <1>1, <1>2 DEF Locals, WorkerState
<1> HIDE DEF s2
<1>6. Locals(s2)
    BY <1>1, <1>2, <1>3, <1>5 DEF Locals
<1>7. Reconnects(w)'
    BY <1>3, <1>4, <1>5 DEF Reconnects
<1>8. \A v \in End : HandCount(s2, v) = HandCount(s, v)
    BY <1>3, SameHand
<1>9. Held(s) = Both(t) /\ t \in TasksOf(s) /\ Held(s2) = {} /\ TasksOf(s2) = {}
    BY <1>3, <1>5 DEF Held, TasksOf
<1>10. ClaimsAreApart /\ ClaimsHaveMet /\ AllStand /\ task_pool \subseteq Task
    BY DEF IInv, Types
<1>11. ClaimsAreApart'
    <2>1. \A u \in Thread : Held(worker'[u]) \subseteq Held(worker[u])
        BY <1>4, <1>9
    <2>2. \A u \in Thread : Both(t) \intersect Held(worker'[u]) = {}
        BY <1>4, <1>9, <1>10 DEF ClaimsAreApart
    <2>3. \A t2 \in task_pool : Both(t) \intersect Both(t2) = {}
        BY <1>9, <1>10 DEF ClaimsAreApart
    <2> QED
        BY <1>1, <1>10, <2>1, <2>2, <2>3 DEF ClaimsAreApart
<1>12. ClaimsHaveMet'
    BY <1>1, <1>4, <1>9, <1>10 DEF ClaimsHaveMet, heap
<1>13. AllStand'
    <2> SUFFICES ASSUME NEW t2 \in LiveTasks'
                 PROVE  Stands(t2)'
        BY DEF AllStand
    <2>1. t2 \in LiveTasks
        BY <1>1, <1>4, <1>9, LiveTasksAre, LiveTasksAreNext
    <2> QED
        BY <1>1, <1>10, <2>1 DEF AllStand, Stands, CtorOf, heap
<1>14. task_pool' \subseteq Task /\ phase' \in {"load", "run", "done"} /\ interactions' \in Nat
    BY <1>1, <1>5 DEF IInv, Types
<1> QED
    BY <1>1, <1>4, <1>6, <1>7, <1>8, <1>11, <1>12, <1>13, <1>14, HeapStays

\* A step of w in its own code and locals: it claims what it claimed.
LEMMA OwnStep ==
    ASSUME IInv, NEW w \in Thread, NEW s2 \in WorkerState, Become(w, s2),
           UNCHANGED <<heap, task_pool, phase, interactions>>,
           s2.found = worker[w].found, s2.task = worker[w].task,
           worker[w].pc \notin {"disconnect left", "disconnect right"},
           s2.pc \notin {"disconnect left", "disconnect right"},
           Locals(s2), Reconnects(w)',
           \A v \in End : HandCount(s2, v) = HandCount(worker[w], v)
    PROVE  IInv'
<1>1. /\ worker'[w] = s2
      /\ \A u \in Thread \ {w} : worker'[u] = worker[u]
      /\ worker' \in [Thread -> WorkerState]
    BY Becomes
<1>2. Held(s2) = Held(worker[w]) /\ TasksOf(s2) = TasksOf(worker[w])
    BY DEF Held, TasksOf
<1>3. ClaimsAreApart' /\ ClaimsHaveMet' /\ AllStand'
    <2>1. \A p \in PrincipalWire : principal_wire'[p] = principal_wire[p] /\ CtorOf(p)' = CtorOf(p)
        BY DEF heap, CtorOf
    <2>2. Held(worker'[w]) \subseteq Held(worker[w]) \ {}
        BY <1>1, <1>2
    <2>3. \A t \in TasksOf(worker'[w]) : Both(t) \intersect {} = {}
        OBVIOUS
    <2> QED
        BY <1>1, <1>2, <2>1, <2>2, <2>3, ClaimsStay
<1>4. task_pool' \subseteq Task /\ phase' \in {"load", "run", "done"} /\ interactions' \in Nat
    BY DEF IInv, Types
<1> QED
    BY <1>1, <1>3, <1>4, HeapStays

\* A worker that fetches an opcode is in no other function.
LEMMA FetchIs ==
    ASSUME IInv, NEW w \in Thread, NEW op, Fetch(w, op)
    PROVE  /\ worker[w].pc = "execute" /\ worker[w].node = NULL /\ worker[w].pair = <<>>
           /\ worker[w].task = NoTask /\ worker[w].found = NoTask
           /\ worker[w].code \in Seq(Word) /\ worker[w].code # <<>>
           /\ Linear(worker[w].code)
           /\ Head(worker[w].code) \in Word /\ Head(worker[w].code).op = op
           /\ Tail(worker[w].code) \in Seq(Word) /\ Linear(Tail(worker[w].code))
<1>1. worker[w] \in WorkerState /\ Locals(worker[w])
    BY WorkerIs
<1>2. worker[w].pc = "execute" /\ worker[w].code # <<>> /\ Head(worker[w].code).op = op
    BY DEF Fetch, At
<1>3. worker[w].code \in Seq(Word) /\ Linear(worker[w].code)
    BY <1>1 DEF WorkerState, Locals
<1>4. Head(worker[w].code) \in Word /\ Tail(worker[w].code) \in Seq(Word) /\ Linear(Tail(worker[w].code))
    BY <1>2, <1>3, RestOfCode, LinearRest
<1> QED
    BY <1>1, <1>2, <1>3, <1>4 DEF Locals

LEMMA WordIs ==
    ASSUME NEW word \in Word
    PROVE  /\ word = [op |-> word.op, arg |-> word.arg]
           /\ word.op \in {"get", "set"} => word.arg \in Variable
           /\ word.op = "node" => word.arg \in DOMAIN Ctor
           /\ word.op = "literal" => word.arg \in Number
<1>1. CASE word \in [op : {"get", "set"}, arg : Variable]
    BY <1>1
<1>2. CASE word \in [op : {"node"}, arg : DOMAIN Ctor]
    BY <1>2
<1>3. CASE word \in [op : {"link", "connect"}, arg : {""}]
    BY <1>3
<1>4. CASE word \in [op : {"literal"}, arg : Number]
    BY <1>4
<1> QED
    BY <1>1, <1>2, <1>3, <1>4 DEF Word

LEMMA LiteralKeeps ==
    ASSUME IInv, NEW w \in Thread, Literal(w)
    PROVE  IInv'
<1> DEFINE s == worker[w]
           u == Argument(w)
           s2 == [Fetched(w) EXCEPT !.stack = Append(@, u)]
           rest == Tail(s.code)
<1>1. /\ Fetch(w, "literal") /\ Become(w, s2)
      /\ UNCHANGED <<heap, task_pool, phase, interactions>>
    BY DEF Literal
<1>2. s \in WorkerState /\ Locals(s)
    BY WorkerIs
<1>3. /\ s.pc = "execute" /\ s.node = NULL /\ s.pair = <<>> /\ s.task = NoTask /\ s.found = NoTask
      /\ s.code \in Seq(Word) /\ s.code # <<>> /\ Linear(s.code)
      /\ Head(s.code) \in Word /\ Head(s.code).op = "literal" /\ rest \in Seq(Word) /\ Linear(rest)
    BY <1>1, FetchIs
<1>4. Awaited(rest) = Awaited(s.code)
    BY <1>3, RestOfWord
<1>5. u \in Value /\ u \notin End
    BY <1>3, WordIs, NumbersAre DEF Argument
<1>6. Append(s.stack, u) \in Seq(Value) /\ s.stack \in Seq(Value)
    BY <1>2, <1>5 DEF WorkerState
<1> HIDE DEF u, rest
<1>7. /\ s2 \in WorkerState
      /\ s2.pc = "execute" /\ s2.task = NoTask /\ s2.stack = Append(s.stack, u) /\ s2.code = rest
      /\ s2.variables = s.variables /\ s2.node = NULL /\ s2.pair = <<>> /\ s2.found = NoTask
    BY <1>2, <1>3, <1>6 DEF Fetched, WorkerState, rest
<1> HIDE DEF s2
<1>8. Locals(s2)
    BY <1>2, <1>3, <1>4, <1>7 DEF Locals
<1>9. worker'[w] = s2
    BY <1>1, <1>7, Becomes
<1>10. Reconnects(w)'
    BY <1>7, <1>9 DEF Reconnects
<1>11. ASSUME NEW v \in End
       PROVE  HandCount(s2, v) = HandCount(s, v)
    <2>1. VariableValues(s2) = VariableValues(s)
        BY <1>4, <1>7 DEF VariableValues
    <2>2. Count(Append(s.stack, u), v) = Count(s.stack, v) + OneIf(u, v)
        BY <1>5, <1>6, CountAppend
    <2>3. OneIf(u, v) = 0 /\ Count(s.stack, v) \in Nat
        BY <1>2, <1>5, HandIs DEF OneIf
    <2>4. Count(s2.stack, v) = Count(s.stack, v)
        BY <1>7, <2>2, <2>3
    <2> QED
        BY <1>3, <1>7, <2>1, <2>4 DEF HandCount
<1> QED
    BY <1>1, <1>3, <1>7, <1>8, <1>10, <1>11, OwnStep

LEMMA GetVariableKeeps ==
    ASSUME IInv, NEW w \in Thread, GetVariable(w)
    PROVE  IInv'
<1> DEFINE s == worker[w]
           x == Argument(w)
           u == s.variables[x]
           s2 == [Fetched(w) EXCEPT !.stack = Append(@, u)]
           rest == Tail(s.code)
<1>1. /\ Fetch(w, "get") /\ Become(w, s2)
      /\ UNCHANGED <<heap, task_pool, phase, interactions>>
    BY DEF GetVariable
<1>2. s \in WorkerState /\ Locals(s)
    BY WorkerIs
<1>3. /\ s.pc = "execute" /\ s.node = NULL /\ s.pair = <<>> /\ s.task = NoTask /\ s.found = NoTask
      /\ s.code \in Seq(Word) /\ s.code # <<>> /\ Linear(s.code)
      /\ Head(s.code) \in Word /\ Head(s.code).op = "get" /\ rest \in Seq(Word) /\ Linear(rest)
    BY <1>1, FetchIs
<1>4. x \in Variable /\ Head(s.code) = [op |-> "get", arg |-> x] /\ x = Head(s.code).arg
    BY <1>3, WordIs DEF Argument
<1>5. x \in Awaited(s.code) /\ x \notin Awaited(rest)
    <2>1. x \in Awaited(s.code)
        BY <1>3, <1>4, AwaitedFirst
    <2>2. x \notin Awaited(rest)
        BY <1>3, <1>4, LinearRest
    <2> QED
        BY <2>1, <2>2
<1>6. Awaited(s.code) = Awaited(rest) \union {x}
    <2>1. ASSUME NEW y \in Variable, y # x
          PROVE  y \in Awaited(s.code) <=> y \in Awaited(rest)
        <3>1. Head(s.code) # [op |-> "get", arg |-> y] /\ Head(s.code) # [op |-> "set", arg |-> y]
            <4>1. [op |-> "get", arg |-> y].arg = y /\ [op |-> "set", arg |-> y].arg = y
                OBVIOUS
            <4> QED
                BY <1>4, <2>1, <4>1, Zenon
        <3> QED
            BY <1>3, <3>1, AwaitedFirst
    <2> QED
        BY <1>4, <1>5, <2>1 DEF Awaited
<1>7. u \in Value
    BY <1>2, <1>4, <1>5 DEF Locals, WorkerState
<1>8. Append(s.stack, u) \in Seq(Value) /\ s.stack \in Seq(Value)
    BY <1>2, <1>7 DEF WorkerState
<1> HIDE DEF x, u, rest
<1>9. /\ s2 \in WorkerState
      /\ s2.pc = "execute" /\ s2.task = NoTask /\ s2.stack = Append(s.stack, u) /\ s2.code = rest
      /\ s2.variables = s.variables /\ s2.node = NULL /\ s2.pair = <<>> /\ s2.found = NoTask
    BY <1>2, <1>3, <1>8 DEF Fetched, WorkerState, rest
<1> HIDE DEF s2
<1>10. Locals(s2)
    BY <1>2, <1>3, <1>6, <1>9 DEF Locals
<1>11. worker'[w] = s2
    BY <1>1, <1>9, Becomes
<1>12. Reconnects(w)'
    BY <1>9, <1>11 DEF Reconnects
<1>13. ASSUME NEW v \in End
       PROVE  HandCount(s2, v) = HandCount(s, v)
    <2> DEFINE f == VariableValues(s2)
               g == VariableValues(s)
    <2>1. OneMore(f, g, x) /\ g[x] = u
        BY <1>5, <1>6, <1>9 DEF OneMore, VariableValues, u
    <2>2. IsFiniteSet(DOMAIN f)
        BY <1>3, <1>9, AwaitedIsFinite DEF VariableValues
    <2> HIDE DEF f, g
    <2>3. CountsMore(f, g, x, v)
        BY <2>1, <2>2, CountMore
    <2>4. Count(g, v) = Count(f, v) + OneIf(u, v) /\ Count(f, v) \in Nat
        BY <2>1, <2>2, <2>3, CountIsNat DEF CountsMore
    <2>5. Count(s2.stack, v) = Count(s.stack, v) + OneIf(u, v) /\ Count(s.stack, v) \in Nat
        <3>1. Count(Append(s.stack, u), v) = Count(s.stack, v) + OneIf(u, v)
            BY <1>7, <1>8, CountAppend
        <3>2. Count(s.stack, v) \in Nat
            BY <1>2, HandIs
        <3> QED
            BY <1>9, <3>1, <3>2
    <2>6. Count(<<>>, v) = 0
        BY CountNothing
    <2> QED
        BY <1>3, <1>9, <2>4, <2>5, <2>6 DEF HandCount, f, g, OneIf
<1> QED
    BY <1>1, <1>3, <1>9, <1>10, <1>12, <1>13, OwnStep

LEMMA SetVariableKeeps ==
    ASSUME IInv, NEW w \in Thread, SetVariable(w)
    PROVE  IInv'
<1> DEFINE s == worker[w]
           x == Argument(w)
           u == Top(s.stack)
           s2 == [Fetched(w) EXCEPT !.stack = Pop(@), !.variables[x] = u]
           rest == Tail(s.code)
<1>1. /\ Fetch(w, "set") /\ Become(w, s2) /\ s.stack # <<>>
      /\ UNCHANGED <<heap, task_pool, phase, interactions>>
    BY DEF SetVariable
<1>2. s \in WorkerState /\ Locals(s)
    BY WorkerIs
<1>3. /\ s.pc = "execute" /\ s.node = NULL /\ s.pair = <<>> /\ s.task = NoTask /\ s.found = NoTask
      /\ s.code \in Seq(Word) /\ s.code # <<>> /\ Linear(s.code)
      /\ Head(s.code) \in Word /\ Head(s.code).op = "set" /\ rest \in Seq(Word) /\ Linear(rest)
    BY <1>1, FetchIs
<1>4. x \in Variable /\ Head(s.code) = [op |-> "set", arg |-> x] /\ x = Head(s.code).arg
    BY <1>3, WordIs DEF Argument
<1>5. x \notin Awaited(s.code) /\ x \in Awaited(rest)
    <2>1. Head(s.code) # [op |-> "get", arg |-> x]
        <3>1. [op |-> "get", arg |-> x].op = "get"
            OBVIOUS
        <3> QED
            BY <1>3, <3>1
    <2>2. x \notin Awaited(s.code)
        BY <1>3, <1>4, <2>1, AwaitedFirst
    <2>3. x \in Awaited(rest)
        BY <1>3, <1>4, LinearRest, SMTT(30)
    <2> QED
        BY <2>2, <2>3
<1>6. Awaited(rest) = Awaited(s.code) \union {x}
    <2>1. ASSUME NEW y \in Variable, y # x
          PROVE  y \in Awaited(s.code) <=> y \in Awaited(rest)
        <3>1. Head(s.code) # [op |-> "get", arg |-> y] /\ Head(s.code) # [op |-> "set", arg |-> y]
            <4>1. [op |-> "get", arg |-> y].arg = y /\ [op |-> "set", arg |-> y].arg = y
                OBVIOUS
            <4> QED
                BY <1>4, <2>1, <4>1, Zenon
        <3> QED
            BY <1>3, <3>1, AwaitedFirst
    <2> QED
        BY <1>4, <1>5, <2>1 DEF Awaited
<1>7. s.stack \in Seq(Value) /\ u \in Value /\ Pop(s.stack) \in Seq(Value)
    BY <1>1, <1>2, PopIs DEF WorkerState
<1> HIDE DEF x, u, rest
<1>8. /\ s2.pc = "execute" /\ s2.task = NoTask /\ s2.stack = Pop(s.stack) /\ s2.code = rest
      /\ s2.variables = [s.variables EXCEPT ![x] = u]
      /\ s2.node = NULL /\ s2.pair = <<>> /\ s2.found = NoTask /\ s2 \in WorkerState
    BY <1>2, <1>3, <1>7 DEF Fetched, WorkerState, rest
<1>9. /\ s2.variables[x] = u
      /\ \A y \in Variable \ {x} : s2.variables[y] = s.variables[y]
    BY <1>2, <1>4, <1>8 DEF WorkerState
<1> HIDE DEF s2
<1>10. Locals(s2)
    <2>1. \A y \in Awaited(rest) : s2.variables[y] # NULL
        <3>1. u # NULL
            BY <1>7, ValuesAre
        <3>2. \A y \in Awaited(s.code) : s.variables[y] # NULL
            BY <1>2 DEF Locals
        <3>3. Awaited(s.code) \subseteq Variable \ {x}
            BY <1>5 DEF Awaited
        <3> QED
            BY <1>6, <1>9, <3>1, <3>2, <3>3
    <2> QED
        BY <1>3, <1>8, <2>1 DEF Locals
<1>11. worker'[w] = s2
    BY <1>1, <1>8, Becomes
<1>12. Reconnects(w)'
    BY <1>8, <1>11 DEF Reconnects
<1>13. ASSUME NEW v \in End
       PROVE  HandCount(s2, v) = HandCount(s, v)
    <2> DEFINE f == VariableValues(s)
               g == VariableValues(s2)
    <2>1. OneMore(f, g, x) /\ g[x] = u
        <3>1. DOMAIN f = Awaited(s.code) /\ DOMAIN g = Awaited(s.code) \union {x}
            BY <1>6, <1>8 DEF VariableValues
        <3>2. Awaited(s.code) \subseteq Variable \ {x}
            BY <1>5 DEF Awaited
        <3>3. \A y \in Awaited(s.code) : f[y] = s.variables[y] /\ g[y] = s2.variables[y]
            BY <1>6, <1>8 DEF VariableValues
        <3>4. g[x] = s2.variables[x]
            BY <1>5, <1>8 DEF VariableValues
        <3> HIDE DEF f, g
        <3> QED
            BY <1>5, <1>9, <3>1, <3>2, <3>3, <3>4 DEF OneMore
    <2>2. IsFiniteSet(DOMAIN f)
        BY <1>3, AwaitedIsFinite DEF VariableValues
    <2> HIDE DEF f, g
    <2>3. CountsMore(f, g, x, v)
        BY <2>1, <2>2, CountMore
    <2>4. Count(g, v) = Count(f, v) + OneIf(u, v) /\ Count(f, v) \in Nat
        BY <2>1, <2>2, <2>3, CountIsNat DEF CountsMore
    <2>5. Count(s.stack, v) = Count(s2.stack, v) + OneIf(u, v) /\ Count(s2.stack, v) \in Nat
        BY <1>1, <1>7, <1>8, CountPop, HandIs DEF u
    <2>6. Count(<<>>, v) = 0
        BY CountNothing
    <2> QED
        BY <1>3, <1>8, <2>4, <2>5, <2>6 DEF HandCount, f, g, OneIf
<1> QED
    BY <1>1, <1>3, <1>8, <1>10, <1>12, <1>13, OwnStep

LEMMA ConnectWordKeeps ==
    ASSUME IInv, NEW w \in Thread, ConnectWord(w)
    PROVE  IInv'
<1> DEFINE s == worker[w]
           p == Pop(s.stack)
           a == Top(p)
           b == Top(s.stack)
           s2 == [Fetched(w) EXCEPT !.pc = "connect", !.stack = Pop(Pop(@)), !.pair = <<a, b>>]
           rest == Tail(s.code)
<1>1. /\ Fetch(w, "connect") /\ Become(w, s2) /\ Len(s.stack) >= 2
      /\ UNCHANGED <<heap, task_pool, phase, interactions>>
    <2>1. s2 = [Fetched(w) EXCEPT !.pc = "connect", !.stack = Pop(Pop(s.stack)), !.pair = <<a, b>>]
        BY WorkerIs DEF Fetched, WorkerState
    <2> QED
        BY <2>1 DEF ConnectWord
<1>2. s \in WorkerState /\ Locals(s)
    BY WorkerIs
<1>3. /\ s.pc = "execute" /\ s.node = NULL /\ s.pair = <<>> /\ s.task = NoTask /\ s.found = NoTask
      /\ s.code \in Seq(Word) /\ s.code # <<>> /\ Linear(s.code)
      /\ Head(s.code) \in Word /\ Head(s.code).op = "connect" /\ rest \in Seq(Word) /\ Linear(rest)
    BY <1>1, FetchIs
<1>4. Awaited(rest) = Awaited(s.code)
    BY <1>3, RestOfWord
<1>5. s.stack \in Seq(Value) /\ s.stack # <<>>
    BY <1>1, <1>2 DEF WorkerState
<1>6. p \in Seq(Value) /\ b \in Value /\ Len(p) = Len(s.stack) - 1
    BY <1>5, PopIs
<1>7. p # <<>>
    BY <1>1, <1>5, <1>6
<1>8. a \in Value /\ Pop(p) \in Seq(Value)
    BY <1>6, <1>7, PopIs
<1> HIDE DEF a, b, p, rest
<1>9. /\ s2.pc = "connect" /\ s2.task = NoTask /\ s2.stack = Pop(p) /\ s2.code = rest
      /\ s2.variables = s.variables
      /\ s2.node = NULL /\ s2.pair = <<a, b>> /\ s2.found = NoTask /\ s2 \in WorkerState
    BY <1>2, <1>3, <1>6, <1>8 DEF Fetched, WorkerState, rest, Label, p
<1> HIDE DEF s2
<1>10. Locals(s2)
    BY <1>2, <1>3, <1>4, <1>9 DEF Locals
<1>11. worker'[w] = s2
    BY <1>1, <1>9, Becomes
<1>12. Reconnects(w)'
    BY <1>9, <1>11 DEF Reconnects
<1>13. ASSUME NEW v \in End
       PROVE  HandCount(s2, v) = HandCount(s, v)
    <2>1. Count(VariableValues(s2), v) = Count(VariableValues(s), v)
        BY <1>4, <1>9 DEF VariableValues
    <2>2. Count(s.stack, v) = Count(p, v) + OneIf(b, v)
        BY <1>5, CountPop DEF p, b
    <2>3. Count(p, v) = Count(Pop(p), v) + OneIf(a, v)
        BY <1>6, <1>7, CountPop DEF a
    <2>4. Count(<<a, b>>, v) = OneIf(a, v) + OneIf(b, v) /\ Count(<<>>, v) = 0
        BY CountPair, CountNothing
    <2>5. Count(Pop(p), v) \in Nat /\ Count(VariableValues(s), v) \in Nat
        BY <1>2, <1>9, HandIs
    <2> QED
        BY <1>3, <1>9, <2>1, <2>2, <2>3, <2>4, <2>5 DEF HandCount, OneIf
<1> QED
    BY <1>1, <1>3, <1>9, <1>10, <1>12, <1>13, OwnStep

LEMMA InputsDoneKeeps ==
    ASSUME IInv, NEW w \in Thread, InputsDone(w)
    PROVE  IInv'
<1> DEFINE s == worker[w]
           n == s.node
           c == Ctor[node[n].ctor]
           s2 == [s EXCEPT !.pc = "output", !.port = c.input_arity]
<1>1. /\ s.pc = "input" /\ s.port = 0 /\ Become(w, s2)
      /\ UNCHANGED <<heap, task_pool, phase, interactions>>
    BY DEF InputsDone, At
<1>2. s \in WorkerState /\ Locals(s) /\ Reconnects(w)
    BY WorkerIs DEF IInv
<1>3. n # NULL /\ n \in Node /\ node[n].ctor \in DOMAIN Ctor /\ mutex[n] = w
    BY <1>1, <1>2 DEF Locals, WorkerState, Reconnects
<1>4. /\ c.input_arity \in Nat /\ c.input_arity <= Arity(node[n].ctor)
      /\ Port(node[n].ctor) \subseteq Nat
    BY <1>3, PortsOf, SMTT(30)
<1>5. /\ s2 \in WorkerState
      /\ s2.pc = "output" /\ s2.task = s.task /\ s2.stack = s.stack /\ s2.code = s.code
      /\ s2.variables = s.variables /\ s2.node = n /\ s2.pair = s.pair /\ s2.found = s.found
      /\ s2.port = c.input_arity
    BY <1>2, <1>4 DEF WorkerState, Label
<1>6. worker'[w] = s2 /\ node' = node /\ mutex' = mutex
    BY <1>1, <1>5, Becomes DEF heap
<1>7. \A i \in Port(node[n].ctor) : node[n].values[i] = NULL <=> i >= c.input_arity
    <2>1. \A i \in Port(node[n].ctor) : node[n].values[i] = NULL <=> i < 0 \/ i >= c.input_arity
        BY <1>1, <1>2, <1>3 DEF Reconnects
    <2>2. \A i \in Port(node[n].ctor) : ~(i < 0)
        BY <1>4
    <2> QED
        BY <2>1, <2>2
<1> HIDE DEF s2
<1>8. Locals(s2)
    BY <1>1, <1>2, <1>3, <1>5, SMTT(30) DEF Locals
<1>9. Reconnects(w)'
    BY <1>3, <1>4, <1>5, <1>6, <1>7 DEF Reconnects
<1>10. \A v \in End : HandCount(s2, v) = HandCount(s, v)
    BY <1>5, SameHand
<1> QED
    BY <1>1, <1>5, <1>8, <1>9, <1>10, OwnStep

LEMMA RunKeeps ==
    ASSUME IInv, Run \/ RunEnd \/ UNCHANGED vars
    PROVE  IInv'
<1>1. UNCHANGED <<heap, task_pool, worker, interactions>> /\ phase' \in {"load", "run", "done"}
    BY DEF Run, RunEnd, vars, IInv, Types
<1>2. Loader \in Thread
    BY DEF Thread
<1>3. worker' \in [Thread -> WorkerState] /\ Locals(worker'[Loader])
    BY <1>1, <1>2, WorkerIs, SMTT(30)
<1>4. Reconnects(Loader)'
    BY <1>1, <1>2 DEF IInv, Reconnects, heap
<1>5. ClaimsAreApart' /\ ClaimsHaveMet' /\ AllStand'
    <2>1. \A p \in PrincipalWire : principal_wire'[p] = principal_wire[p] /\ CtorOf(p)' = CtorOf(p)
        BY <1>1 DEF heap, CtorOf
    <2>2. Held(worker'[Loader]) \subseteq Held(worker[Loader]) \ {}
        BY <1>1
    <2>3. /\ TasksOf(worker'[Loader]) \subseteq TasksOf(worker[Loader])
          /\ \A t \in TasksOf(worker'[Loader]) : Both(t) \intersect {} = {}
        BY <1>1
    <2> QED
        BY <1>1, <1>2, <2>1, <2>2, <2>3, ClaimsStay
<1>6. task_pool' \subseteq Task /\ interactions' \in Nat
    BY <1>1 DEF IInv, Types
<1> QED
    BY <1>1, <1>2, <1>3, <1>4, <1>5, <1>6, HeapStays

-----------------------------------------------------------------------------
(* The beginning.                                                          *)

LEMMA InitIInv ==
    ASSUME LinearBodies, Init
    PROVE  IInv
<1>1. /\ program \in Programs
      /\ worker = [w \in Thread |-> IF w = Loader
                                   THEN [Idle EXCEPT !.pc = "execute", !.code = program]
                                   ELSE Idle]
    BY DEF Init
<1>2. /\ node = [n \in Node |-> CleanNode] /\ mutex = [n \in Node |-> NULL]
      /\ wire = [x \in Wire |-> FREE] /\ principal_wire = [p \in PrincipalWire |-> Freed]
      /\ task_pool = {} /\ phase = "load" /\ interactions = 0
    BY DEF Init
<1>3. program \in Seq(Word) /\ Awaited(program) = {} /\ Linear(program)
    BY <1>1, BodyAssumption DEF LinearBodies, Bodies
<1>4. ASSUME NEW w \in Thread
      PROVE  /\ worker[w] \in WorkerState
             /\ Awaited(worker[w].code) = {} /\ Linear(worker[w].code)
             /\ worker[w].pc \in {"idle", "execute"}
             /\ worker[w].pc = "idle" => worker[w].code = <<>>
             /\ worker[w].stack = <<>> /\ worker[w].pair = <<>> /\ worker[w].node = NULL
             /\ worker[w].task = NoTask /\ worker[w].found = NoTask
    <2>1. <<>> \in Seq(Word) /\ <<>> \in Seq(Value)
        OBVIOUS
    <2>2. [x \in Variable |-> NULL] \in [Variable -> Value \union {NULL}]
        OBVIOUS
    <2>3. CASE w = Loader
        BY <1>1, <1>3, <2>1, <2>2, <2>3 DEF Idle, WorkerState, Label
    <2>4. CASE w # Loader
        BY <1>1, <2>1, <2>2, <2>4, NothingAwaited DEF Idle, WorkerState, Label
    <2> QED
        BY <2>3, <2>4
<1>5. Types
    <2>1. worker \in [Thread -> WorkerState]
        BY <1>1, <1>4
    <2>2. CleanNode \in NodeState
        BY DEF CleanNode, NodeState
    <2>3. Freed \in [node : Node \union {NULL}, index : Nat, oppsite : PrincipalWire \union {NULL}]
        BY DEF Freed
    <2> QED
        BY <1>2, <2>1, <2>2, <2>3 DEF Types
<1>6. \A w \in Thread : Locals(worker[w]) /\ Reconnects(w) /\ Held(worker[w]) = {} /\ TasksOf(worker[w]) = {}
    BY <1>4 DEF Locals, Reconnects, Held, TasksOf
<1>7. (\A n \in Node : PortsFit(n)) /\ (\A p \in PrincipalWire : HasItsPort(p)) /\ UnlockedNodeIsWhole
    BY <1>2 DEF PortsFit, HasItsPort, UnlockedNodeIsWhole, CleanNode
<1>8. ASSUME NEW v \in End
      PROVE  EndsAreCounted(v)
    <2>1. \A w \in Thread : InHand(w, v) = {}
        BY <1>4 DEF InHand
    <2>2. InNodes(v) = {} /\ InWires(v) = {}
        BY <1>2, ValuesAre DEF InNodes, InWires, CleanNode
    <2>3. References(v) = {}
        BY <2>1, <2>2 DEF References
    <2>4. Need(v) = 0
        BY <1>2 DEF Need, Value, End
    <2> QED
        BY <2>3, <2>4, FS_EmptySet DEF EndsAreCounted
<1>9. ClaimsAreApart /\ ClaimsHaveMet /\ AllStand
    BY <1>2, <1>6, LiveTasksAre DEF ClaimsAreApart, ClaimsHaveMet, AllStand
<1> QED
    BY <1>5, <1>6, <1>7, <1>8, <1>9 DEF IInv

-----------------------------------------------------------------------------
(* Steps on the heap.                                                      *)

LEMMA LinkKeeps ==
    ASSUME IInv, NEW w \in Thread, Link(w)
    PROVE  IInv'
<1> DEFINE s == worker[w]
           x == First(FreeWires)
           s2 == [Fetched(w) EXCEPT !.stack = @ \o <<x, x>>]
           rest == Tail(s.code)
<1>1. /\ Fetch(w, "link") /\ Become(w, s2) /\ FreeWires # {}
      /\ wire' = [wire EXCEPT ![x] = NULL]
      /\ UNCHANGED <<node, mutex, principal_wire, task_pool, phase, interactions>>
    BY DEF Link
<1>2. s \in WorkerState /\ Locals(s) /\ Types
    BY WorkerIs DEF IInv
<1>3. /\ s.pc = "execute" /\ s.node = NULL /\ s.pair = <<>> /\ s.task = NoTask /\ s.found = NoTask
      /\ s.code \in Seq(Word) /\ s.code # <<>> /\ Linear(s.code)
      /\ Head(s.code) \in Word /\ Head(s.code).op = "link" /\ rest \in Seq(Word) /\ Linear(rest)
    BY <1>1, FetchIs
<1>4. Awaited(rest) = Awaited(s.code)
    BY <1>3, RestOfWord
<1>5. x \in Wire /\ wire[x] = FREE
    <2>1. FreeWires \subseteq Nat
        BY ValuesAre DEF FreeWires
    <2>2. x \in FreeWires
        BY <1>1, <2>1, FirstIsIn
    <2> QED
        BY <2>2 DEF FreeWires
<1> HIDE DEF x, rest
<1>6. s.stack \in Seq(Value) /\ <<x, x>> \in Seq(Value)
    BY <1>2, <1>5 DEF WorkerState, Value, End
<1>7. s.stack \o <<x, x>> \in Seq(Value)
    BY <1>6, ConcatProperties
<1>8. /\ s2.pc = "execute" /\ s2.task = NoTask /\ s2.stack = s.stack \o <<x, x>> /\ s2.code = rest
      /\ s2.variables = s.variables
      /\ s2.node = NULL /\ s2.pair = <<>> /\ s2.found = NoTask /\ s2 \in WorkerState
    BY <1>2, <1>3, <1>7 DEF Fetched, WorkerState, rest
<1> HIDE DEF s2
<1>9. /\ worker'[w] = s2
      /\ \A u \in Thread \ {w} : worker'[u] = worker[u]
      /\ worker' \in [Thread -> WorkerState]
    BY <1>1, <1>8, Becomes
<1>10. Types'
    BY <1>1, <1>2, <1>9 DEF Types
<1>11. \A u \in Thread : Locals(worker[u])'
    <2>1. Locals(s2)
        BY <1>2, <1>3, <1>4, <1>8 DEF Locals
    <2> QED
        BY <1>9, <2>1 DEF IInv
<1>12. (\A n \in Node : PortsFit(n)') /\ (\A p \in PrincipalWire : HasItsPort(p)') /\ UnlockedNodeIsWhole'
    BY <1>1 DEF IInv, PortsFit, HasItsPort, UnlockedNodeIsWhole
<1>13. ASSUME NEW v \in End
       PROVE  EndsAreCounted(v)'
    <2> DEFINE r == Cardinality(Rest(w, worker, v))
    <2>1. Balance(w, v, r) /\ NextBalance(w, v, r)
        BY <1>9, <1>10, HasBalance, HasNextBalance DEF Types
    <2>2. Count(s2.stack, v) = Count(s.stack, v) + OneIf(x, v) + OneIf(x, v)
        <3> DEFINE t == <<x, x>>
        <3>1. Count(t, v) = OneIf(x, v) + OneIf(x, v)
            BY CountPair
        <3>2. s2.stack = s.stack \o t /\ t \in Seq(Value)
            BY <1>6, <1>8
        <3> HIDE DEF t
        <3>3. Count(s.stack \o t, v) = Count(s.stack, v) + Count(t, v)
            BY <1>6, <3>2, CountConcat
        <3> QED
            BY <2>1, <3>1, <3>2, <3>3 DEF Balance, OneIf
    <2>3. Count(VariableValues(s2), v) = Count(VariableValues(s), v)
        BY <1>4, <1>8 DEF VariableValues
    <2>4. Count(wire', v) = Count(wire, v) - OneIf(wire[x], v) + OneIf(NULL, v)
        <3>1. WireGets(wire, wire', x, NULL)
            BY <1>1, <1>2, <1>5 DEF Types, WireGets
        <3>2. WireCounts(wire, wire', x, NULL, v)
            BY <3>1, WireSetCounts
        <3> QED
            BY <3>2 DEF WireCounts
    <2>5. OneIf(wire[x], v) = 0 /\ OneIf(NULL, v) = 0
        BY <1>5, ValuesAre DEF OneIf
    <2>6. Need(v)' = Need(v) + OneIf(x, v) + OneIf(x, v)
        BY <1>1, <1>2, <1>5 DEF Need, OneIf, Types, NULL, FREE
    <2> HIDE DEF r
    <2>7. Need(v)' = r + Count(s2.stack, v) + Count(s2.pair, v) + Count(VariableValues(s2), v)
                       + PortCount(node, v) + Count(wire', v)
        <3>1. OneIf(x, v) \in Nat
            BY DEF OneIf
        <3>2. s2.pair = s.pair
            BY <1>3, <1>8
        <3>3. Count(wire', v) = Count(wire, v)
            BY <2>1, <2>4, <2>5 DEF Balance
        <3> QED
            BY <2>1, <2>2, <2>3, <2>6, <3>1, <3>2, <3>3 DEF Balance
    <2> QED
        BY <1>1, <1>9, <2>1, <2>7 DEF NextBalance
<1>14. \A u \in Thread : Reconnects(u)'
    <2>1. Reconnects(w)'
        BY <1>8, <1>9 DEF Reconnects
    <2>2. \A y \in Wire : wire[y] = NULL => wire'[y] = NULL
        BY <1>1, <1>2, <1>5 DEF Types
    <2> QED
        BY <1>1, <1>9, <2>1, <2>2, OthersReconnect
<1>15. ClaimsAreApart' /\ ClaimsHaveMet' /\ AllStand'
    <2>1. \A p \in PrincipalWire : principal_wire'[p] = principal_wire[p] /\ CtorOf(p)' = CtorOf(p)
        BY <1>1 DEF CtorOf
    <2>2. Held(s2) = {} /\ TasksOf(s2) = {}
        BY <1>8 DEF Held, TasksOf
    <2> QED
        BY <1>1, <1>9, <2>1, <2>2, ClaimsStay
<1> QED
    BY <1>10, <1>11, <1>12, <1>13, <1>14, <1>15 DEF IInv

LEMMA NewNodeKeeps ==
    ASSUME IInv, NEW w \in Thread, NewNode(w)
    PROVE  IInv'
<1> DEFINE s == worker[w]
           n == First(FreeNodes)
           c == Argument(w)
           s2 == [Fetched(w) EXCEPT !.pc = "input", !.node = n, !.port = Ctor[c].input_arity]
           rest == Tail(s.code)
<1>1. /\ Fetch(w, "node") /\ Become(w, s2) /\ FreeNodes # {} /\ mutex[n] = NULL
      /\ mutex' = [mutex EXCEPT ![n] = w]
      /\ node' = [node EXCEPT ![n].ctor = c]
      /\ UNCHANGED <<wire, principal_wire, task_pool, phase, interactions>>
    BY DEF NewNode, MayLock, SetMutex
<1>2. s \in WorkerState /\ Locals(s) /\ Types
    BY WorkerIs DEF IInv
<1>3. /\ s.pc = "execute" /\ s.node = NULL /\ s.pair = <<>> /\ s.task = NoTask /\ s.found = NoTask
      /\ s.code \in Seq(Word) /\ s.code # <<>> /\ Linear(s.code)
      /\ Head(s.code) \in Word /\ Head(s.code).op = "node" /\ rest \in Seq(Word) /\ Linear(rest)
    BY <1>1, FetchIs
<1>4. Awaited(rest) = Awaited(s.code) /\ c \in DOMAIN Ctor
    BY <1>3, RestOfWord, WordIs DEF Argument
<1>5. n \in Node /\ node[n].ctor = "none"
    <2>1. FreeNodes \subseteq Nat
        BY ValuesAre DEF FreeNodes
    <2>2. n \in FreeNodes
        BY <1>1, <2>1, FirstIsIn
    <2> QED
        BY <2>2 DEF FreeNodes
<1>6. \A i \in Index : node[n].values[i] = NULL
    BY <1>5, CtorAssumption DEF IInv, PortsFit
<1>7. Ctor[c].input_arity \in Nat /\ Port(c) \subseteq Index /\ Port(c) \subseteq Nat
    BY <1>4, PortsOf
<1> HIDE DEF n, rest, c
<1>8. /\ s2.pc = "input" /\ s2.task = NoTask /\ s2.stack = s.stack /\ s2.code = rest
      /\ s2.variables = s.variables /\ s2.port = Ctor[c].input_arity
      /\ s2.node = n /\ s2.pair = <<>> /\ s2.found = NoTask /\ s2 \in WorkerState
    BY <1>2, <1>3, <1>5, <1>7 DEF Fetched, WorkerState, rest, Label
<1> HIDE DEF s2
<1>9. /\ worker'[w] = s2
      /\ \A u \in Thread \ {w} : worker'[u] = worker[u]
      /\ worker' \in [Thread -> WorkerState]
    BY <1>1, <1>8, Becomes
<1>10. /\ node' \in [Node -> NodeState]
       /\ \A m \in Node : node'[m].values = node[m].values
       /\ \A m \in Node \ {n} : node'[m] = node[m] /\ mutex'[m] = mutex[m]
       /\ node'[n].ctor = c /\ mutex'[n] = w
       /\ n # NULL
    BY <1>1, <1>2, <1>4, <1>5, ValuesAre DEF Types, NodeState, NULL
<1>11. Types'
    BY <1>1, <1>2, <1>9, <1>10 DEF Types
<1>12. \A u \in Thread : Locals(worker[u])'
    <2>1. Locals(s2)
        BY <1>2, <1>3, <1>4, <1>8, <1>10 DEF Locals
    <2> QED
        BY <1>9, <2>1 DEF IInv
<1>13. \A m \in Node : PortsFit(m)'
    BY <1>1, <1>6, <1>10 DEF IInv, PortsFit
<1>14. \A p \in PrincipalWire : HasItsPort(p)'
    BY <1>1, <1>10 DEF IInv, HasItsPort
<1>15. UnlockedNodeIsWhole'
    <2>1. w # NULL
        BY HeapAssumption
    <2> QED
        BY <1>10, <2>1 DEF IInv, UnlockedNodeIsWhole
<1>16. ASSUME NEW v \in End
       PROVE  EndsAreCounted(v)'
    <2> DEFINE r == Cardinality(Rest(w, worker, v))
    <2>1. Balance(w, v, r) /\ NextBalance(w, v, r)
        BY <1>9, <1>11, HasBalance, HasNextBalance DEF Types
    <2>2. Count(VariableValues(s2), v) = Count(VariableValues(s), v)
        BY <1>4, <1>8 DEF VariableValues
    <2>3. PortCount(node', v) = PortCount(node, v)
        <3>1. CtorGets(node, node', n, c)
            BY <1>1, <1>2, <1>5 DEF Types, CtorGets
        <3> QED
            BY <3>1, CtorSetCounts
    <2>4. Need(v)' = Need(v) /\ wire' = wire
        BY <1>1 DEF Need
    <2> HIDE DEF r
    <2> QED
        BY <1>3, <1>8, <1>9, <2>1, <2>2, <2>3, <2>4 DEF Balance, NextBalance
<1>17. \A u \in Thread : Reconnects(u)'
    <2>1. Reconnects(w)'
        BY <1>4, <1>5, <1>6, <1>7, <1>8, <1>9, <1>10 DEF Reconnects
    <2>2. \A u \in Thread : \A m \in Node : mutex[m] = u => m # n
        BY <1>1, HeapAssumption
    <2> QED
        BY <1>1, <1>9, <1>10, <2>1, <2>2, OthersReconnect
<1>18. ClaimsAreApart' /\ ClaimsHaveMet' /\ AllStand'
    <2>1. ASSUME NEW p \in PrincipalWire, principal_wire[p].oppsite # NULL
          PROVE  principal_wire'[p].oppsite = principal_wire[p].oppsite /\ CtorOf(p)' = CtorOf(p)
        <3>1. principal_wire[p] # Freed
            BY <2>1 DEF Freed
        <3>2. /\ principal_wire[p].node \in Node /\ principal_wire[p].index \in Index
              /\ node[principal_wire[p].node].values[principal_wire[p].index] = p
            BY <3>1 DEF IInv, HasItsPort
        <3>3. principal_wire[p].node # n
            BY <1>6, <3>2, ValuesAre DEF NULL
        <3> QED
            BY <1>1, <1>10, <3>2, <3>3 DEF CtorOf
    <2>2. Held(s2) = {} /\ TasksOf(s2) = {}
        BY <1>8 DEF Held, TasksOf
    <2> QED
        BY <1>1, <1>9, <2>1, <2>2, ClaimsStay
<1> QED
    BY <1>11, <1>12, <1>13, <1>14, <1>15, <1>16, <1>17, <1>18 DEF IInv

-----------------------------------------------------------------------------
(* The ports of a node that a worker reconnects.                           *)

\* Worker w fills port i of the node it reconnects with e.
Fills(w, n, i, e) ==
    /\ n = worker[w].node /\ n # NULL
    /\ i \in Port(node[n].ctor) /\ node[n].values[i] = NULL
    /\ e \in Value
    /\ node' = [node EXCEPT ![n].values[i] = e]
    /\ mutex' = mutex

LEMMA FilledPort ==
    ASSUME IInv, NEW w \in Thread, NEW n, NEW i, NEW e, Fills(w, n, i, e)
    PROVE  /\ n \in Node /\ i \in Index /\ node[n].ctor \in DOMAIN Ctor
           /\ mutex[n] = w /\ w # NULL
           /\ node' \in [Node -> NodeState]
           /\ node'[n].values[i] = e
           /\ \A m \in Node : node'[m].ctor = node[m].ctor
           /\ \A m \in Node \ {n} : node'[m] = node[m]
           /\ \A j \in Index \ {i} : node'[n].values[j] = node[n].values[j]
           /\ \A v \in End : PortCount(node', v) = PortCount(node, v) + OneIf(e, v)
           /\ UnlockedNodeIsWhole'
<1>1. worker[w] \in WorkerState /\ Reconnects(w) /\ node \in [Node -> NodeState]
    BY WorkerIs, SMTT(30) DEF IInv, Types
<1>2. n \in Node /\ node[n].ctor \in DOMAIN Ctor /\ mutex[n] = w
    BY <1>1 DEF Fills, Reconnects, WorkerState
<1>3. i \in Index /\ w # NULL
    BY <1>2, PortsOf, HeapAssumption DEF Fills
<1>4. /\ node' \in [Node -> NodeState]
      /\ node'[n].values[i] = e
      /\ \A m \in Node : node'[m].ctor = node[m].ctor
      /\ \A m \in Node \ {n} : node'[m] = node[m]
      /\ \A j \in Index \ {i} : node'[n].values[j] = node[n].values[j]
    BY <1>1, <1>2, <1>3, ZenonT(40) DEF Fills, NodeState
<1>5. ASSUME NEW v \in End
      PROVE  PortCount(node', v) = PortCount(node, v) + OneIf(e, v)
    <2>1. PortGets(node, node', n, i, e)
        BY <1>1, <1>2, <1>3 DEF Fills, PortGets
    <2>2. PortCounts(node, node', n, i, e, v)
        BY <2>1, PortSetCounts
    <2>3. OneIf(node[n].values[i], v) = 0
        BY ValuesAre DEF OneIf, Fills
    <2>4. PortCount(node, v) \in Nat
        BY PortsAre
    <2> QED
        BY <2>2, <2>3, <2>4 DEF PortCounts, OneIf
<1>6. UnlockedNodeIsWhole'
    BY <1>2, <1>3, <1>4 DEF IInv, UnlockedNodeIsWhole, Fills
<1> QED
    BY <1>2, <1>3, <1>4, <1>5, <1>6

\* What a new end of a wire does to the heap.
EndIsNew(n, i, e) ==
    /\ e \in End
    /\ e \in PrincipalWire <=> i \in Ctor[node[n].ctor].principal
    /\ \A v \in End : Need(v)' = Need(v) + OneIf(e, v) + OneIf(e, v)
    /\ wire' \in [Wire -> Value \union {NULL, FREE}]
    /\ principal_wire' \in [PrincipalWire -> [node : Node \union {NULL}, index : Nat,
                                              oppsite : PrincipalWire \union {NULL}]]
    /\ \A v \in End : Count(wire', v) = Count(wire, v)
    /\ e \in Wire => wire'[e] = NULL
    /\ \A x \in Wire : wire[x] = NULL => wire'[x] = NULL
    /\ e \in PrincipalWire =>
         principal_wire[e] = Freed /\ principal_wire'[e] = [node |-> n, index |-> i, oppsite |-> NULL]
    /\ \A p \in PrincipalWire \ {e} : principal_wire'[p] = principal_wire[p]

LEMMA EndIs ==
    ASSUME IInv, NEW n \in Node, NEW i \in Nat, node[n].ctor \in DOMAIN Ctor,
           MakeEnd(n, i, NewEnd(n, i))
    PROVE  EndIsNew(n, i, NewEnd(n, i))
<1> DEFINE e == NewEnd(n, i)
<1>1. Types
    BY DEF IInv
<1>2. CASE i \in Ctor[node[n].ctor].principal
    <2>1. /\ FreePrincipalWires # {} /\ e = First(FreePrincipalWires) /\ wire' = wire
          /\ principal_wire' = [principal_wire EXCEPT ![e] = [node |-> n, index |-> i, oppsite |-> NULL]]
        BY <1>2 DEF MakeEnd, NewEnd, IsPrincipal
    <2>2. e \in FreePrincipalWires
        <3>1. FreePrincipalWires \subseteq Nat
            BY ValuesAre DEF FreePrincipalWires
        <3> QED
            BY <2>1, <3>1, FirstIsIn
    <2>3. e \in PrincipalWire /\ principal_wire[e] = Freed
        BY <2>2 DEF FreePrincipalWires
    <2> HIDE DEF e
    <2>4. principal_wire'[e] = [node |-> n, index |-> i, oppsite |-> NULL]
        BY <1>1, <2>1, <2>3 DEF Types
    <2>5. principal_wire'[e] # Freed
        BY <2>4, ValuesAre DEF Freed, NULL
    <2>6. \A p \in PrincipalWire \ {e} : principal_wire'[p] = principal_wire[p]
        BY <1>1, <2>1 DEF Types
    <2>7. e \in End /\ e \notin Wire
        BY <2>3, ValuesAre DEF Value, End
    <2>8. ASSUME NEW v \in End
          PROVE  Need(v)' = Need(v) + OneIf(e, v) + OneIf(e, v)
        <3>1. CASE v = e
            <4>1. principal_wire'[v].oppsite = NULL
                BY <2>4, <3>1
            <4>2. Need(v) = 0 /\ Need(v)' = 2
                BY <2>3, <2>5, <2>7, <3>1, <4>1 DEF Need
            <4> QED
                BY <3>1, <4>2 DEF OneIf
        <3>2. CASE v # e
            <4>1. v \in PrincipalWire => principal_wire'[v] = principal_wire[v]
                BY <2>6, <3>2
            <4>2. Need(v)' = Need(v) /\ Need(v) \in Nat
                BY <2>1, <4>1 DEF Need, Value, End
            <4> QED
                BY <3>2, <4>2 DEF OneIf
        <3> QED
            BY <3>1, <3>2
    <2>9. principal_wire' \in [PrincipalWire -> [node : Node \union {NULL}, index : Nat,
                                                 oppsite : PrincipalWire \union {NULL}]]
        BY <1>1, <2>1 DEF Types
    <2>10. EndIsNew(n, i, e)
        BY <1>1, <1>2, <2>1, <2>3, <2>4, <2>6, <2>7, <2>8, <2>9 DEF EndIsNew, Types
    <2> QED
        BY <2>10 DEF e
<1>3. CASE i \notin Ctor[node[n].ctor].principal
    <2>1. /\ FreeWires # {} /\ e = First(FreeWires) /\ principal_wire' = principal_wire
          /\ wire' = [wire EXCEPT ![e] = NULL]
        BY <1>3 DEF MakeEnd, NewEnd, IsPrincipal
    <2>2. e \in FreeWires
        <3>1. FreeWires \subseteq Nat
            BY ValuesAre DEF FreeWires
        <3> QED
            BY <2>1, <3>1, FirstIsIn
    <2>3. e \in Wire /\ wire[e] = FREE
        BY <2>2 DEF FreeWires
    <2> HIDE DEF e
    <2>4. wire'[e] = NULL /\ \A x \in Wire \ {e} : wire'[x] = wire[x]
        BY <1>1, <2>1, <2>3 DEF Types
    <2>5. e \in End /\ e \notin PrincipalWire
        BY <2>3, ValuesAre DEF Value, End
    <2>6. ASSUME NEW v \in End
          PROVE  Need(v)' = Need(v) + OneIf(e, v) + OneIf(e, v)
        <3>1. CASE v = e
            <4>1. Need(v) = 0 /\ Need(v)' = 2
                BY <2>3, <2>4, <3>1 DEF Need, NULL, FREE
            <4> QED
                BY <3>1, <4>1 DEF OneIf
        <3>2. CASE v # e
            <4>1. v \in Wire => wire'[v] = wire[v]
                BY <2>4, <3>2
            <4>2. Need(v)' = Need(v) /\ Need(v) \in Nat
                BY <2>1, <4>1 DEF Need, Value, End
            <4> QED
                BY <3>2, <4>2 DEF OneIf
        <3> QED
            BY <3>1, <3>2
    <2>7. wire' \in [Wire -> Value \union {NULL, FREE}]
        BY <1>1, <2>1 DEF Types
    <2>8. ASSUME NEW v \in End
          PROVE  Count(wire', v) = Count(wire, v)
        <3>1. WireGets(wire, wire', e, NULL)
            BY <1>1, <2>1, <2>3 DEF Types, WireGets
        <3>2. WireCounts(wire, wire', e, NULL, v)
            BY <3>1, WireSetCounts
        <3>3. OneIf(wire[e], v) = 0 /\ OneIf(NULL, v) = 0
            BY <2>3, ValuesAre DEF OneIf
        <3>4. Count(wire, v) \in Nat
            BY <1>1, WiresAre DEF Types
        <3> QED
            BY <3>2, <3>3, <3>4 DEF WireCounts
    <2>9. \A x \in Wire : wire[x] = NULL => wire'[x] = NULL
        BY <2>4
    <2>10. EndIsNew(n, i, e)
        BY <1>1, <1>3, <2>1, <2>4, <2>5, <2>6, <2>7, <2>8, <2>9 DEF EndIsNew, Types
    <2> QED
        BY <2>10 DEF e
<1> QED
    BY <1>2, <1>3

\* A new wire or principal wire, at a port of the node and in the worker's hand.
LEMMA MadeEndKeeps ==
    ASSUME IInv, NEW w \in Thread, NEW n, NEW i, NEW e,
           Fills(w, n, i, e), EndIsNew(n, i, e),
           NEW s2 \in WorkerState, Become(w, s2), UNCHANGED <<task_pool, phase, interactions>>,
           Locals(s2), Reconnects(w)',
           Held(s2) = Held(worker[w]), TasksOf(s2) = TasksOf(worker[w]),
           \A v \in End : HandCount(s2, v) = HandCount(worker[w], v) + OneIf(e, v)
    PROVE  IInv'
<1>1. /\ worker'[w] = s2
      /\ \A u \in Thread \ {w} : worker'[u] = worker[u]
      /\ worker' \in [Thread -> WorkerState]
    BY Becomes
<1>2. /\ n \in Node /\ i \in Index /\ node[n].ctor \in DOMAIN Ctor
      /\ mutex[n] = w /\ mutex' = mutex
      /\ node' \in [Node -> NodeState]
      /\ node'[n].values[i] = e
      /\ \A m \in Node : node'[m].ctor = node[m].ctor
      /\ \A m \in Node \ {n} : node'[m] = node[m]
      /\ \A j \in Index \ {i} : node'[n].values[j] = node[n].values[j]
      /\ \A v \in End : PortCount(node', v) = PortCount(node, v) + OneIf(e, v)
      /\ UnlockedNodeIsWhole'
      /\ i \in Port(node[n].ctor) /\ node[n].values[i] = NULL
    <2>1. i \in Port(node[n].ctor) /\ node[n].values[i] = NULL /\ mutex' = mutex
        BY DEF Fills
    <2> QED
        BY <2>1, FilledPort
<1>3. Types'
    BY <1>1, <1>2 DEF IInv, Types, EndIsNew
<1>4. \A u \in Thread : Locals(worker[u])'
    BY <1>1 DEF IInv
<1>5. e \in PrincipalWire => \A m \in Node : \A j \in Index : node[m].values[j] # e
    <2> SUFFICES ASSUME e \in PrincipalWire, NEW m \in Node, NEW j \in Index,
                        node[m].values[j] = e
                 PROVE  FALSE
        OBVIOUS
    <2>1. PortsFit(m)
        BY DEF IInv
    <2>2. e # NULL
        BY ValuesAre DEF EndIsNew
    <2>3. principal_wire[e].node = m
        BY <2>1, <2>2, Zenon DEF PortsFit
    <2>4. principal_wire[e].node = NULL
        BY DEF EndIsNew, Freed
    <2> QED
        BY <2>3, <2>4, ValuesAre DEF NULL
<1>6. ASSUME NEW m \in Node
      PROVE  PortsFit(m)'
    <2> SUFFICES ASSUME NEW j \in Index, node'[m].values[j] # NULL
                 PROVE  LET u == node'[m].values[j] IN
                        /\ node'[m].ctor \in DOMAIN Ctor
                        /\ j \in Port(node'[m].ctor)
                        /\ u \in PrincipalWire <=> j \in Ctor[node'[m].ctor].principal
                        /\ u \in PrincipalWire =>
                             /\ principal_wire'[u].node = m
                             /\ principal_wire'[u].index = j
        BY DEF PortsFit
    <2>1. CASE m = n /\ j = i
        BY <1>2, <2>1 DEF EndIsNew
    <2>2. CASE ~(m = n /\ j = i)
        <3>1. node'[m].values[j] = node[m].values[j] /\ node'[m].ctor = node[m].ctor
            BY <1>2, <2>2
        <3>2. PortsFit(m)
            BY DEF IInv
        <3> QED
            BY <1>5, <3>1, <3>2 DEF PortsFit, EndIsNew
    <2> QED
        BY <2>1, <2>2
<1>7. ASSUME NEW p \in PrincipalWire
      PROVE  HasItsPort(p)'
    <2>1. CASE p = e
        BY <1>2, <2>1 DEF EndIsNew, HasItsPort
    <2>2. CASE p # e
        <3>1. principal_wire'[p] = principal_wire[p] /\ HasItsPort(p)
            BY <2>2 DEF IInv, EndIsNew
        <3>2. \A m \in Node, j \in Index : node[m].values[j] = p => node'[m].values[j] = p
            BY <1>2, ValuesAre DEF NULL
        <3> QED
            BY <3>1, <3>2 DEF HasItsPort
    <2> QED
        BY <2>1, <2>2
<1>8. ASSUME NEW v \in End
      PROVE  EndsAreCounted(v)'
    <2> DEFINE r == Cardinality(Rest(w, worker, v))
    <2>1. Balance(w, v, r) /\ NextBalance(w, v, r)
        BY <1>1, <1>3, HasBalance, HasNextBalance DEF Types
    <2>2. Need(v)' = Need(v) + OneIf(e, v) + OneIf(e, v)
        BY DEF EndIsNew
    <2>3. Count(wire', v) = Count(wire, v) /\ PortCount(node', v) = PortCount(node, v) + OneIf(e, v)
        BY <1>2 DEF EndIsNew
    <2>4. /\ HandCount(s2, v) = HandCount(worker[w], v) + OneIf(e, v)
          /\ OneIf(e, v) \in Nat
        BY DEF OneIf
    <2>5. /\ Count(s2.stack, v) \in Nat /\ Count(s2.pair, v) \in Nat
          /\ Count(VariableValues(s2), v) \in Nat
        BY HandIs
    <2> HIDE DEF r
    <2> QED
        BY <1>1, <2>1, <2>2, <2>3, <2>4, <2>5 DEF Balance, NextBalance, HandCount
<1>9. \A u \in Thread : Reconnects(u)'
    <2>1. \A u \in Thread \ {w} : \A m \in Node : mutex[m] = u => m # n
        BY <1>2
    <2>2. \A x \in Wire : wire[x] = NULL => wire'[x] = NULL
        BY DEF EndIsNew
    <2> QED
        BY <1>1, <1>2, <2>1, <2>2, OthersReconnect
<1>10. ClaimsAreApart' /\ ClaimsHaveMet' /\ AllStand'
    <2>1. ASSUME NEW p \in PrincipalWire, principal_wire[p].oppsite # NULL
          PROVE  principal_wire'[p].oppsite = principal_wire[p].oppsite /\ CtorOf(p)' = CtorOf(p)
        <3>1. principal_wire[p] # Freed
            BY <2>1 DEF Freed
        <3>2. principal_wire[p].node \in Node
            BY <3>1 DEF IInv, HasItsPort
        <3>3. principal_wire'[p] = principal_wire[p]
            BY <3>1 DEF EndIsNew
        <3> QED
            BY <1>2, <3>2, <3>3 DEF CtorOf
    <2>2. Held(s2) \subseteq Held(worker[w]) \ {}
        OBVIOUS
    <2>3. \A t \in TasksOf(s2) : Both(t) \intersect {} = {}
        OBVIOUS
    <2> QED
        BY <1>1, <2>1, <2>2, <2>3, ClaimsStay
<1> QED
    BY <1>2, <1>3, <1>4, <1>6, <1>7, <1>8, <1>9, <1>10 DEF IInv

\* A wire or a number goes from the worker's hand into a port of the node.
LEMMA MovedValueKeeps ==
    ASSUME IInv, NEW w \in Thread, NEW n, NEW i, NEW e,
           Fills(w, n, i, e), e \notin PrincipalWire, i \notin Ctor[node[n].ctor].principal,
           NEW s2 \in WorkerState, Become(w, s2),
           UNCHANGED <<wire, principal_wire, task_pool, phase, interactions>>,
           Locals(s2), Reconnects(w)',
           Held(s2) = Held(worker[w]), TasksOf(s2) = TasksOf(worker[w]),
           \A v \in End : HandCount(worker[w], v) = HandCount(s2, v) + OneIf(e, v)
    PROVE  IInv'
<1>1. /\ worker'[w] = s2
      /\ \A u \in Thread \ {w} : worker'[u] = worker[u]
      /\ worker' \in [Thread -> WorkerState]
    BY Becomes
<1>2. /\ n \in Node /\ i \in Index /\ node[n].ctor \in DOMAIN Ctor
      /\ mutex[n] = w /\ mutex' = mutex
      /\ node' \in [Node -> NodeState]
      /\ node'[n].values[i] = e
      /\ \A m \in Node : node'[m].ctor = node[m].ctor
      /\ \A m \in Node \ {n} : node'[m] = node[m]
      /\ \A j \in Index \ {i} : node'[n].values[j] = node[n].values[j]
      /\ \A v \in End : PortCount(node', v) = PortCount(node, v) + OneIf(e, v)
      /\ UnlockedNodeIsWhole'
      /\ i \in Port(node[n].ctor) /\ node[n].values[i] = NULL
    <2>1. i \in Port(node[n].ctor) /\ node[n].values[i] = NULL /\ mutex' = mutex
        BY DEF Fills
    <2> QED
        BY <2>1, FilledPort
<1>3. Types'
    BY <1>1, <1>2 DEF IInv, Types
<1>4. \A u \in Thread : Locals(worker[u])'
    BY <1>1 DEF IInv
<1>5. e \notin PrincipalWire
    BY ValuesAre
<1>6. ASSUME NEW m \in Node
      PROVE  PortsFit(m)'
    <2> SUFFICES ASSUME NEW j \in Index, node'[m].values[j] # NULL
                 PROVE  LET u == node'[m].values[j] IN
                        /\ node'[m].ctor \in DOMAIN Ctor
                        /\ j \in Port(node'[m].ctor)
                        /\ u \in PrincipalWire <=> j \in Ctor[node'[m].ctor].principal
                        /\ u \in PrincipalWire =>
                             /\ principal_wire'[u].node = m
                             /\ principal_wire'[u].index = j
        BY DEF PortsFit
    <2>1. CASE m = n /\ j = i
        BY <1>2, <1>5, <2>1
    <2>2. CASE ~(m = n /\ j = i)
        <3>1. node'[m].values[j] = node[m].values[j] /\ node'[m].ctor = node[m].ctor
            BY <1>2, <2>2
        <3>2. PortsFit(m)
            BY DEF IInv
        <3> QED
            BY <3>1, <3>2 DEF PortsFit
    <2> QED
        BY <2>1, <2>2
<1>7. ASSUME NEW p \in PrincipalWire
      PROVE  HasItsPort(p)'
    <2>1. principal_wire'[p] = principal_wire[p] /\ HasItsPort(p)
        BY DEF IInv
    <2>2. \A m \in Node, j \in Index : node[m].values[j] = p => node'[m].values[j] = p
        BY <1>2, ValuesAre DEF NULL
    <2> QED
        BY <2>1, <2>2 DEF HasItsPort
<1>8. ASSUME NEW v \in End
      PROVE  EndsAreCounted(v)'
    <2> DEFINE r == Cardinality(Rest(w, worker, v))
    <2>1. Balance(w, v, r) /\ NextBalance(w, v, r)
        BY <1>1, <1>3, HasBalance, HasNextBalance DEF Types
    <2>2. Need(v)' = Need(v)
        BY DEF Need
    <2>3. wire' = wire /\ PortCount(node', v) = PortCount(node, v) + OneIf(e, v)
        BY <1>2
    <2>4. /\ HandCount(worker[w], v) = HandCount(s2, v) + OneIf(e, v)
          /\ OneIf(e, v) \in Nat
        BY DEF OneIf
    <2>5. /\ Count(s2.stack, v) \in Nat /\ Count(s2.pair, v) \in Nat
          /\ Count(VariableValues(s2), v) \in Nat
        BY HandIs
    <2> HIDE DEF r
    <2> QED
        BY <1>1, <2>1, <2>2, <2>3, <2>4, <2>5 DEF Balance, NextBalance, HandCount
<1>9. \A u \in Thread : Reconnects(u)'
    <2>1. \A u \in Thread \ {w} : \A m \in Node : mutex[m] = u => m # n
        BY <1>2
    <2> QED
        BY <1>1, <1>2, <2>1, OthersReconnect
<1>10. ClaimsAreApart' /\ ClaimsHaveMet' /\ AllStand'
    <2>1. ASSUME NEW p \in PrincipalWire, principal_wire[p].oppsite # NULL
          PROVE  principal_wire'[p].oppsite = principal_wire[p].oppsite /\ CtorOf(p)' = CtorOf(p)
        <3>1. principal_wire[p] # Freed
            BY <2>1 DEF Freed
        <3>2. principal_wire[p].node \in Node
            BY <3>1 DEF IInv, HasItsPort
        <3> QED
            BY <1>2, <3>2 DEF CtorOf
    <2>2. Held(s2) \subseteq Held(worker[w]) \ {}
        OBVIOUS
    <2>3. \A t \in TasksOf(s2) : Both(t) \intersect {} = {}
        OBVIOUS
    <2> QED
        BY <1>1, <2>1, <2>2, <2>3, ClaimsStay
<1> QED
    BY <1>2, <1>3, <1>4, <1>6, <1>7, <1>8, <1>9, <1>10 DEF IInv

LEMMA ReconnectInputKeeps ==
    ASSUME IInv, NEW w \in Thread, ReconnectInput(w)
    PROVE  IInv'
<1> PICK s : s = worker[w]
    OBVIOUS
<1> PICK n : n = s.node
    OBVIOUS
<1> PICK i : i = s.port - 1
    OBVIOUS
<1> PICK u : u = Top(s.stack)
    OBVIOUS
<1> PICK e : e = NewEnd(n, i)
    OBVIOUS
<1> DEFINE c == node[n].ctor
           self == [s EXCEPT !.stack = Pop(@), !.port = @ - 1]
           made == [self EXCEPT !.pc = "connect", !.pair = <<e, u>>]
<1>1. s \in WorkerState /\ Locals(s) /\ Reconnects(w)
    BY WorkerIs DEF IInv
<1>2. /\ s.pc = "input" /\ s.port > 0 /\ s.stack # <<>>
      /\ UNCHANGED <<mutex, task_pool, phase, interactions>>
      /\ \/ /\ IsPrincipal(n, i) \/ u \in PrincipalWire
            /\ MakeEnd(n, i, e)
            /\ Become(w, made)
         \/ /\ ~IsPrincipal(n, i) /\ u \notin PrincipalWire
            /\ node' = [node EXCEPT ![n].values[i] = u]
            /\ Become(w, self)
            /\ UNCHANGED <<wire, principal_wire>>
    <2> HIDE DEF c
    <2>1. n = worker[w].node /\ i = InputPort(w) /\ u = Top(worker[w].stack)
        BY Zenon DEF InputPort
    <2> QED
        BY <2>1, Zenon DEF ReconnectInput, At, is_principal_wire
<1> HIDE DEF self, made
<1>2a. s.pc = "input" /\ s.port > 0 /\ s.stack # <<>> /\ mutex' = mutex
    BY <1>2
<1>3. n \in Node /\ n # NULL /\ c \in DOMAIN Ctor /\ mutex[n] = w /\ s.port \in Nat
    BY <1>1, <1>2a DEF Locals, WorkerState, Reconnects
<1>4. /\ s.port <= Ctor[c].input_arity
      /\ \A j \in Port(c) : node[n].values[j] = NULL <=> j < s.port \/ j >= Ctor[c].input_arity
      /\ s.found # NoTask => \A j \in Ctor[c].principal : j >= s.port
    BY <1>1, <1>2a, <1>3 DEF Reconnects
<1>5. /\ Arity(c) \in Nat /\ Ctor[c].input_arity \in Nat /\ Ctor[c].input_arity <= Arity(c)
      /\ Port(c) = 0 .. Arity(c) - 1 /\ Port(c) \subseteq Nat /\ Ctor[c].principal \subseteq Port(c)
      /\ Port(c) \subseteq Index
    BY <1>3, PortsOf
<1>6. s.port = i + 1 /\ i \in Nat
    BY <1>2a, <1>3
<1>6a. /\ i \in Port(c) /\ node[n].values[i] = NULL
       /\ i <= Ctor[c].input_arity /\ ~(i < i) /\ ~(i >= Ctor[c].input_arity)
       /\ s.found # NoTask => \A j \in Ctor[c].principal : j > i /\ j >= i
    <2> HIDE DEF c
    <2>1. /\ i <= Ctor[c].input_arity /\ ~(i < i) /\ ~(i >= Ctor[c].input_arity)
          /\ i \in Port(c)
        BY <1>4, <1>5, <1>6
    <2>2. s.found # NoTask => \A j \in Ctor[c].principal : j > i /\ j >= i
        BY <1>4, <1>5, <1>6
    <2> QED
        BY <1>4, <1>6, <2>1, <2>2
<1>7. s.task = NoTask /\ s.pair = <<>>
    BY <1>1, <1>2a DEF Locals
<1>8. s.stack \in Seq(Value) /\ u \in Value /\ Pop(s.stack) \in Seq(Value)
    BY <1>1, <1>2a, PopIs DEF WorkerState
<1>9. /\ self \in WorkerState
      /\ self.pc = "input" /\ self.task = NoTask /\ self.stack = Pop(s.stack) /\ self.code = s.code
      /\ self.variables = s.variables /\ self.node = n /\ self.port = i
      /\ self.pair = <<>> /\ self.found = s.found
    BY <1>1, <1>2a, <1>6, <1>7, <1>8 DEF self, WorkerState
<1>10. ASSUME NEW v \in End
       PROVE  /\ Count(s.stack, v) = Count(Pop(s.stack), v) + OneIf(u, v)
              /\ Count(Pop(s.stack), v) \in Nat /\ Count(VariableValues(s), v) \in Nat
              /\ Count(VariableValues(self), v) = Count(VariableValues(s), v)
              /\ Count(<<>>, v) = 0
    <2>1. Count(s.stack, v) = Count(Pop(s.stack), v) + OneIf(u, v)
        BY <1>2a, <1>8, CountPop
    <2>2. VariableValues(self) = VariableValues(s)
        BY <1>9 DEF VariableValues
    <2>3. Count(Pop(s.stack), v) \in Nat /\ Count(VariableValues(s), v) \in Nat
        BY <1>1, <1>9, HandIs
    <2> QED
        BY <2>1, <2>2, <2>3, CountNothing
<1>11. CASE /\ MakeEnd(n, i, e) /\ Become(w, made)
    <2>1. EndIsNew(n, i, e)
        BY <1>3, <1>6, <1>11, EndIs
    <2>2. e \in Value
        BY <2>1, NumbersAre DEF EndIsNew
    <2>3. Fills(w, n, i, e)
        BY <1>2a, <1>3, <1>6a, <1>11, <2>2 DEF Fills, MakeEnd
    <2>4. /\ made \in WorkerState
          /\ made.pc = "connect" /\ made.task = NoTask /\ made.stack = Pop(s.stack)
          /\ made.code = s.code /\ made.variables = s.variables /\ made.node = n /\ made.port = i
          /\ made.pair = <<e, u>> /\ made.found = s.found
        BY <1>8, <1>9, <2>2, ZenonT(40) DEF made, WorkerState, Label
    <2>5. worker'[w] = made
        BY <1>11, <2>4, Becomes
    <2>6. Locals(made)
        BY <1>1, <1>2a, <1>3, <1>7, <2>4 DEF Locals
    <2>7. Reconnects(w)'
        <3>1. /\ node'[n].ctor = c /\ node'[n].values[i] = e /\ mutex'[n] = w
              /\ \A j \in Index \ {i} : node'[n].values[j] = node[n].values[j]
            BY <1>2a, <1>3, <2>3, FilledPort
        <3> HIDE DEF c
        <3>2. \A j \in Port(c) : node'[n].values[j] = NULL <=> j < i \/ j >= Ctor[c].input_arity
            <4> TAKE j \in Port(c)
            <4>1. j \in Index /\ j \in Nat /\ e # NULL
                BY <1>5, <2>2, ValuesAre
            <4>2. CASE j = i
                BY <1>6a, <3>1, <4>1, <4>2
            <4>3. CASE j # i
                <5>1. node'[n].values[j] = node[n].values[j]
                    BY <3>1, <4>1, <4>3
                <5>2. j < s.port <=> j < i
                    BY <1>6, <4>1, <4>3
                <5> QED
                    BY <1>4, <5>1, <5>2
            <4> QED
                BY <4>2, <4>3
        <3>3. i \notin Ctor[c].principal => e \in Wire /\ wire'[e] = NULL
            BY <2>1 DEF c, EndIsNew, Value, End
        <3>4. s.found # NoTask => \A j \in Ctor[c].principal : j > i
            BY <1>6a, Zenon
        <3>5. i <= Ctor[c].input_arity /\ i \in Port(c)
            BY <1>6a, Zenon
        <3>6. /\ made.pc = "connect" /\ made.node = n /\ made.port = i
              /\ made.pair[1] = e /\ made.found = s.found
            BY <2>4
        <3> QED
            BY <1>3, <2>5, <3>1, <3>2, <3>3, <3>4, <3>5, <3>6, ZenonT(40) DEF Reconnects
    <2>8. Held(made) = Held(s) /\ TasksOf(made) = TasksOf(s)
        BY <1>2a, <2>4 DEF Held, TasksOf
    <2>9. ASSUME NEW v \in End
          PROVE  HandCount(made, v) = HandCount(s, v) + OneIf(e, v)
        <3>1. Count(<<e, u>>, v) = OneIf(e, v) + OneIf(u, v)
            BY CountPair
        <3>2. VariableValues(made) = VariableValues(s)
            BY <2>4 DEF VariableValues
        <3> QED
            BY <1>7, <1>10, <2>4, <3>1, <3>2 DEF HandCount, OneIf
    <2> QED
        BY <1>2, <1>11, <2>1, <2>3, <2>4, <2>6, <2>7, <2>8, <2>9, MadeEndKeeps
<1>12. CASE /\ ~IsPrincipal(n, i) /\ u \notin PrincipalWire
            /\ node' = [node EXCEPT ![n].values[i] = u]
            /\ Become(w, self)
            /\ UNCHANGED <<wire, principal_wire>>
    <2>1. Fills(w, n, i, u) /\ u \notin PrincipalWire /\ i \notin Ctor[c].principal
        BY <1>2a, <1>3, <1>6a, <1>8, <1>12 DEF Fills, IsPrincipal, Value, End
    <2>2. worker'[w] = self
        BY <1>9, <1>12, Becomes
    <2>3. Locals(self)
        BY <1>1, <1>2a, <1>3, <1>7, <1>9 DEF Locals
    <2>4. Reconnects(w)'
        <3>1. /\ node'[n].ctor = c /\ node'[n].values[i] = u /\ mutex'[n] = w
              /\ \A j \in Index \ {i} : node'[n].values[j] = node[n].values[j]
            BY <1>2a, <1>3, <2>1, FilledPort
        <3> HIDE DEF c
        <3>2. \A j \in Port(c) : node'[n].values[j] = NULL <=> j < i \/ j >= Ctor[c].input_arity
            <4> TAKE j \in Port(c)
            <4>1. j \in Index /\ j \in Nat /\ u # NULL
                BY <1>5, <1>8, ValuesAre
            <4>2. CASE j = i
                BY <1>6a, <3>1, <4>1, <4>2
            <4>3. CASE j # i
                <5>1. node'[n].values[j] = node[n].values[j]
                    BY <3>1, <4>1, <4>3
                <5>2. j < s.port <=> j < i
                    BY <1>6, <4>1, <4>3
                <5> QED
                    BY <1>4, <5>1, <5>2
            <4> QED
                BY <4>2, <4>3
        <3>3. s.found # NoTask => \A j \in Ctor[c].principal : j >= i
            BY <1>6a, Zenon
        <3>4. i <= Ctor[c].input_arity
            BY <1>6a, Zenon
        <3>5. self.pc = "input" /\ self.node = n /\ self.port = i /\ self.found = s.found
            BY <1>9
        <3> QED
            BY <1>3, <2>2, <3>1, <3>2, <3>3, <3>4, <3>5, ZenonT(40) DEF Reconnects
    <2>5. Held(self) = Held(s) /\ TasksOf(self) = TasksOf(s)
        BY <1>2a, <1>9 DEF Held, TasksOf
    <2>6. ASSUME NEW v \in End
          PROVE  HandCount(s, v) = HandCount(self, v) + OneIf(u, v)
        BY <1>7, <1>9, <1>10 DEF HandCount, OneIf
    <2> QED
        BY <1>2, <1>9, <1>12, <2>1, <2>3, <2>4, <2>5, <2>6, MovedValueKeeps
<1> QED
    BY <1>2, <1>11, <1>12

LEMMA ReconnectOutputKeeps ==
    ASSUME IInv, NEW w \in Thread, ReconnectOutput(w)
    PROVE  IInv'
<1> PICK s : s = worker[w]
    OBVIOUS
<1> PICK n : n = s.node
    OBVIOUS
<1> PICK i : i = s.port
    OBVIOUS
<1> PICK e : e = NewEnd(n, i)
    OBVIOUS
<1> DEFINE c == node[n].ctor
           made == [s EXCEPT !.stack = Append(@, e), !.port = i + 1]
<1>1. s \in WorkerState /\ Locals(s) /\ Reconnects(w)
    BY WorkerIs DEF IInv
<1>2. /\ s.pc = "output" /\ i < Arity(c)
      /\ MakeEnd(n, i, e) /\ Become(w, made)
      /\ UNCHANGED <<mutex, task_pool, phase, interactions>>
    BY Zenon DEF ReconnectOutput, At
<1>3. n \in Node /\ n # NULL /\ c \in DOMAIN Ctor /\ mutex[n] = w /\ i \in Nat
    BY <1>1, <1>2 DEF Locals, WorkerState, Reconnects
<1>4. /\ i >= Ctor[c].input_arity
      /\ \A j \in Port(c) : node[n].values[j] = NULL <=> j >= i
    BY <1>1, <1>2, <1>3 DEF Reconnects
<1>5. /\ Arity(c) \in Nat /\ Ctor[c].input_arity \in Nat
      /\ Port(c) = 0 .. Arity(c) - 1 /\ Port(c) \subseteq Nat
    BY <1>3, PortsOf, SMTT(30)
<1>6. i \in Port(c) /\ node[n].values[i] = NULL
    BY <1>2, <1>3, <1>4, <1>5
<1>7. s.task = NoTask /\ s.pair = <<>>
    BY <1>1, <1>2 DEF Locals
<1>8. EndIsNew(n, i, e)
    BY <1>2, <1>3, EndIs
<1>9. e \in Value
    BY <1>8, NumbersAre DEF EndIsNew
<1>10. Fills(w, n, i, e)
    BY <1>2, <1>3, <1>6, <1>9 DEF Fills, MakeEnd
<1>11. s.stack \in Seq(Value) /\ Append(s.stack, e) \in Seq(Value)
    BY <1>1, <1>9 DEF WorkerState
<1>12. /\ made \in WorkerState
       /\ made.pc = "output" /\ made.task = NoTask /\ made.stack = Append(s.stack, e)
       /\ made.code = s.code /\ made.variables = s.variables /\ made.node = n /\ made.port = i + 1
       /\ made.pair = <<>> /\ made.found = s.found
    <2>1. i + 1 \in Nat
        BY <1>3
    <2> QED
        BY <1>1, <1>2, <1>7, <1>11, <2>1 DEF WorkerState
<1> HIDE DEF made
<1>13. worker'[w] = made
    BY <1>2, <1>12, Becomes
<1>14. Locals(made)
    BY <1>1, <1>2, <1>3, <1>7, <1>12 DEF Locals
<1>15. Reconnects(w)'
    <2>1. /\ node'[n].ctor = c /\ node'[n].values[i] = e /\ mutex'[n] = w
          /\ \A j \in Index \ {i} : node'[n].values[j] = node[n].values[j]
        BY <1>2, <1>3, <1>10, FilledPort
    <2>2. \A j \in Port(c) : node'[n].values[j] = NULL <=> j >= i + 1
        <3>1. Port(c) \subseteq Index /\ e # NULL
            BY <1>3, <1>9, PortsOf, ValuesAre
        <3> TAKE j \in Port(c)
        <3>2. j = i => j \in Index /\ ~(j >= i + 1)
            BY <1>3, <1>6, <3>1
        <3>3. j # i => j \in Index \ {i} /\ (j >= i <=> j >= i + 1)
            BY <1>3, <1>5, <3>1
        <3> QED
            BY <1>4, <2>1, <3>1, <3>2, <3>3, Zenon
    <2>3. i + 1 >= Ctor[c].input_arity /\ i + 1 <= Arity(c)
        BY <1>2, <1>3, <1>4, <1>5
    <2> HIDE DEF c
    <2> QED
        BY <1>3, <1>12, <1>13, <2>1, <2>2, <2>3, ZenonT(40) DEF Reconnects
<1>16. Held(made) = Held(s) /\ TasksOf(made) = TasksOf(s)
    BY <1>2, <1>12 DEF Held, TasksOf
<1>17. ASSUME NEW v \in End
       PROVE  HandCount(made, v) = HandCount(s, v) + OneIf(e, v)
    <2>1. Count(made.stack, v) = Count(s.stack, v) + OneIf(e, v)
        BY <1>9, <1>11, <1>12, CountAppend
    <2>2. VariableValues(made) = VariableValues(s)
        BY <1>12 DEF VariableValues
    <2>3. /\ Count(s.stack, v) \in Nat /\ Count(VariableValues(s), v) \in Nat
          /\ Count(<<>>, v) = 0
        BY <1>1, HandIs, CountNothing
    <2> QED
        BY <1>7, <1>12, <2>1, <2>2, <2>3 DEF HandCount, OneIf
<1> QED
    BY <1>2, <1>8, <1>10, <1>12, <1>14, <1>15, <1>16, <1>17, MadeEndKeeps

LEMMA UnlockKeeps ==
    ASSUME IInv, NEW w \in Thread, Unlock(w)
    PROVE  IInv'
<1> PICK s : s = worker[w]
    OBVIOUS
<1> PICK n : n = s.node
    OBVIOUS
<1> DEFINE c == node[n].ctor
           s2 == [s EXCEPT !.pc = IF s.found = NoTask THEN "execute" ELSE "add task",
                           !.node = NULL, !.port = 0]
<1>1. s \in WorkerState /\ Locals(s) /\ Reconnects(w) /\ Types
    BY WorkerIs DEF IInv
<1>2. /\ s.pc = "output" /\ s.port = Arity(c) /\ Become(w, s2)
      /\ mutex' = [mutex EXCEPT ![n] = NULL]
      /\ UNCHANGED <<node, wire, principal_wire, task_pool, phase, interactions>>
    BY Zenon DEF Unlock, At, SetMutex
<1>3. n \in Node /\ n # NULL /\ c \in DOMAIN Ctor /\ mutex[n] = w
    BY <1>1, <1>2 DEF Locals, WorkerState, Reconnects
<1>4. \A i \in Port(c) : node[n].values[i] # NULL
    <2>1. \A i \in Port(c) : node[n].values[i] = NULL <=> i >= s.port
        BY <1>1, <1>2, <1>3 DEF Reconnects
    <2>2. \A i \in Port(c) : ~(i >= s.port)
        BY <1>2, <1>3, PortsOf
    <2> QED
        BY <2>1, <2>2
<1>5. s.task = NoTask /\ s.pair = <<>>
    BY <1>1, <1>2 DEF Locals
<1>6. /\ s2 \in WorkerState
      /\ s2.pc = (IF s.found = NoTask THEN "execute" ELSE "add task")
      /\ s2.task = NoTask /\ s2.stack = s.stack /\ s2.code = s.code
      /\ s2.variables = s.variables /\ s2.node = NULL /\ s2.pair = <<>> /\ s2.found = s.found
    BY <1>1, <1>5, ZenonT(40) DEF WorkerState, Label
<1> HIDE DEF s2
<1>7. /\ worker'[w] = s2
      /\ \A u \in Thread \ {w} : worker'[u] = worker[u]
      /\ worker' \in [Thread -> WorkerState]
    BY <1>2, <1>6, Becomes
<1>8. Types'
    BY <1>1, <1>2, <1>7 DEF Types
<1>9. \A u \in Thread : Locals(worker[u])'
    <2>1. Locals(s2)
        BY <1>1, <1>6 DEF Locals
    <2> QED
        BY <1>7, <2>1 DEF IInv
<1>10. (\A m \in Node : PortsFit(m)') /\ (\A p \in PrincipalWire : HasItsPort(p)')
    BY <1>2 DEF IInv, PortsFit, HasItsPort
<1>11. UnlockedNodeIsWhole'
    BY <1>1, <1>2, <1>3, <1>4 DEF IInv, UnlockedNodeIsWhole, Types
<1>12. ASSUME NEW v \in End
       PROVE  EndsAreCounted(v)'
    <2> DEFINE r == Cardinality(Rest(w, worker, v))
    <2>1. Balance(w, v, r) /\ NextBalance(w, v, r)
        BY <1>7, <1>8, HasBalance, HasNextBalance DEF Types
    <2>2. Count(VariableValues(s2), v) = Count(VariableValues(s), v)
        BY <1>6 DEF VariableValues
    <2>3. Need(v)' = Need(v) /\ wire' = wire /\ node' = node
        BY <1>2 DEF Need
    <2> HIDE DEF r
    <2> QED
        BY <1>5, <1>6, <1>7, <2>1, <2>2, <2>3 DEF Balance, NextBalance
<1>13. \A u \in Thread : Reconnects(u)'
    <2>1. Reconnects(w)'
        BY <1>6, <1>7 DEF Reconnects
    <2>2. \A u \in Thread \ {w} : \A m \in Node : mutex[m] = u => mutex'[m] = mutex[m]
        BY <1>1, <1>2, <1>3 DEF Types
    <2> QED
        BY <1>2, <1>7, <2>1, <2>2, OthersReconnect
<1>14. ClaimsAreApart' /\ ClaimsHaveMet' /\ AllStand'
    <2>1. \A p \in PrincipalWire : principal_wire'[p] = principal_wire[p] /\ CtorOf(p)' = CtorOf(p)
        BY <1>2 DEF CtorOf
    <2>2. Held(s2) = Held(s) /\ TasksOf(s2) = TasksOf(s)
        BY <1>2, <1>6 DEF Held, TasksOf
    <2>3. Held(s2) \subseteq Held(s) \ {} /\ \A t \in TasksOf(s2) : Both(t) \intersect {} = {}
        BY <2>2
    <2> QED
        BY <1>2, <1>7, <2>1, <2>2, <2>3, ClaimsStay
<1> QED
    BY <1>8, <1>9, <1>10, <1>11, <1>12, <1>13, <1>14 DEF IInv

-----------------------------------------------------------------------------
(* connect.                                                                *)

LEMMA PairIs ==
    ASSUME IInv, NEW w \in Thread, At(w, "connect")
    PROVE  \E a, b \in Value : worker[w].pair = <<a, b>>
<1>1. worker[w].pair \in {<<>>} \union (Value \X Value) /\ worker[w].pair # <<>>
    BY WorkerIs DEF Locals, WorkerState, At
<1>2. worker[w].pair \in Value \X Value
    BY <1>1
<1> QED
    BY <1>2

\* The callers of connect: none of them holds a task that the pair could add to.
Returned(s, t) ==
    [s EXCEPT !.pair = <<>>, !.found = IF t = NoTask THEN @ ELSE t,
              !.pc = IF s.node = NULL THEN IF t = NoTask THEN "execute" ELSE "add task" ELSE "input"]

LEMMA ReturnIs ==
    ASSUME IInv, NEW w \in Thread, At(w, "connect"), NEW t \in Task \union {NoTask}, Return(w, t),
           t # NoTask /\ worker[w].node # NULL => worker[w].found = NoTask
    PROVE  LET s == worker[w]
               s2 == Returned(s, t)
           IN  /\ Become(w, s2) /\ s2 \in WorkerState
               /\ s2.pc = (IF s.node = NULL THEN IF t = NoTask THEN "execute" ELSE "add task" ELSE "input")
               /\ s2.task = NoTask /\ s2.stack = s.stack /\ s2.code = s.code
               /\ s2.variables = s.variables /\ s2.node = s.node /\ s2.port = s.port
               /\ s2.pair = <<>>
               /\ s2.found = (IF t = NoTask THEN s.found ELSE t)
               /\ Locals(s2)
<1> DEFINE s == worker[w]
           s2 == Returned(s, t)
<1>1. s \in WorkerState /\ Locals(s) /\ s.pc = "connect"
    BY WorkerIs DEF At
<1>2. Become(w, s2)
    BY <1>1 DEF Return, Returned, WorkerState
<1>3. s.task = NoTask
    BY <1>1 DEF Locals
<1>4. /\ s2 \in WorkerState
      /\ s2.pc = (IF s.node = NULL THEN IF t = NoTask THEN "execute" ELSE "add task" ELSE "input")
      /\ s2.task = NoTask /\ s2.stack = s.stack /\ s2.code = s.code
      /\ s2.variables = s.variables /\ s2.node = s.node /\ s2.port = s.port
      /\ s2.pair = <<>>
      /\ s2.found = (IF t = NoTask THEN s.found ELSE t)
    BY <1>1, <1>3, ZenonT(40) DEF Returned, WorkerState, Label
<1> HIDE DEF s2
<1>5. Locals(s2)
    BY <1>1, <1>3, <1>4 DEF Locals
<1> QED
    BY <1>2, <1>4, <1>5 DEF s2

\* The first end of wire x is fused: its value stays in the wire.
LEMMA FirstEndKeeps ==
    ASSUME IInv, NEW w \in Thread, At(w, "connect"), NEW x \in Wire, NEW y \in Value,
           worker[w].pair = <<x, y>> \/ worker[w].pair = <<y, x>>,
           wire[x] = NULL, wire' = [wire EXCEPT ![x] = y], Return(w, NoTask),
           UNCHANGED <<node, mutex, principal_wire, task_pool, phase, interactions>>
    PROVE  IInv'
<1> PICK s : s = worker[w]
    OBVIOUS
<1> PICK s2 : s2 = Returned(s, NoTask)
    OBVIOUS
<1>1. s \in WorkerState /\ Locals(s) /\ Reconnects(w) /\ Types /\ s.pc = "connect" /\ s.task = NoTask
    BY WorkerIs DEF IInv, At, Locals
<1>2. /\ Become(w, s2) /\ s2 \in WorkerState
      /\ s2.pc = (IF s.node = NULL THEN "execute" ELSE "input")
      /\ s2.task = NoTask /\ s2.stack = s.stack /\ s2.code = s.code
      /\ s2.variables = s.variables /\ s2.node = s.node /\ s2.port = s.port
      /\ s2.pair = <<>> /\ s2.found = s.found
      /\ Locals(s2)
    BY ReturnIs
<1>3. /\ worker'[w] = s2
      /\ \A u \in Thread \ {w} : worker'[u] = worker[u]
      /\ worker' \in [Thread -> WorkerState]
    BY <1>2, Becomes
<1>4. Types'
    BY <1>1, <1>3 DEF Types
<1>5. \A u \in Thread : Locals(worker[u])'
    BY <1>2, <1>3 DEF IInv
<1>6. (\A n \in Node : PortsFit(n)') /\ (\A p \in PrincipalWire : HasItsPort(p)') /\ UnlockedNodeIsWhole'
    BY DEF IInv, PortsFit, HasItsPort, UnlockedNodeIsWhole
<1>7. ASSUME NEW v \in End
      PROVE  Count(s.pair, v) = OneIf(x, v) + OneIf(y, v)
    <2>1. Count(<<x, y>>, v) = OneIf(x, v) + OneIf(y, v) /\ Count(<<y, x>>, v) = OneIf(y, v) + OneIf(x, v)
        BY CountPair
    <2>2. s.pair = <<x, y>> \/ s.pair = <<y, x>>
        OBVIOUS
    <2> QED
        BY <2>1, <2>2 DEF OneIf
<1>8. ASSUME NEW v \in End
      PROVE  EndsAreCounted(v)'
    <2> DEFINE r == Cardinality(Rest(w, worker, v))
    <2>1. Balance(w, v, r) /\ NextBalance(w, v, r)
        BY <1>3, <1>4, HasBalance, HasNextBalance DEF Types
    <2>2. Count(VariableValues(s2), v) = Count(VariableValues(s), v) /\ Count(s2.pair, v) = 0
        BY <1>2, CountNothing DEF VariableValues
    <2>3. Count(wire', v) = Count(wire, v) + OneIf(y, v)
        <3>1. WireGets(wire, wire', x, y)
            BY <1>1 DEF Types, WireGets
        <3>2. WireCounts(wire, wire', x, y, v)
            BY <3>1, WireSetCounts
        <3>3. OneIf(wire[x], v) = 0
            BY ValuesAre DEF OneIf
        <3> QED
            BY <2>1, <3>2, <3>3 DEF WireCounts, Balance, OneIf
    <2>4. Need(v)' = Need(v) - OneIf(x, v) /\ Need(v) \in Nat
        <3>1. y # NULL /\ y # FREE
            BY ValuesAre
        <3> QED
            BY <1>1, <3>1 DEF Need, OneIf, Types, NULL, FREE
    <2>5. Count(s.pair, v) = OneIf(x, v) + OneIf(y, v) /\ OneIf(x, v) \in Nat /\ OneIf(y, v) \in Nat
        BY <1>7 DEF OneIf
    <2>6. node' = node
        OBVIOUS
    <2> HIDE DEF r
    <2>7. worker'[w] = s2 /\ worker[w] = s /\ s2.stack = s.stack
        BY <1>2, <1>3
    <2> QED
        BY <2>1, <2>2, <2>3, <2>4, <2>5, <2>6, <2>7 DEF Balance, NextBalance
<1>9. Reconnects(w)'
    <2>1. CASE s.node = NULL
        BY <1>2, <1>3, <2>1 DEF Reconnects
    <2>2. CASE s.node # NULL
        <3>1. node[s.node].ctor \in DOMAIN Ctor /\ s.port \in Nat
            BY <1>1, <2>2 DEF Reconnects, WorkerState
        <3>2. \A i \in Ctor[node[s.node].ctor].principal : i > s.port => i >= s.port
            BY <3>1, PortsOf
        <3> QED
            BY <1>1, <1>2, <1>3, <2>2, <3>2, ZenonT(40) DEF Reconnects
    <2> QED
        BY <2>1, <2>2, SMTT(30)
<1>10. ASSUME NEW u \in Thread \ {w}, NEW z \in Wire,
              wire[z] = NULL, PortCount(node, z) >= 1, HandCount(worker[u], z) >= 1
       PROVE  wire'[z] = NULL
    <2>1. z \in End
        BY DEF End
    <2> DEFINE r == Cardinality(Rest(w, worker, z))
    <2>2. Balance(w, z, r)
        BY <2>1, HasBalance
    <2>3. Need(z) = 2
        BY <1>10 DEF Need, NULL, FREE
    <2> HIDE DEF r
    <2>4. Count(s.pair, z) = 0
        BY <1>10, <2>2, <2>3 DEF Balance
    <2>5. z # x
        BY <1>7, <2>1, <2>4 DEF OneIf
    <2> QED
        BY <1>1, <1>10, <2>5 DEF Types
<1>11. \A u \in Thread : Reconnects(u)'
    BY <1>3, <1>9, <1>10, OthersReconnect
<1>12. ClaimsAreApart' /\ ClaimsHaveMet' /\ AllStand'
    <2>1. \A p \in PrincipalWire : principal_wire'[p] = principal_wire[p] /\ CtorOf(p)' = CtorOf(p)
        BY DEF CtorOf
    <2>2. Held(s2) = Held(s) /\ TasksOf(s2) = TasksOf(s)
        BY <1>1, <1>2 DEF Held, TasksOf
    <2>3. Held(s2) \subseteq Held(s) \ {} /\ \A t \in TasksOf(s2) : Both(t) \intersect {} = {}
        BY <2>2
    <2> QED
        BY <1>3, <2>1, <2>2, <2>3, ClaimsStay
<1> QED
    BY <1>4, <1>5, <1>6, <1>8, <1>11, <1>12 DEF IInv

\* A wire that connect works on is not a freed one.
LEMMA WireInHand ==
    ASSUME IInv, NEW w \in Thread, NEW x \in Wire, NEW y \in Value,
           worker[w].pair = <<x, y>> \/ worker[w].pair = <<y, x>>
    PROVE  Need(x) >= 1 /\ wire[x] # FREE
<1>1. x \in End
    BY DEF End
<1>2. Count(worker[w].pair, x) >= 1
    <2>1. Count(<<x, y>>, x) = OneIf(x, x) + OneIf(y, x) /\ Count(<<y, x>>, x) = OneIf(y, x) + OneIf(x, x)
        BY CountPair
    <2> QED
        BY <2>1 DEF OneIf
<1>3. Need(x) >= 1
    <2> DEFINE r == Cardinality(Rest(w, worker, x))
    <2>1. Balance(w, x, r)
        BY <1>1, HasBalance
    <2> HIDE DEF r
    <2> QED
        BY <1>2, <2>1 DEF Balance
<1> QED
    BY <1>3 DEF Need

\* The second end of wire x frees it, and goes on with the value it finds there.
LEMMA SecondEndKeeps ==
    ASSUME IInv, NEW w \in Thread, At(w, "connect"), NEW x \in Wire, NEW y \in Value,
           \/ worker[w].pair = <<x, y>>
           \/ worker[w].pair = <<y, x>> /\ y \notin Wire,
           wire[x] # NULL, wire' = [wire EXCEPT ![x] = FREE],
           Become(w, [worker[w] EXCEPT !.pair = <<wire[x], y>>]),
           UNCHANGED <<node, mutex, principal_wire, task_pool, phase, interactions>>
    PROVE  IInv'
<1> PICK s : s = worker[w]
    OBVIOUS
<1> PICK z : z = wire[x]
    OBVIOUS
<1>0. PICK s2 : s2 = [s EXCEPT !.pair = <<z, y>>]
    OBVIOUS
<1>1. s \in WorkerState /\ Locals(s) /\ Reconnects(w) /\ Types /\ s.pc = "connect" /\ s.task = NoTask
    BY WorkerIs DEF IInv, At, Locals
<1>2. ASSUME NEW v \in End
      PROVE  Count(s.pair, v) = OneIf(x, v) + OneIf(y, v)
    <2>1. Count(<<x, y>>, v) = OneIf(x, v) + OneIf(y, v) /\ Count(<<y, x>>, v) = OneIf(y, v) + OneIf(x, v)
        BY CountPair
    <2>2. s.pair = <<x, y>> \/ s.pair = <<y, x>>
        OBVIOUS
    <2> QED
        BY <2>1, <2>2 DEF OneIf
<1>3. z \in Value /\ Need(x) = 1
    <2>1. Need(x) >= 1 /\ wire[x] # FREE
        BY WireInHand
    <2> QED
        BY <1>1, <2>1 DEF Types, Need
<1>4. /\ Become(w, s2) /\ s2 \in WorkerState
      /\ s2.pc = "connect"
      /\ s2.task = NoTask /\ s2.stack = s.stack /\ s2.code = s.code
      /\ s2.variables = s.variables /\ s2.node = s.node /\ s2.port = s.port
      /\ s2.pair = <<z, y>> /\ s2.found = s.found
    BY <1>0, <1>1, <1>3 DEF WorkerState
<1>5. Locals(s2)
    <2>1. s2.pair # <<>>
        BY <1>4
    <2>2. /\ s2.pc = "connect" /\ s2.task = NoTask /\ s2.code = s.code
          /\ s2.variables = s.variables /\ s2.node = s.node /\ s2.found = s.found
        BY <1>4
    <2> QED
        BY <1>1, <2>1, <2>2 DEF Locals
<1>6. /\ worker'[w] = s2
      /\ \A u \in Thread \ {w} : worker'[u] = worker[u]
      /\ worker' \in [Thread -> WorkerState]
    BY <1>4, Becomes
<1>7. Types'
    BY <1>1, <1>6 DEF Types
<1>8. \A u \in Thread : Locals(worker[u])'
    BY <1>5, <1>6 DEF IInv
<1>9. (\A n \in Node : PortsFit(n)') /\ (\A p \in PrincipalWire : HasItsPort(p)') /\ UnlockedNodeIsWhole'
    BY DEF IInv, PortsFit, HasItsPort, UnlockedNodeIsWhole
<1>10. ASSUME NEW v \in End
       PROVE  EndsAreCounted(v)'
    <2> DEFINE r == Cardinality(Rest(w, worker, v))
    <2>1. Balance(w, v, r) /\ NextBalance(w, v, r)
        BY <1>6, <1>7, HasBalance, HasNextBalance DEF Types
    <2>2. /\ Count(VariableValues(s2), v) = Count(VariableValues(s), v)
          /\ Count(s2.pair, v) = OneIf(z, v) + OneIf(y, v)
        BY <1>4, CountPair DEF VariableValues
    <2>3. Count(wire', v) = Count(wire, v) - OneIf(z, v)
        <3>1. WireGets(wire, wire', x, FREE)
            BY <1>1 DEF Types, WireGets
        <3>2. WireCounts(wire, wire', x, FREE, v)
            BY <3>1, WireSetCounts
        <3>3. OneIf(FREE, v) = 0
            BY ValuesAre DEF OneIf
        <3> QED
            BY <2>1, <3>2, <3>3 DEF WireCounts, Balance, OneIf
    <2>4. Need(v)' = Need(v) - OneIf(x, v) /\ Need(v) \in Nat
        BY <1>1, <1>3 DEF Need, OneIf, Types, NULL, FREE
    <2>5. /\ Count(s.pair, v) = OneIf(x, v) + OneIf(y, v)
          /\ OneIf(x, v) \in Nat /\ OneIf(y, v) \in Nat /\ OneIf(z, v) \in Nat
        BY <1>2 DEF OneIf
    <2>6. node' = node
        OBVIOUS
    <2> HIDE DEF r
    <2> QED
        BY <1>4, <1>6, <2>1, <2>2, <2>3, <2>4, <2>5, <2>6 DEF Balance, NextBalance
<1>11. Reconnects(w)'
    <2>1. CASE s.node = NULL
        BY <1>4, <1>6, <2>1 DEF Reconnects
    <2>2. CASE s.node # NULL
        <3>1. s.port \in Ctor[node[s.node].ctor].principal
            <4>1. ~(s.pair[1] \in Wire /\ wire[s.pair[1]] = NULL)
                <5>1. s.pair = <<x, y>> \/ (s.pair = <<y, x>> /\ y \notin Wire)
                    OBVIOUS
                <5>2. s.pair[1] = x \/ s.pair[1] \notin Wire
                    BY <5>1
                <5> QED
                    BY <5>2
            <4> QED
                BY <1>1, <2>2, <4>1 DEF Reconnects
        <3> QED
            BY <1>1, <1>4, <1>6, <2>2, <3>1, ZenonT(40) DEF Reconnects
    <2> QED
        BY <2>1, <2>2
<1>12. \A u \in Thread : Reconnects(u)'
    <2>1. \A a \in Wire : wire[a] = NULL => wire'[a] = NULL
        BY <1>1 DEF Types
    <2> QED
        BY <1>6, <1>11, <2>1, OthersReconnect
<1>13. ClaimsAreApart' /\ ClaimsHaveMet' /\ AllStand'
    <2>1. \A p \in PrincipalWire : principal_wire'[p] = principal_wire[p] /\ CtorOf(p)' = CtorOf(p)
        BY DEF CtorOf
    <2>2. Held(s2) = Held(s) /\ TasksOf(s2) = TasksOf(s)
        <3>1. s.pc = "connect" /\ s2.pc = "connect" /\ s2.found = s.found
            BY <1>1, <1>4
        <3>2. Held(s2) = Held(s)
            BY <3>1 DEF Held
        <3>3. TasksOf(s2) = TasksOf(s)
            BY <3>1 DEF TasksOf
        <3> QED
            BY <3>2, <3>3
    <2>3. Held(s2) \subseteq Held(s) \ {} /\ \A t \in TasksOf(s2) : Both(t) \intersect {} = {}
        BY <2>2
    <2> QED
        BY <1>6, <2>1, <2>2, <2>3, ClaimsStay
<1> QED
    BY <1>7, <1>8, <1>9, <1>10, <1>12, <1>13 DEF IInv

LEMMA FuzeWireKeeps ==
    ASSUME IInv, NEW w \in Thread, FuzeWire(w)
    PROVE  IInv'
<1>1. At(w, "connect") /\ UNCHANGED <<node, mutex, principal_wire, task_pool, phase, interactions>>
    BY DEF FuzeWire
<1>2. PICK a \in Value, b \in Value : worker[w].pair = <<a, b>>
    BY <1>1, PairIs
<1>3. \/ a \in Wire /\ Fuze(w, a, b)
      \/ a \notin Wire /\ b \in Wire /\ Fuze(w, b, a)
    <2>1. worker[w].pair[1] = a /\ worker[w].pair[2] = b
        BY <1>2
    <2> QED
        BY <2>1, Zenon DEF FuzeWire, is_wire
<1>4. CASE a \in Wire /\ Fuze(w, a, b)
    <2>1. CASE wire[a] = NULL /\ wire' = [wire EXCEPT ![a] = b] /\ Return(w, NoTask)
        BY <1>1, <1>2, <1>4, <2>1, FirstEndKeeps
    <2>2. CASE wire[a] # NULL /\ wire' = Destroyed(a) /\ Become(w, [worker[w] EXCEPT !.pair = <<wire[a], b>>])
        BY <1>1, <1>2, <1>4, <2>2, SecondEndKeeps DEF Destroyed
    <2> QED
        BY <1>4, <2>1, <2>2, Zenon DEF Fuze
<1>5. CASE a \notin Wire /\ b \in Wire /\ Fuze(w, b, a)
    <2>1. CASE wire[b] = NULL /\ wire' = [wire EXCEPT ![b] = a] /\ Return(w, NoTask)
        BY <1>1, <1>2, <1>5, <2>1, FirstEndKeeps
    <2>2. CASE wire[b] # NULL /\ wire' = Destroyed(b) /\ Become(w, [worker[w] EXCEPT !.pair = <<wire[b], a>>])
        BY <1>1, <1>2, <1>5, <2>2, SecondEndKeeps DEF Destroyed
    <2> QED
        BY <1>5, <2>1, <2>2, Zenon DEF Fuze
<1> QED
    BY <1>3, <1>4, <1>5

\* The rule that is found is for the two nodes, in the order of the task.
LEMMA TaskOfIs ==
    ASSUME NEW l \in PrincipalWire, NEW r \in PrincipalWire, NEW t, t = TaskOf(l, r), t # NoTask
    PROVE  /\ t \in Task
           /\ (t.left = l /\ t.right = r) \/ (t.left = r /\ t.right = l)
           /\ Rules[t.rule].first = CtorOf(t.left)
           /\ Rules[t.rule].second = CtorOf(t.right)
<1> DEFINE matching == {k \in DOMAIN Rules : IsFor(k, l, r) \/ IsFor(k, r, l)}
           first == First(matching)
<1>1. matching # {} /\ t = rule_match(first, l, r)
    BY DEF TaskOf
<1>2. DOMAIN Rules \subseteq Nat
    BY BodyAssumption
<1>3. first \in matching
    <2>1. matching \subseteq Nat
        BY <1>2
    <2> HIDE DEF matching
    <2> QED
        BY <1>1, <2>1, FirstIsIn
<1>4. first \in DOMAIN Rules /\ (IsFor(first, l, r) \/ IsFor(first, r, l))
    <2> HIDE DEF first
    <2> QED
        BY <1>3
<1> HIDE DEF first
<1> QED
    <2>1. CASE IsFor(first, l, r)
        <3>1. t = [left |-> l, right |-> r, rule |-> first]
            BY <1>1, <2>1 DEF rule_match
        <3>2. t.left = l /\ t.right = r /\ t.rule = first /\ t \in Task
            BY <1>4, <3>1 DEF Task
        <3>3. Rules[first].first = CtorOf(l) /\ Rules[first].second = CtorOf(r)
            BY <2>1 DEF IsFor
        <3> HIDE <3>1
        <3> QED
            BY <3>2, <3>3
    <2>2. CASE ~IsFor(first, l, r)
        <3>1. t = [left |-> r, right |-> l, rule |-> first]
            BY <1>1, <2>2 DEF rule_match
        <3>2. t.left = r /\ t.right = l /\ t.rule = first /\ t \in Task
            BY <1>4, <3>1 DEF Task
        <3>3. Rules[first].first = CtorOf(r) /\ Rules[first].second = CtorOf(l)
            BY <1>4, <2>2 DEF IsFor
        <3> HIDE <3>1
        <3> QED
            BY <3>2, <3>3
    <2> QED
        BY <2>1, <2>2

\* Two principal wires that connect gets have not met yet.
LEMMA PairHasNotMet ==
    ASSUME IInv, NEW w \in Thread, NEW l \in PrincipalWire, NEW r \in PrincipalWire,
           worker[w].pair = <<l, r>>
    PROVE  /\ l # r
           /\ principal_wire[l] # Freed /\ principal_wire[l].oppsite = NULL
           /\ principal_wire[r] # Freed /\ principal_wire[r].oppsite = NULL
<1>1. ASSUME NEW p \in {l, r}
      PROVE  principal_wire[p] # Freed /\ principal_wire[p].oppsite = NULL /\ l # r
    <2> DEFINE k == Cardinality(Rest(w, worker, p))
    <2>1. p \in End /\ p \notin Wire
        BY ValuesAre DEF Value, End
    <2>2. Balance(w, p, k)
        BY <2>1, HasBalance
    <2>3. Count(worker[w].pair, p) = OneIf(l, p) + OneIf(r, p)
        BY CountPair
    <2> HIDE DEF k
    <2>4. Need(p) >= 1
        BY <2>2, <2>3 DEF Balance, OneIf
    <2>5. principal_wire[p] # Freed
        BY <2>1, <2>4 DEF Need
    <2>6. PortCount(node, p) >= 1
        <3>1. PICK m \in Node, i \in Index : node[m].values[i] = p
            BY <2>5 DEF IInv, HasItsPort
        <3>2. <<m, i>> \in DOMAIN PortValues(node) /\ PortValues(node)[<<m, i>>] = p
            BY <3>1 DEF PortValues
        <3>3. IsFiniteSet(DOMAIN PortValues(node))
            BY PortsAre
        <3>4. Count(PortValues(node), PortValues(node)[<<m, i>>]) >= 1
            BY <3>2, <3>3, CountIsPositive
        <3> QED
            BY <3>2, <3>4 DEF PortCount
    <2>7. Need(p) >= 2 /\ (l = r => Need(p) >= 3)
        BY <2>2, <2>3, <2>6 DEF Balance, OneIf
    <2>8. Need(p) = IF principal_wire[p].oppsite = NULL THEN 2 ELSE 1
        BY <2>1, <2>5 DEF Need
    <2> QED
        BY <2>5, <2>7, <2>8
<1> QED
    BY <1>1

\* connect comes to two principal wires from the principal port of the node that
\* is being reconnected, if there is one, and no task was found there before.
LEMMA FindsOneTask ==
    ASSUME IInv, NEW w \in Thread, At(w, "connect"), NEW l \in PrincipalWire, NEW r,
           worker[w].pair = <<l, r>>, worker[w].node # NULL
    PROVE  LET s == worker[w]
               c == node[s.node].ctor
           IN  s.found = NoTask /\ c \in DOMAIN Ctor /\ s.port \in Ctor[c].principal
<1> PICK s : s = worker[w]
    OBVIOUS
<1>1. s \in WorkerState /\ Reconnects(w) /\ s.pc = "connect" /\ s.pair[1] \notin Wire
    BY WorkerIs, ValuesAre DEF IInv, At
<1>2. /\ s.port \in Ctor[node[s.node].ctor].principal
      /\ node[s.node].ctor \in DOMAIN Ctor
      /\ s.found # NoTask => \A i \in Ctor[node[s.node].ctor].principal : i > s.port
    BY <1>1 DEF Reconnects
<1>3. s.port \in Nat
    BY <1>1 DEF WorkerState
<1> QED
    BY <1>2, <1>3

LEMMA ConnectActivePairKeeps ==
    ASSUME OnePrincipalPort, IInv, NEW w \in Thread, ConnectActivePair(w)
    PROVE  IInv'
<1>1. At(w, "connect") /\ UNCHANGED <<node, mutex, wire, task_pool, phase, interactions>>
    BY DEF ConnectActivePair
<1>2. PICK l \in Value, r \in Value : worker[w].pair = <<l, r>>
    BY <1>1, PairIs
<1>3. PICK t : t = TaskOf(l, r)
    OBVIOUS
<1> HIDE <1>3
<1>4. /\ l \in PrincipalWire /\ r \in PrincipalWire
      /\ principal_wire' = [principal_wire EXCEPT ![l].oppsite = r, ![r].oppsite = l]
      /\ Return(w, t)
    <2>1. worker[w].pair[1] = l /\ worker[w].pair[2] = r
        BY <1>2
    <2> QED
        BY <1>3, <2>1, Zenon DEF ConnectActivePair, is_principal_wire, Opposite
<1>5. /\ l # r
      /\ principal_wire[l] # Freed /\ principal_wire[l].oppsite = NULL
      /\ principal_wire[r] # Freed /\ principal_wire[r].oppsite = NULL
    BY <1>2, <1>4, PairHasNotMet
<1>6. PICK s : s = worker[w]
    OBVIOUS
<1>7. s \in WorkerState /\ Locals(s) /\ Reconnects(w) /\ Types /\ s.pc = "connect" /\ s.task = NoTask
    BY <1>1, <1>6, WorkerIs DEF IInv, At, Locals
<1>8. /\ principal_wire' \in [PrincipalWire -> [node : Node \union {NULL}, index : Nat,
                                                oppsite : PrincipalWire \union {NULL}]]
      /\ principal_wire'[l].oppsite = r /\ principal_wire'[r].oppsite = l
      /\ \A p \in PrincipalWire : /\ principal_wire'[p].node = principal_wire[p].node
                                  /\ principal_wire'[p].index = principal_wire[p].index
      /\ \A p \in PrincipalWire \ {l, r} : principal_wire'[p] = principal_wire[p]
    BY <1>4, <1>5, <1>7 DEF Types
<1>9. s.node # NULL => s.found = NoTask /\ s.port \in Ctor[node[s.node].ctor].principal
                         /\ node[s.node].ctor \in DOMAIN Ctor
    BY <1>1, <1>2, <1>4, <1>6, FindsOneTask
<1>10. s.found = NoTask /\ Held(s) = {} /\ TasksOf(s) = {}
    <2>1. s.found = NoTask
        BY <1>7, <1>9 DEF Locals
    <2> QED
        BY <1>7, <2>1 DEF Held, TasksOf
<1>11. /\ t \in Task \union {NoTask}
       /\ t # NoTask =>
            /\ t \in Task
            /\ (t.left = l /\ t.right = r) \/ (t.left = r /\ t.right = l)
            /\ Rules[t.rule].first = CtorOf(t.left)
            /\ Rules[t.rule].second = CtorOf(t.right)
    BY <1>3, <1>4, TaskOfIs
<1>12. PICK s2 : s2 = Returned(s, t)
    OBVIOUS
<1>13. /\ Become(w, s2) /\ s2 \in WorkerState
       /\ s2.pc = (IF s.node = NULL THEN IF t = NoTask THEN "execute" ELSE "add task" ELSE "input")
       /\ s2.task = NoTask /\ s2.stack = s.stack /\ s2.code = s.code
       /\ s2.variables = s.variables /\ s2.node = s.node /\ s2.port = s.port
       /\ s2.pair = <<>>
       /\ s2.found = t
       /\ Locals(s2)
    <2>1. t # NoTask /\ worker[w].node # NULL => worker[w].found = NoTask
        BY <1>6, <1>9
    <2>2. /\ Become(w, s2) /\ s2 \in WorkerState
          /\ s2.pc = (IF s.node = NULL THEN IF t = NoTask THEN "execute" ELSE "add task" ELSE "input")
          /\ s2.task = NoTask /\ s2.stack = s.stack /\ s2.code = s.code
          /\ s2.variables = s.variables /\ s2.node = s.node /\ s2.port = s.port
          /\ s2.pair = <<>>
          /\ s2.found = (IF t = NoTask THEN s.found ELSE t)
          /\ Locals(s2)
        BY <1>1, <1>4, <1>6, <1>11, <1>12, <2>1, ReturnIs
    <2> QED
        BY <1>10, <2>2
<1>14. /\ worker'[w] = s2
       /\ \A u \in Thread \ {w} : worker'[u] = worker[u]
       /\ worker' \in [Thread -> WorkerState]
    BY <1>13, Becomes
<1>15. Types'
    BY <1>1, <1>7, <1>8, <1>14 DEF Types
<1>16. \A u \in Thread : Locals(worker[u])'
    BY <1>13, <1>14 DEF IInv
<1>17. \A n \in Node : PortsFit(n)'
    BY <1>1, <1>8 DEF IInv, PortsFit
<1>18. \A p \in PrincipalWire : HasItsPort(p)'
    BY <1>1, <1>5, <1>8 DEF IInv, HasItsPort
<1>19. UnlockedNodeIsWhole'
    BY <1>1 DEF IInv, UnlockedNodeIsWhole
<1>20. ASSUME NEW v \in End
       PROVE  EndsAreCounted(v)'
    <2> DEFINE k == Cardinality(Rest(w, worker, v))
    <2>1. Balance(w, v, k) /\ NextBalance(w, v, k)
        BY <1>14, <1>15, HasBalance, HasNextBalance DEF Types
    <2>2. Count(VariableValues(s2), v) = Count(VariableValues(s), v) /\ Count(s2.pair, v) = 0
        BY <1>13, CountNothing DEF VariableValues
    <2>3. Need(v)' = Need(v) - OneIf(l, v) - OneIf(r, v) /\ Need(v) \in Nat
        <3>1. CASE v \in {l, r}
            <4>1. v \notin Wire /\ principal_wire'[v].oppsite # NULL /\ principal_wire'[v] # Freed
                BY <1>4, <1>8, <3>1, ValuesAre DEF Freed, NULL
            <4>2. Need(v)' = 1 /\ Need(v) = 2
                BY <1>5, <3>1, <4>1 DEF Need
            <4> QED
                BY <1>5, <3>1, <4>2 DEF OneIf
        <3>2. CASE v \notin {l, r}
            <4>1. v \in PrincipalWire => principal_wire'[v] = principal_wire[v]
                BY <1>8, <3>2
            <4>2. Need(v)' = Need(v) /\ Need(v) \in Nat
                BY <1>1, <4>1 DEF Need, Value, End
            <4> QED
                BY <3>2, <4>2 DEF OneIf
        <3> QED
            BY <3>1, <3>2
    <2>4. /\ Count(s.pair, v) = OneIf(l, v) + OneIf(r, v)
          /\ OneIf(l, v) \in Nat /\ OneIf(r, v) \in Nat
        BY <1>2, <1>6, CountPair DEF OneIf
    <2>5. worker'[w] = s2 /\ worker[w] = s /\ s2.stack = s.stack /\ node' = node /\ wire' = wire
        BY <1>1, <1>6, <1>13, <1>14
    <2> HIDE DEF k
    <2> QED
        BY <2>1, <2>2, <2>3, <2>4, <2>5 DEF Balance, NextBalance
<1>21. Reconnects(w)'
    <2>1. CASE s.node = NULL
        BY <1>13, <1>14, <2>1 DEF Reconnects
    <2>2. CASE s.node # NULL
        <3>1. s.port \in Nat /\ \A i \in Ctor[node[s.node].ctor].principal : i = s.port
            BY <1>7, <1>9, <2>2 DEF OnePrincipalPort, WorkerState
        <3>2. \A i \in Ctor[node[s.node].ctor].principal : i >= s.port
            BY <3>1
        <3>3. s2.pc = "input" /\ s2.node = s.node /\ s2.port = s.port
            BY <1>13, <2>2
        <3> QED
            BY <1>1, <1>6, <1>7, <1>14, <2>2, <3>2, <3>3 DEF Reconnects
    <2> QED
        BY <2>1, <2>2
<1>22. \A u \in Thread : Reconnects(u)'
    BY <1>1, <1>14, <1>21, OthersReconnect
<1>23. ClaimsAreApart /\ ClaimsHaveMet /\ AllStand /\ task_pool \subseteq Task
    BY DEF IInv, Types
<1>24. Held(s2) = (IF t = NoTask THEN {} ELSE {l, r}) /\ TasksOf(s2) = {t} \ {NoTask}
    BY <1>11, <1>13 DEF Held, TasksOf, Both
<1>25. \A u \in Thread : Held(worker[u]) \subseteq PrincipalWire \ {l, r}
    BY <1>4, <1>5, <1>23, WorkerIs, HeldAre DEF ClaimsHaveMet
<1>26. \A t2 \in LiveTasks : t2 \in Task /\ Stands(t2) /\ Both(t2) \subseteq PrincipalWire \ {l, r}
    <2> TAKE t2 \in LiveTasks
    <2>1. t2 \in Task
        BY <1>23, LiveTasksAre, WorkerIs, TasksAreHeld
    <2>2. Stands(t2) /\ Both(t2) \subseteq PrincipalWire
        BY <1>23, <2>1, TasksAre DEF AllStand, Both
    <2>3. \A p \in Both(t2) : principal_wire[p].oppsite # NULL
        BY <2>1, <2>2, TasksAre, ValuesAre DEF Stands, Both, NULL
    <2> QED
        BY <1>5, <2>1, <2>2, <2>3
<1>27. ClaimsAreApart'
    <2>1. \A u \in Thread \ {w} : Held(worker'[u]) = Held(worker[u])
        BY <1>14
    <2>2. Held(worker'[w]) \subseteq {l, r}
        BY <1>14, <1>24
    <2>3. \A t2 \in task_pool : t2 \in LiveTasks
        BY <1>23, TasksAre, LiveTasksAre
    <2>4. \A t2 \in task_pool : Both(t2) \intersect {l, r} = {}
        BY <1>26, <2>3
    <2> QED
        BY <1>1, <1>23, <1>25, <2>1, <2>2, <2>4 DEF ClaimsAreApart
<1>28. ClaimsHaveMet'
    <2> SUFFICES ASSUME NEW u \in Thread, NEW p \in Held(worker'[u])
                 PROVE  principal_wire'[p].oppsite # NULL
        BY DEF ClaimsHaveMet
    <2>1. CASE u = w
        BY <1>4, <1>8, <1>14, <1>24, <2>1, ValuesAre DEF NULL
    <2>2. CASE u # w
        <3>1. p \in Held(worker[u]) /\ p \in PrincipalWire \ {l, r}
            BY <1>14, <1>25, <2>2
        <3> QED
            BY <1>8, <1>23, <3>1 DEF ClaimsHaveMet
    <2> QED
        BY <2>1, <2>2
<1>29. \A p \in PrincipalWire : CtorOf(p)' = CtorOf(p)
    BY <1>1, <1>8 DEF CtorOf
<1>30. AllStand'
    <2> SUFFICES ASSUME NEW t2 \in LiveTasks'
                 PROVE  Stands(t2)'
        BY DEF AllStand
    <2>1. CASE t2 \in LiveTasks
        <3>1. /\ Stands(t2) /\ t2.left \in PrincipalWire \ {l, r}
              /\ t2.right \in PrincipalWire \ {l, r}
            BY <1>26, <2>1 DEF Both
        <3> QED
            BY <1>8, <1>29, <3>1 DEF Stands
    <2>2. CASE t2 \notin LiveTasks
        <3>1. t2 = t /\ t # NoTask
            BY <1>1, <1>14, <1>24, <2>2, LiveTasksAre, LiveTasksAreNext
        <3> QED
            BY <1>4, <1>5, <1>8, <1>11, <1>29, <3>1 DEF Stands
    <2> QED
        BY <2>1, <2>2
<1> QED
    BY <1>15, <1>16, <1>17, <1>18, <1>19, <1>20, <1>22, <1>27, <1>28, <1>30 DEF IInv

-----------------------------------------------------------------------------
(* worker_disconnect_node.                                                 *)

\* p is in the one principal port of n, and no other principal wire is in a port.
Sole(n, p) ==
    \E k \in Port(node[n].ctor) :
        /\ k \in Ctor[node[n].ctor].principal
        /\ \A i \in Port(node[n].ctor) :
            /\ i = k => node[n].values[i] = p
            /\ i # k => node[n].values[i] \in Value \ PrincipalWire

\* A node that may be locked is whole, and p is its one principal wire.
LEMMA NodeToDisconnect ==
    ASSUME OnePrincipalPort, IInv, NEW p \in PrincipalWire, principal_wire[p].oppsite # NULL,
           NEW n, n = principal_wire[p].node, MayLock(n)
    PROVE  /\ n \in Node /\ node[n].ctor \in DOMAIN Ctor
           /\ \A i \in Port(node[n].ctor) : node[n].values[i] \in Value
           /\ \A i \in Index \ Port(node[n].ctor) : node[n].values[i] = NULL
           /\ Sole(n, p)
<1> DEFINE c == node[n].ctor
<1>1. principal_wire[p] # Freed /\ Types
    BY DEF Freed, IInv
<1>2. PICK k : k = principal_wire[p].index
    OBVIOUS
<1>3. n \in Node /\ k \in Index /\ node[n].values[k] = p
    BY <1>1, <1>2 DEF IInv, HasItsPort
<1>4. PortsFit(n)
    BY <1>3 DEF IInv
<1>5. p # NULL
    BY ValuesAre DEF NULL, Value, End
<1>6. c \in DOMAIN Ctor /\ k \in Port(c) /\ k \in Ctor[c].principal
    BY <1>3, <1>4, <1>5 DEF PortsFit
<1>7. Port(c) \subseteq Index
    BY <1>6, PortsOf
<1>8. \A i \in Port(c) : node[n].values[i] # NULL
    BY <1>3, <1>6, CtorAssumption DEF IInv, UnlockedNodeIsWhole, MayLock
<1>9. \A i \in Index : node[n].values[i] \in Value \union {NULL}
    BY <1>1, <1>3 DEF Types, NodeState
<1>10. \A i \in Port(c) : node[n].values[i] \in Value
    BY <1>7, <1>8, <1>9
<1>11. \A i \in Index \ Port(c) : node[n].values[i] = NULL
    BY <1>4 DEF PortsFit
<1>12. ASSUME NEW i \in Port(c), i # k
       PROVE  node[n].values[i] \in Value \ PrincipalWire
    <2>1. i \notin Ctor[c].principal
        BY <1>6, <1>12, SMTT(30) DEF OnePrincipalPort
    <2>2. node[n].values[i] \notin PrincipalWire
        BY <1>4, <1>7, <1>8, <2>1 DEF PortsFit
    <2> QED
        BY <1>5, <1>10, <2>2
<1>13. \A i \in Port(c) : (i = k => node[n].values[i] = p) /\ (i # k => node[n].values[i] \in Value \ PrincipalWire)
    BY <1>3, <1>12
<1>14. Sole(n, p)
    BY <1>6, <1>13 DEF Sole
<1> QED
    BY <1>3, <1>6, <1>10, <1>11, <1>14

\* What the step of worker w does that disconnects node n, the node of p.
Disconnected(w, p, self, n, exposed, s2) ==
    /\ n = principal_wire[p].node /\ exposed = Exposed(n)
    /\ n \in Node /\ node[n].ctor \in DOMAIN Ctor
    /\ \A i \in Port(node[n].ctor) : node[n].values[i] \in Value
    /\ \A i \in Index \ Port(node[n].ctor) : node[n].values[i] = NULL
    /\ Sole(n, p)
    /\ MayLock(n) /\ UNCHANGED <<mutex, wire, task_pool, phase, interactions>>
    /\ node' = [node EXCEPT ![n] = CleanNode] /\ node' \in [Node -> NodeState]
    /\ node'[n] = CleanNode /\ \A m \in Node \ {n} : node'[m] = node[m]
    /\ principal_wire' \in [PrincipalWire -> [node : Node \union {NULL}, index : Nat,
                                              oppsite : PrincipalWire \union {NULL}]]
    /\ principal_wire'[p] = Freed
    /\ \A q \in PrincipalWire \ {p} : principal_wire'[q] = principal_wire[q]
    /\ \A q \in PrincipalWire \ {p} :
         principal_wire[q] # Freed => principal_wire[q].node \in Node \ {n}
    /\ exposed \in Seq(Value)
    /\ \A v \in Wire :
         Count(exposed, v) = Cardinality({i \in Port(node[n].ctor) : node[n].values[i] = v})
    /\ \A v \in PrincipalWire : Count(exposed, v) = 0
    /\ Become(w, s2) /\ s2 \in WorkerState
    /\ s2.pc = self.pc /\ s2.task = self.task /\ s2.stack = self.stack \o exposed
    /\ s2.code = self.code /\ s2.variables = self.variables /\ s2.node = self.node
    /\ s2.port = self.port /\ s2.pair = self.pair /\ s2.found = self.found

LEMMA DisconnectIs ==
    ASSUME OnePrincipalPort, IInv, NEW w \in Thread, NEW p \in PrincipalWire,
           principal_wire[p].oppsite # NULL, NEW self \in WorkerState, Disconnect(w, p, self)
    PROVE  \E n, exposed, s2 : Disconnected(w, p, self, n, exposed, s2)
<1>1. PICK n : n = principal_wire[p].node
    OBVIOUS
<1>2. PICK exposed : exposed = Exposed(n)
    OBVIOUS
<1>3. PICK s2 : s2 = [self EXCEPT !.stack = @ \o exposed]
    OBVIOUS
<1> HIDE <1>1, <1>2, <1>3
<1> DEFINE c == node[n].ctor
           own == {node[n].values[i] : i \in Port(c)} \intersect PrincipalWire
<1>4. /\ MayLock(n)
      /\ principal_wire' = [q \in PrincipalWire |-> IF q \in own THEN Freed ELSE principal_wire[q]]
      /\ node' = [node EXCEPT ![n] = CleanNode]
      /\ Become(w, s2)
      /\ UNCHANGED <<mutex, wire, task_pool, phase, interactions>>
    BY <1>1, <1>2, <1>3, Zenon DEF Disconnect
<1>5. /\ n \in Node /\ c \in DOMAIN Ctor
      /\ \A i \in Port(c) : node[n].values[i] \in Value
      /\ \A i \in Index \ Port(c) : node[n].values[i] = NULL
      /\ Sole(n, p)
    <2>1. MayLock(n)
        BY <1>4
    <2> HIDE <1>4
    <2> QED
        BY <1>1, <2>1, NodeToDisconnect
<1>6. PICK k \in Port(c) : \A i \in Port(c) :
        /\ i = k => node[n].values[i] = p
        /\ i # k => node[n].values[i] \in Value \ PrincipalWire
    BY <1>5 DEF Sole
<1>7. Types
    BY DEF IInv
<1>8. own = {p}
    BY <1>6, ValuesAre
<1>9. /\ principal_wire'[p] = Freed
      /\ \A q \in PrincipalWire \ {p} : principal_wire'[q] = principal_wire[q]
      /\ principal_wire' \in [PrincipalWire -> [node : Node \union {NULL}, index : Nat,
                                                oppsite : PrincipalWire \union {NULL}]]
    <2>1. Freed \in [node : Node \union {NULL}, index : Nat, oppsite : PrincipalWire \union {NULL}]
        BY DEF Freed
    <2>2. principal_wire' = [q \in PrincipalWire |-> IF q = p THEN Freed ELSE principal_wire[q]]
        BY <1>4, <1>8
    <2> QED
        BY <1>7, <2>1, <2>2 DEF Types
<1>10. /\ node' \in [Node -> NodeState]
       /\ node'[n] = CleanNode
       /\ \A m \in Node \ {n} : node'[m] = node[m]
    <2>1. CleanNode \in NodeState
        BY DEF CleanNode, NodeState
    <2> QED
        BY <1>4, <1>5, <1>7, <2>1 DEF Types
<1>11. /\ exposed \in Seq(Value)
       /\ \A v \in Wire : Count(exposed, v) = Cardinality({i \in Port(c) : node[n].values[i] = v})
       /\ \A v \in PrincipalWire : Count(exposed, v) = 0
    BY <1>2, <1>5, ExposedIs
<1>12. self.stack \in Seq(Value)
    BY DEF WorkerState
<1>13. /\ s2 \in WorkerState
       /\ s2.pc = self.pc /\ s2.task = self.task /\ s2.stack = self.stack \o exposed
       /\ s2.code = self.code /\ s2.variables = self.variables /\ s2.node = self.node
       /\ s2.port = self.port /\ s2.pair = self.pair /\ s2.found = self.found
    <2>1. self.stack \o exposed \in Seq(Value)
        BY <1>11, <1>12, ConcatProperties
    <2> QED
        BY <1>3, <2>1 DEF WorkerState
<1>14. ASSUME NEW q \in PrincipalWire \ {p}, principal_wire[q] # Freed
       PROVE  principal_wire[q].node \in Node \ {n}
    <2>1. /\ principal_wire[q].node \in Node /\ principal_wire[q].index \in Index
          /\ node[principal_wire[q].node].values[principal_wire[q].index] = q
        BY <1>14 DEF IInv, HasItsPort
    <2>2. \A i \in Index : node[n].values[i] # q
        <3> TAKE i \in Index
        <3>1. i \notin Port(c) => node[n].values[i] = NULL
            BY <1>5
        <3> QED
            BY <1>6, <3>1, ValuesAre DEF NULL
    <2> QED
        BY <2>1, <2>2
<1>15. Disconnected(w, p, self, n, exposed, s2)
    BY <1>1, <1>2, <1>4, <1>5, <1>9, <1>10, <1>11, <1>13, <1>14 DEF Disconnected
<1> QED
    BY <1>15

LEMMA DisconnectKeeps ==
    ASSUME OnePrincipalPort, IInv, NEW w \in Thread, NEW p \in PrincipalWire,
           principal_wire[p].oppsite # NULL, p \in Held(worker[w]),
           NEW self \in WorkerState, Disconnect(w, p, self),
           self.node = NULL, Locals(self),
           Held(self) \subseteq Held(worker[w]) \ {p}, TasksOf(self) = {},
           \A v \in End : HandCount(self, v) = HandCount(worker[w], v)
    PROVE  IInv'
<1>1. PICK n, exposed, s2 : Disconnected(w, p, self, n, exposed, s2)
    BY DisconnectIs
<1> DEFINE c == node[n].ctor
<1>2. /\ n = principal_wire[p].node /\ n \in Node /\ c \in DOMAIN Ctor
      /\ \A i \in Port(c) : node[n].values[i] \in Value
      /\ \A i \in Index \ Port(c) : node[n].values[i] = NULL
      /\ Sole(n, p)
      /\ MayLock(n) /\ UNCHANGED <<mutex, wire, task_pool, phase, interactions>>
      /\ node' = [node EXCEPT ![n] = CleanNode] /\ node' \in [Node -> NodeState]
      /\ node'[n] = CleanNode /\ \A m \in Node \ {n} : node'[m] = node[m]
    BY <1>1 DEF Disconnected
<1>3. /\ principal_wire' \in [PrincipalWire -> [node : Node \union {NULL}, index : Nat,
                                                oppsite : PrincipalWire \union {NULL}]]
      /\ principal_wire'[p] = Freed
      /\ \A q \in PrincipalWire \ {p} : principal_wire'[q] = principal_wire[q]
      /\ \A q \in PrincipalWire \ {p} :
            principal_wire[q] # Freed => principal_wire[q].node \in Node \ {n}
    BY <1>1 DEF Disconnected
<1>4. PICK k \in Port(c) : \A i \in Port(c) :
        /\ i = k => node[n].values[i] = p
        /\ i # k => node[n].values[i] \in Value \ PrincipalWire
    BY <1>2 DEF Sole
<1>5. Types
    BY DEF IInv
<1>6. /\ exposed \in Seq(Value)
      /\ \A v \in Wire : Count(exposed, v) = Cardinality({i \in Port(c) : node[n].values[i] = v})
      /\ \A v \in PrincipalWire : Count(exposed, v) = 0
    BY <1>1 DEF Disconnected
<1>7. self.stack \in Seq(Value)
    BY DEF WorkerState
<1>8. /\ Become(w, s2) /\ s2 \in WorkerState
      /\ s2.pc = self.pc /\ s2.task = self.task /\ s2.stack = self.stack \o exposed
      /\ s2.code = self.code /\ s2.variables = self.variables /\ s2.node = self.node
      /\ s2.port = self.port /\ s2.pair = self.pair /\ s2.found = self.found
    BY <1>1 DEF Disconnected
<1>9. /\ worker'[w] = s2
      /\ \A u \in Thread \ {w} : worker'[u] = worker[u]
      /\ worker' \in [Thread -> WorkerState]
    BY <1>2, <1>8, Becomes
<1>10. Types'
    BY <1>2, <1>3, <1>5, <1>9 DEF Types
<1>11. \A u \in Thread : Locals(worker[u])'
    <2>1. Locals(s2)
        BY <1>8 DEF Locals
    <2> QED
        BY <1>9, <2>1 DEF IInv
<1>12. \A m \in Node, i \in Index : node[m].values[i] = p => m = n
    BY <1>2, ValuesAre DEF IInv, PortsFit, NULL
<1>13. ASSUME NEW m \in Node
       PROVE  PortsFit(m)'
    <2>1. CASE m = n
        BY <1>2, <2>1 DEF PortsFit, CleanNode
    <2>2. CASE m # n
        <3>1. node'[m] = node[m] /\ PortsFit(m) /\ \A i \in Index : node[m].values[i] # p
            BY <1>2, <1>12, <2>2 DEF IInv
        <3> QED
            BY <1>3, <3>1 DEF PortsFit
    <2> QED
        BY <2>1, <2>2
<1>14. ASSUME NEW q \in PrincipalWire
       PROVE  HasItsPort(q)'
    <2>1. CASE principal_wire'[q] = Freed
        BY <2>1 DEF HasItsPort
    <2>2. CASE principal_wire'[q] # Freed
        <3>1. q # p /\ principal_wire'[q] = principal_wire[q] /\ HasItsPort(q)
            BY <1>3, <2>2 DEF IInv
        <3>2. principal_wire[q].node \in Node \ {n}
            BY <1>3, <2>2, <3>1
        <3>3. node'[principal_wire[q].node] = node[principal_wire[q].node]
            BY <1>2, <3>2
        <3> QED
            BY <2>2, <3>1, <3>3 DEF HasItsPort
    <2> QED
        BY <2>1, <2>2
<1>15. UnlockedNodeIsWhole'
    BY <1>2 DEF IInv, UnlockedNodeIsWhole, CleanNode
<1>16. ASSUME NEW v \in End
       PROVE  EndsAreCounted(v)'
    <2> DEFINE r == Cardinality(Rest(w, worker, v))
               lost == Cardinality({i \in Index : node[n].values[i] = v})
    <2>1. Balance(w, v, r) /\ NextBalance(w, v, r)
        BY <1>9, <1>10, HasBalance, HasNextBalance DEF Types
    <2>2. /\ Count(VariableValues(s2), v) = Count(VariableValues(self), v)
          /\ Count(s2.stack, v) = Count(self.stack, v) + Count(exposed, v)
        BY <1>6, <1>7, <1>8, CountConcat DEF VariableValues
    <2>3. PortCount(node, v) = PortCount(node', v) + lost
        <3>1. IsCleaned(node, node', n)
            BY <1>2, <1>5 DEF IsCleaned, Types
        <3>2. LosesPorts(node, node', n, v)
            BY <3>1, CleanCounts
        <3> QED
            BY <3>2 DEF LosesPorts
    <2>4. {i \in Index : node[n].values[i] = v} = {i \in Port(c) : node[n].values[i] = v}
        <3>1. Port(c) \subseteq Index
            BY <1>2, PortsOf
        <3> QED
            BY <1>2, <3>1, ValuesAre
    <2>5. Need(v)' = Need(v) - (lost - Count(exposed, v)) /\ lost \in Nat /\ Count(exposed, v) \in Nat
        <3>1. CASE v \in Wire
            <4>1. Count(exposed, v) = lost
                BY <1>6, <2>4, <3>1
            <4>2. lost \in Nat
                <5>1. IsFiniteSet({i \in Index : node[n].values[i] = v})
                    <6>1. IsFiniteSet(Index) /\ {i \in Index : node[n].values[i] = v} \in SUBSET Index
                        BY FS_Interval, CtorAssumption DEF Index
                    <6> QED
                        BY <6>1, FS_Subset
                <5> QED
                    BY <5>1, FS_CardinalityType
            <4>3. Need(v)' = Need(v) /\ Need(v) \in Nat
                BY <1>2, <3>1 DEF Need
            <4> HIDE DEF lost
            <4> QED
                BY <4>1, <4>2, <4>3
        <3>2. CASE v = p
            <4>1. {i \in Index : node[n].values[i] = v} = {k}
                BY <1>4, <2>4, <3>2, ValuesAre
            <4>2. lost = 1
                BY <4>1, FS_Singleton
            <4>3. Count(exposed, v) = 0
                BY <1>6, <3>2
            <4>4. v \notin Wire /\ principal_wire[v] # Freed
                BY <3>2, ValuesAre DEF Freed
            <4>5. Need(v) = 1 /\ Need(v)' = 0
                BY <1>3, <3>2, <4>4 DEF Need
            <4> HIDE DEF lost
            <4> QED
                BY <4>2, <4>3, <4>5
        <3>3. CASE v \in PrincipalWire \ {p}
            <4>1. {i \in Index : node[n].values[i] = v} = {}
                BY <1>4, <2>4, <3>3, ValuesAre
            <4>2. lost = 0
                BY <4>1, FS_EmptySet
            <4>3. Count(exposed, v) = 0
                BY <1>6, <3>3
            <4>4. Need(v)' = Need(v) /\ Need(v) \in Nat
                BY <1>2, <1>3, <3>3 DEF Need
            <4> HIDE DEF lost
            <4> QED
                BY <4>2, <4>3, <4>4
        <3> QED
            BY <3>1, <3>2, <3>3 DEF Value, End
    <2>6. HandCount(self, v) = HandCount(worker[w], v)
        OBVIOUS
    <2>7. /\ Count(self.stack, v) \in Nat /\ Count(self.pair, v) \in Nat
          /\ Count(VariableValues(self), v) \in Nat
        BY HandIs
    <2>8. /\ worker'[w] = s2 /\ s2.pair = self.pair /\ wire' = wire
          /\ PortCount(node', v) \in Nat /\ Need(v) \in Nat
        BY <1>2, <1>8, <1>9, PortsAre DEF Need
    <2> HIDE DEF r, lost
    <2>9. Need(v) = r + Count(self.stack, v) + Count(self.pair, v) + Count(VariableValues(self), v)
                      + PortCount(node, v) + Count(wire, v)
        BY <2>1, <2>6, <2>7 DEF Balance, HandCount
    <2>10. Need(v)' = r + Count(s2.stack, v) + Count(s2.pair, v) + Count(VariableValues(s2), v)
                        + PortCount(node', v) + Count(wire', v)
        BY <2>1, <2>2, <2>3, <2>5, <2>7, <2>8, <2>9 DEF Balance
    <2> QED
        BY <2>1, <2>8, <2>10 DEF NextBalance
<1>17. \A u \in Thread : Reconnects(u)'
    <2>1. Reconnects(w)'
        BY <1>8, <1>9 DEF Reconnects
    <2>2. \A u \in Thread : \A m \in Node : mutex[m] = u => m # n
        BY <1>2, HeapAssumption DEF MayLock
    <2> QED
        BY <1>2, <1>9, <2>1, <2>2, OthersReconnect
<1>18. ClaimsAreApart' /\ ClaimsHaveMet' /\ AllStand'
    <2>1. ASSUME NEW q \in PrincipalWire \ {p}, principal_wire[q].oppsite # NULL
          PROVE  principal_wire'[q].oppsite = principal_wire[q].oppsite /\ CtorOf(q)' = CtorOf(q)
        <3>1. principal_wire[q] # Freed
            BY <2>1 DEF Freed
        <3>2. principal_wire[q].node \in Node \ {n} /\ principal_wire'[q] = principal_wire[q]
            BY <1>3, <3>1
        <3> QED
            BY <1>2, <3>2 DEF CtorOf
    <2>2. Held(s2) = Held(self) /\ TasksOf(s2) = {}
        BY <1>8 DEF Held, TasksOf
    <2>3. {p} \subseteq Held(worker[w])
        OBVIOUS
    <2>4. task_pool' = task_pool
        BY <1>2
    <2> HIDE DEF c
    <2> QED
        BY <1>9, <2>1, <2>2, <2>3, <2>4, ClaimsStay
<1> QED
    BY <1>10, <1>11, <1>13, <1>14, <1>15, <1>16, <1>17, <1>18 DEF IInv

LEMMA DisconnectLeftKeeps ==
    ASSUME OnePrincipalPort, IInv, NEW w \in Thread, DisconnectLeft(w)
    PROVE  IInv'
<1> DEFINE s == worker[w]
           t == s.task
           self == [s EXCEPT !.pc = "disconnect right"]
<1>1. s.pc = "disconnect left" /\ Disconnect(w, t.left, self)
    BY DEF DisconnectLeft, At
<1>2. s \in WorkerState /\ Locals(s)
    BY WorkerIs
<1>3. s.found = NoTask /\ s.node = NULL /\ s.code = <<>> /\ s.pair = <<>> /\ t # NoTask /\ t \in Task
    BY <1>1, <1>2 DEF Locals, WorkerState
<1>4. t.left \in PrincipalWire /\ t.right \in PrincipalWire
    BY <1>3, TasksAre
<1>5. t \in LiveTasks
    BY <1>1, <1>3, LiveTasksAre DEF TasksOf
<1>6. t.left # t.right /\ principal_wire[t.left].oppsite # NULL
    BY <1>4, <1>5, ValuesAre DEF IInv, AllStand, Stands, NULL
<1>7. /\ self \in WorkerState
      /\ self.pc = "disconnect right" /\ self.task = t /\ self.stack = s.stack /\ self.code = s.code
      /\ self.variables = s.variables /\ self.node = s.node /\ self.pair = s.pair /\ self.found = s.found
    BY <1>2 DEF WorkerState, Label
<1> HIDE DEF self, t
<1>8. Locals(self)
    BY <1>1, <1>2, <1>3, <1>7 DEF Locals, t
<1>9. Held(s) = {t.left, t.right} /\ Held(self) = {t.right} /\ TasksOf(self) = {}
    BY <1>1, <1>3, <1>7 DEF Held, TasksOf, Both, t
<1>10. \A v \in End : HandCount(self, v) = HandCount(s, v)
    BY <1>7, SameHand
<1> QED
    BY <1>1, <1>3, <1>4, <1>6, <1>7, <1>8, <1>9, <1>10, DisconnectKeeps

LEMMA DisconnectRightKeeps ==
    ASSUME LinearBodies, OnePrincipalPort, IInv, NEW w \in Thread, DisconnectRight(w)
    PROVE  IInv'
<1> DEFINE s == worker[w]
           t == s.task
           body == Rules[t.rule].body
           self == [s EXCEPT !.pc = "execute", !.task = NoTask, !.code = body]
<1>1. s.pc = "disconnect right" /\ Disconnect(w, t.right, self)
    BY DEF DisconnectRight, At
<1>2. s \in WorkerState /\ Locals(s)
    BY WorkerIs
<1>3. s.found = NoTask /\ s.node = NULL /\ s.code = <<>> /\ s.pair = <<>> /\ t # NoTask /\ t \in Task
    BY <1>1, <1>2 DEF Locals, WorkerState
<1>4. t.right \in PrincipalWire /\ t.rule \in DOMAIN Rules
    BY <1>3, TasksAre
<1>5. body \in Seq(Word) /\ Awaited(body) = {} /\ Linear(body)
    BY <1>4, BodyIs
<1> HIDE DEF t, body
<1>6. Held(s) = {t.right}
    BY <1>1, <1>3 DEF Held, t
<1>7. principal_wire[t.right].oppsite # NULL
    BY <1>6 DEF IInv, ClaimsHaveMet
<1>8. /\ self \in WorkerState
      /\ self.pc = "execute" /\ self.task = NoTask /\ self.stack = s.stack /\ self.code = body
      /\ self.variables = s.variables /\ self.node = s.node /\ self.pair = s.pair /\ self.found = s.found
    BY <1>2, <1>5 DEF WorkerState, Label
<1> HIDE DEF self
<1>9. Locals(self)
    BY <1>3, <1>5, <1>8 DEF Locals
<1>10. Held(self) = {} /\ TasksOf(self) = {}
    BY <1>3, <1>8 DEF Held, TasksOf
<1>11. ASSUME NEW v \in End
       PROVE  HandCount(self, v) = HandCount(s, v)
    <2>1. Count(VariableValues(s), v) = 0
        BY <1>3, NoHand
    <2>2. {x \in DOMAIN VariableValues(self) : VariableValues(self)[x] = v} = {}
        BY <1>5, <1>8 DEF VariableValues
    <2>3. Count(VariableValues(self), v) = 0
        BY <2>2, FS_EmptySet DEF Count
    <2> QED
        BY <1>8, <2>1, <2>3 DEF HandCount
<1> QED
    BY <1>1, <1>3, <1>4, <1>6, <1>7, <1>8, <1>9, <1>10, <1>11, DisconnectKeeps

-----------------------------------------------------------------------------
(* Every step.                                                             *)

LEMMA ConnectFailsKeeps ==
    ASSUME IInv, NEW w \in Thread, ConnectFails(w)
    PROVE  IInv'
<1> PICK s : s = worker[w]
    OBVIOUS
<1> DEFINE s2 == [s EXCEPT !.pc = "assertion failed"]
<1>1. /\ s \in WorkerState /\ Locals(s) /\ Reconnects(w) /\ Types /\ s.pc = "connect"
      /\ Become(w, s2) /\ UNCHANGED <<heap, task_pool, phase, interactions>>
    BY WorkerIs DEF IInv, ConnectFails, At
<1>2. /\ s2 \in WorkerState
      /\ s2.pc = "assertion failed" /\ s2.task = s.task /\ s2.stack = s.stack
      /\ s2.code = s.code /\ s2.variables = s.variables /\ s2.node = s.node
      /\ s2.port = s.port /\ s2.pair = s.pair /\ s2.found = s.found
    BY <1>1 DEF WorkerState, Label
<1> HIDE DEF s2
<1>3. Locals(s2)
    BY <1>1, <1>2 DEF Locals
<1>4. worker'[w] = s2
    BY <1>1, <1>2, Becomes
<1>5. Reconnects(w)'
    BY <1>1, <1>2, <1>4 DEF Reconnects, heap
<1>6. Held(s2) = Held(s) /\ TasksOf(s2) = TasksOf(s)
    BY <1>1, <1>2 DEF Held, TasksOf
<1>7. \A v \in End : HandCount(s2, v) = HandCount(s, v)
    BY <1>2 DEF HandCount, VariableValues
<1> QED
    BY <1>1, <1>2, <1>3, <1>5, <1>6, <1>7, OwnStep

LEMMA StepIInv ==
    ASSUME LinearBodies, OnePrincipalPort, IInv, [Next]_vars
    PROVE  IInv'
<1>1. CASE Run \/ RunEnd \/ UNCHANGED vars
    BY <1>1, RunKeeps
<1>2. CASE \E w \in Thread : WorkerStep(w)
    <2> PICK w \in Thread : WorkerStep(w)
        BY <1>2
    <2>1. CASE TakeTask(w)
        BY <2>1, TakeTaskKeeps
    <2>2. CASE DisconnectLeft(w)
        BY <2>2, DisconnectLeftKeeps
    <2>3. CASE DisconnectRight(w)
        BY <2>3, DisconnectRightKeeps
    <2>4. CASE EndRule(w)
        BY <2>4, EndRuleKeeps
    <2>5. CASE AddTask(w)
        BY <2>5, AddTaskKeeps
    <2>6. CASE GetVariable(w)
        BY <2>6, GetVariableKeeps
    <2>7. CASE SetVariable(w)
        BY <2>7, SetVariableKeeps
    <2>8. CASE Link(w)
        BY <2>8, LinkKeeps
    <2>9. CASE ConnectWord(w)
        BY <2>9, ConnectWordKeeps
    <2>10. CASE NewNode(w)
        BY <2>10, NewNodeKeeps
    <2>11. CASE ReconnectInput(w)
        BY <2>11, ReconnectInputKeeps
    <2>12. CASE InputsDone(w)
        BY <2>12, InputsDoneKeeps
    <2>13. CASE ReconnectOutput(w)
        BY <2>13, ReconnectOutputKeeps
    <2>14. CASE Unlock(w)
        BY <2>14, UnlockKeeps
    <2>15. CASE FuzeWire(w)
        BY <2>15, FuzeWireKeeps
    <2>16. CASE ConnectActivePair(w)
        BY <2>16, ConnectActivePairKeeps
    <2>17. CASE Literal(w)
        BY <2>17, LiteralKeeps
    <2>18. CASE ConnectFails(w)
        BY <2>18, ConnectFailsKeeps
    <2> QED
        BY <2>1, <2>2, <2>3, <2>4, <2>5, <2>6, <2>7, <2>8, <2>9, <2>10, <2>11, <2>12,
           <2>13, <2>14, <2>15, <2>16, <2>17, <2>18 DEF WorkerStep
<1> QED
    BY <1>1, <1>2 DEF Next

LEMMA IInvHolds ==
    ASSUME LinearBodies, OnePrincipalPort
    PROVE  Spec => []IInv
<1>1. Init => IInv
    BY InitIInv
<1>2. IInv /\ [Next]_vars => IInv'
    BY StepIInv
<1> QED
    BY <1>1, <1>2, PTL DEF Spec

-----------------------------------------------------------------------------
(* The properties.                                                         *)

LEMMA IInvTypes ==
    ASSUME IInv
    PROVE  TypeOK
<1>1. Types
    BY DEF IInv
<1>2. ASSUME NEW p \in PrincipalWire
      PROVE  \/ principal_wire[p] = Freed
             \/ principal_wire[p] \in [node : Node, index : Nat,
                                       oppsite : PrincipalWire \union {NULL}]
    BY <1>1 DEF IInv, Types, HasItsPort
<1>3. ASSUME NEW w \in Thread
      PROVE  /\ worker[w].pc \in Label
             /\ worker[w].stack \in Seq(Value)
             /\ worker[w].pair \in {<<>>} \union (Value \X Value)
             /\ worker[w].found \in Task \union {NoTask}
             /\ worker[w].task \in Task \union {NoTask}
    BY WorkerIs DEF WorkerState
<1>4. ASSUME NEW n \in Node
      PROVE  /\ node[n].ctor \in DOMAIN Ctor \union {"none"}
             /\ \A i \in Index : node[n].values[i] \in Value \union {NULL}
             /\ mutex[n] \in Thread \union {NULL}
    BY <1>1 DEF Types, NodeState
<1> QED
    BY <1>1, <1>2, <1>3, <1>4 DEF TypeOK, Types

LEMMA IInvWireEnds ==
    ASSUME IInv
    PROVE  WireEnds
<1>1. ASSUME NEW v \in End
      PROVE  IsFiniteSet(References(v)) /\ Cardinality(References(v)) = Need(v)
    BY DEF IInv, EndsAreCounted
<1>2. ASSUME NEW x \in Wire
      PROVE  Cardinality(References(x)) =
                IF wire[x] = FREE THEN 0 ELSE IF wire[x] = NULL THEN 2 ELSE 1
    BY <1>1 DEF Need, Value, End
<1>3. ASSUME NEW p \in PrincipalWire
      PROVE  LET own == principal_wire[p]
             IN  IF own = Freed THEN References(p) = {}
                 ELSE /\ node[own.node].values[own.index] = p
                      /\ Cardinality(References(p)) = IF own.oppsite = NULL THEN 2 ELSE 1
    <2>1. p \in End /\ p \notin Wire
        BY ValuesAre DEF Value, End
    <2>2. CASE principal_wire[p] = Freed
        <3>1. Need(p) = 0
            BY <2>1, <2>2 DEF Need
        <3>2. References(p) = {}
            BY <1>1, <2>1, <3>1, FS_EmptySet
        <3> QED
            BY <2>2, <3>2
    <2>3. CASE principal_wire[p] # Freed
        <3>1. Cardinality(References(p)) = IF principal_wire[p].oppsite = NULL THEN 2 ELSE 1
            BY <1>1, <2>1, <2>3 DEF Need
        <3>2. node[principal_wire[p].node].values[principal_wire[p].index] = p
            BY <2>3 DEF IInv, HasItsPort
        <3> QED
            BY <2>3, <3>1, <3>2
    <2> QED
        BY <2>2, <2>3
<1> QED
    BY <1>2, <1>3 DEF WireEnds

\* Two live principal wires of one node are one.
LEMMA OneWireOfNode ==
    ASSUME OnePrincipalPort, IInv, NEW p \in PrincipalWire, NEW q \in PrincipalWire,
           principal_wire[p] # Freed, principal_wire[q] # Freed,
           principal_wire[p].node = principal_wire[q].node
    PROVE  p = q
<1>1. PICK n : n = principal_wire[p].node
    OBVIOUS
<1>2. PICK i : i = principal_wire[p].index
    OBVIOUS
<1>3. PICK j : j = principal_wire[q].index
    OBVIOUS
<1>4. n \in Node /\ i \in Index /\ j \in Index /\ node[n].values[i] = p /\ node[n].values[j] = q
    BY <1>1, <1>2, <1>3 DEF IInv, HasItsPort
<1>5. PortsFit(n) /\ p # NULL /\ q # NULL
    BY <1>4, ValuesAre DEF IInv, NULL
<1>6. /\ node[n].ctor \in DOMAIN Ctor
      /\ i \in Ctor[node[n].ctor].principal /\ j \in Ctor[node[n].ctor].principal
    BY <1>4, <1>5 DEF PortsFit
<1>7. i = j
    BY <1>6 DEF OnePrincipalPort
<1> QED
    BY <1>4, <1>7

\* Tasks that share a principal wire are one.
LEMMA OneTaskOfWire ==
    ASSUME IInv, NEW t \in LiveTasks, NEW u \in LiveTasks, Both(t) \intersect Both(u) # {}
    PROVE  t = u
<1>1. ClaimsAreApart /\ \A w \in Thread : worker[w] \in WorkerState /\ Locals(worker[w])
    BY WorkerIs DEF IInv
<1>2. \A w \in Thread : \A a \in TasksOf(worker[w]) : Both(a) \subseteq Held(worker[w])
    BY <1>1, TasksAreHeld
<1>3. CASE t \in task_pool /\ u \in task_pool
    BY <1>1, <1>3 DEF ClaimsAreApart
<1>4. CASE \E w \in Thread : t \in TasksOf(worker[w]) /\ u \in task_pool
    BY <1>1, <1>2, <1>4 DEF ClaimsAreApart
<1>5. CASE \E w \in Thread : u \in TasksOf(worker[w]) /\ t \in task_pool
    BY <1>1, <1>2, <1>5 DEF ClaimsAreApart
<1>6. CASE \E w, v \in Thread : t \in TasksOf(worker[w]) /\ u \in TasksOf(worker[v])
    <2> PICK w \in Thread, v \in Thread : t \in TasksOf(worker[w]) /\ u \in TasksOf(worker[v])
        BY <1>6
    <2>1. CASE w # v
        BY <1>1, <1>2, <2>1 DEF ClaimsAreApart
    <2>2. CASE w = v
        BY <1>1, <2>2 DEF Locals, TasksOf
    <2> QED
        BY <2>1, <2>2
<1> QED
    BY <1>3, <1>4, <1>5, <1>6, LiveTasksAre

LEMMA IInvTasksStand ==
    ASSUME OnePrincipalPort, IInv
    PROVE  TasksStand
<1>1. ASSUME NEW t \in LiveTasks
      PROVE  /\ t.left \in PrincipalWire /\ t.right \in PrincipalWire
             /\ principal_wire[t.left] # Freed /\ principal_wire[t.right] # Freed
             /\ Stands(t)
    <2>1. t \in Task
        BY LiveTasksAre, WorkerIs, TasksAreHeld DEF IInv, Types
    <2>2. Stands(t) /\ t.left \in PrincipalWire /\ t.right \in PrincipalWire
        BY <2>1, TasksAre DEF IInv, AllStand
    <2>3. Freed.oppsite \notin PrincipalWire
        BY ValuesAre DEF Freed, NULL
    <2> QED
        BY <2>2, <2>3 DEF Stands
<1>2. ASSUME NEW t \in LiveTasks, NEW u \in LiveTasks, NodesOf(t) \intersect NodesOf(u) # {}
      PROVE  t = u
    <2>1. PICK p \in Both(t), q \in Both(u) : principal_wire[p].node = principal_wire[q].node
        BY <1>2 DEF NodesOf, Both
    <2>2. /\ p \in PrincipalWire /\ principal_wire[p] # Freed
          /\ q \in PrincipalWire /\ principal_wire[q] # Freed
        BY <1>1, <2>1 DEF Both
    <2>3. p = q
        BY <2>1, <2>2, OneWireOfNode
    <2> QED
        BY <2>1, <2>3, OneTaskOfWire
<1> QED
    BY <1>1, <1>2 DEF TasksStand, Stands

\* Every variable has its type.
THEOREM InetTypes ==
    ASSUME LinearBodies, OnePrincipalPort
    PROVE  Spec => []TypeOK
BY IInvHolds, IInvTypes, PTL

\* A wire has exactly as many ends as its state says, so fuze never works on a
\* freed wire, never frees one twice and neither loses nor doubles an end,
\* whatever the order in which workers arrive at the compare-and-swap.
THEOREM WiresHaveTheirEnds ==
    ASSUME LinearBodies, OnePrincipalPort
    PROVE  Spec => []WireEnds
BY IInvHolds, IInvWireEnds, PTL

\* worker_disconnect_node finds every port of the node filled, because
\* worker_reconnect_node holds the mutex from before it publishes the node.
THEOREM UnlockedNodesAreWhole ==
    ASSUME LinearBodies, OnePrincipalPort
    PROVE  Spec => []UnlockedNodeIsWhole
<1>1. IInv => UnlockedNodeIsWhole
    BY DEF IInv
<1> QED
    BY <1>1, IInvHolds, PTL

\* A task found by connect still stands when a worker takes it, and no two
\* tasks are about the same node: workers never interfere in one interaction.
THEOREM TasksStayStanding ==
    ASSUME LinearBodies, OnePrincipalPort
    PROVE  Spec => []TasksStand
BY IInvHolds, IInvTasksStand, PTL

-----------------------------------------------------------------------------
(* Kinds: what the discipline of NetKinds says of sequences of words.      *)

KindOf(v) == IF v \in Number THEN "number" ELSE "net"
StackKinds(s) == [i \in 1 .. Len(s) |-> KindOf(s[i])]

\* k values of the net.
Nets(k) == [i \in 1 .. k |-> "net"]

\* The code can go on with a stack of these kinds.
Runs(code, before) == \E kinds : Kinding(code, before, kinds)

LEMMA KindsAre ==
    /\ \A v : KindOf(v) \in Kind /\ (KindOf(v) = "net" <=> v \notin Number)
    /\ \A c, i : PortKind(c, i) \in Kind
    /\ \A v, c, i : KindOf(v) = PortKind(c, i) <=> (v \in Number <=> i \in NumberPort[c])
    /\ \A x : VariableKind(x) \in Kind
    /\ \A v, x : KindOf(v) = VariableKind(x) <=> (v \in Number <=> x \in NumberVariable)
    /\ \A v \in Number : KindOf(v) = "number"
    /\ "net" \in Kind /\ "number" \in Kind
BY DEF KindOf, PortKind, VariableKind, Kind

LEMMA OneIs ==
    ASSUME NEW S, NEW k \in S
    PROVE  <<k>> \in Seq(S) /\ Len(<<k>>) = 1 /\ <<k>>[1] = k
OBVIOUS

LEMMA JoinIs ==
    ASSUME NEW S, NEW a \in Seq(S), NEW b \in Seq(S), NEW n, NEW m, n = Len(a), m = Len(b)
    PROVE  /\ a \o b \in Seq(S) /\ Len(a \o b) = n + m /\ n \in Nat /\ m \in Nat
           /\ \A i \in 1 .. n : (a \o b)[i] = a[i]
           /\ \A i \in 1 .. m : (a \o b)[n + i] = b[i]
<1>1. Len(a) \in Nat /\ Len(b) \in Nat
    OBVIOUS
<1>2. /\ a \o b \in Seq(S) /\ Len(a \o b) = Len(a) + Len(b)
      /\ \A i \in 1 .. Len(a) + Len(b) : (a \o b)[i] = IF i <= Len(a) THEN a[i] ELSE b[i - Len(a)]
    BY ConcatProperties
<1>3. ASSUME NEW i \in 1 .. Len(b)
      PROVE  (a \o b)[Len(a) + i] = b[i]
    <2>1. Len(a) + i \in 1 .. Len(a) + Len(b) /\ ~(Len(a) + i <= Len(a)) /\ (Len(a) + i) - Len(a) = i
        BY <1>1
    <2> QED
        BY <1>2, <2>1
<1>4. \A i \in 1 .. Len(a) : (a \o b)[i] = a[i]
    BY <1>1, <1>2
<1> QED
    BY <1>1, <1>2, <1>3, <1>4

\* Two sequences that agree on their first n members and the m after those.
LEMMA SameJoin ==
    ASSUME NEW S, NEW a \in Seq(S), NEW b \in Seq(S), NEW n \in Nat, NEW m \in Nat,
           Len(a) = n + m, Len(b) = n + m,
           \A i \in 1 .. n : a[i] = b[i],
           \A i \in 1 .. m : a[n + i] = b[n + i]
    PROVE  a = b
<1>1. ASSUME NEW i \in 1 .. n + m
      PROVE  a[i] = b[i]
    <2>1. CASE i <= n
        BY <2>1
    <2>2. CASE ~(i <= n)
        <3>1. i - n \in 1 .. m /\ n + (i - n) = i
            BY <2>2
        <3>2. a[n + (i - n)] = b[n + (i - n)]
            BY <3>1
        <3> QED
            BY <3>1, <3>2
    <2> QED
        BY <2>1, <2>2
<1> QED
    BY <1>1, SeqEqual

LEMMA StackKindsAre ==
    ASSUME NEW s \in Seq(Value)
    PROVE  /\ StackKinds(s) \in Seq(Kind)
           /\ Len(StackKinds(s)) = Len(s) /\ Len(s) \in Nat
           /\ \A i \in 1 .. Len(s) : StackKinds(s)[i] = KindOf(s[i])
<1>1. Len(s) \in Nat
    OBVIOUS
<1>2. StackKinds(s) \in [1 .. Len(s) -> Kind]
    BY KindsAre DEF StackKinds
<1>3. StackKinds(s) \in Seq(Kind)
    BY <1>1, <1>2, SeqDef
<1> QED
    BY <1>1, <1>2, <1>3 DEF StackKinds

LEMMA NetsAre ==
    ASSUME NEW k \in Nat
    PROVE  /\ Nets(k) \in Seq(Kind) /\ Len(Nets(k)) = k
           /\ \A i \in 1 .. k : Nets(k)[i] = "net"
<1>1. Nets(k) \in [1 .. k -> Kind]
    BY KindsAre DEF Nets
<1>2. Nets(k) \in Seq(Kind)
    BY <1>1, SeqDef
<1> QED
    BY <1>1, <1>2 DEF Nets

LEMMA NetsAppend ==
    ASSUME NEW k \in Nat
    PROVE  Nets(k + 1) = <<"net">> \o Nets(k)
<1> PICK one : one = <<"net">>
    OBVIOUS
<1> PICK n : n = 1
    OBVIOUS
<1> DEFINE u == one \o Nets(k)
<1>1. one \in Seq(Kind) /\ n = Len(one) /\ \A i \in 1 .. n : one[i] = "net"
    <2>1. one \in Seq(Kind) /\ Len(one) = 1 /\ one[1] = "net"
        BY KindsAre, OneIs, Zenon
    <2>2. \A i \in 1 .. n : i = 1
        OBVIOUS
    <2> QED
        BY <2>1, <2>2, Zenon
<1>2. Nets(k) \in Seq(Kind) /\ k = Len(Nets(k)) /\ \A i \in 1 .. k : Nets(k)[i] = "net"
    BY NetsAre
<1>3. n \in Nat /\ k + 1 = n + k
    OBVIOUS
<1>4. /\ u \in Seq(Kind) /\ Len(u) = n + k
      /\ \A i \in 1 .. n : u[i] = one[i]
      /\ \A i \in 1 .. k : u[n + i] = Nets(k)[i]
    BY <1>1, <1>2, JoinIs
<1> HIDE DEF u
<1>5. /\ \A i \in 1 .. n + k : Nets(k + 1)[i] = "net"
      /\ Nets(k + 1) \in Seq(Kind) /\ Len(Nets(k + 1)) = n + k
    BY <1>3, NetsAre
<1>6. ASSUME NEW i \in 1 .. n
      PROVE  Nets(k + 1)[i] = u[i]
    <2>1. i \in 1 .. n + k
        BY <1>3
    <2> QED
        BY <1>1, <1>4, <1>5, <2>1
<1>7. ASSUME NEW i \in 1 .. k
      PROVE  Nets(k + 1)[n + i] = u[n + i]
    <2>1. n + i \in 1 .. n + k
        BY <1>3
    <2>2. u[n + i] = "net"
        BY <1>2, <1>4
    <2> QED
        BY <1>5, <2>1, <2>2
<1> HIDE <1>3
<1>8. n \in Nat
    BY <1>3
<1>9. Nets(k + 1) = u
    BY <1>4, <1>5, <1>6, <1>7, <1>8, SameJoin
<1> QED
    BY <1>9 DEF u

LEMMA KindsConcat ==
    ASSUME NEW s \in Seq(Value), NEW t \in Seq(Value)
    PROVE  StackKinds(s \o t) = StackKinds(s) \o StackKinds(t)
<1> DEFINE st == s \o t
           u == StackKinds(s) \o StackKinds(t)
           n == Len(s)
           m == Len(t)
<1>1. /\ st \in Seq(Value) /\ Len(st) = n + m /\ n \in Nat /\ m \in Nat
      /\ \A i \in 1 .. n : st[i] = s[i]
      /\ \A i \in 1 .. m : st[n + i] = t[i]
    BY JoinIs
<1>2. /\ StackKinds(s) \in Seq(Kind) /\ Len(StackKinds(s)) = n
      /\ \A i \in 1 .. n : StackKinds(s)[i] = KindOf(s[i])
    BY StackKindsAre
<1>3. /\ StackKinds(t) \in Seq(Kind) /\ Len(StackKinds(t)) = m
      /\ \A i \in 1 .. m : StackKinds(t)[i] = KindOf(t[i])
    BY StackKindsAre
<1> HIDE DEF n, m
<1>4. /\ u \in Seq(Kind) /\ Len(u) = n + m
      /\ \A i \in 1 .. n : u[i] = StackKinds(s)[i]
      /\ \A i \in 1 .. m : u[n + i] = StackKinds(t)[i]
    BY <1>2, <1>3, JoinIs
<1> HIDE DEF st, u
<1>5. /\ StackKinds(st) \in Seq(Kind) /\ Len(StackKinds(st)) = n + m
      /\ \A i \in 1 .. n + m : StackKinds(st)[i] = KindOf(st[i])
    BY <1>1, StackKindsAre
<1>6. ASSUME NEW i \in 1 .. n
      PROVE  StackKinds(st)[i] = u[i]
    BY <1>1, <1>2, <1>4, <1>5
<1>7. ASSUME NEW i \in 1 .. m
      PROVE  StackKinds(st)[n + i] = u[n + i]
    <2>1. n + i \in 1 .. n + m
        BY <1>1
    <2>2. StackKinds(st)[n + i] = KindOf(st[n + i])
        BY <1>5, <2>1
    <2> QED
        BY <1>1, <1>3, <1>4, <2>2
<1>8. StackKinds(st) = u
    BY <1>1, <1>4, <1>5, <1>6, <1>7, SameJoin
<1> QED
    BY <1>8 DEF st, u

LEMMA KindsAppend ==
    ASSUME NEW s \in Seq(Value), NEW v \in Value
    PROVE  StackKinds(Append(s, v)) = StackKinds(s) \o <<KindOf(v)>>
<1> DEFINE one == <<v>>
<1>1. one \in Seq(Value) /\ Len(one) = 1 /\ one[1] = v
    BY OneIs, Zenon
<1>2. Append(s, v) = s \o one
    BY AppendIsConcat
<1> HIDE DEF one
<1>3. StackKinds(Append(s, v)) = StackKinds(s) \o StackKinds(one)
    BY <1>1, <1>2, KindsConcat
<1>4. StackKinds(one) \in Seq(Kind) /\ Len(StackKinds(one)) = 1 /\ StackKinds(one)[1] = KindOf(v)
    BY <1>1, StackKindsAre
<1>5. <<KindOf(v)>> \in Seq(Kind) /\ Len(<<KindOf(v)>>) = 1 /\ <<KindOf(v)>>[1] = KindOf(v)
    BY KindsAre, OneIs, Zenon
<1>6. StackKinds(one) = <<KindOf(v)>>
    <2> PICK a : a = <<KindOf(v)>>
        OBVIOUS
    <2>1. a \in Seq(Kind) /\ Len(a) = 1 /\ a[1] = KindOf(v)
        BY <1>5
    <2>2. \A i \in 1 .. 1 : StackKinds(one)[i] = a[i]
        BY <1>4, <2>1
    <2>3. StackKinds(one) = a
        BY <1>4, <2>1, <2>2, SeqEqual
    <2> QED
        BY <2>3
<1> QED
    BY <1>3, <1>6

\* A stack whose topmost kind is known has a top of that kind.
LEMMA KindsPop ==
    ASSUME NEW s \in Seq(Value), NEW below \in Seq(Kind), NEW k \in Kind,
           StackKinds(s) = below \o <<k>>
    PROVE  /\ s # <<>> /\ Pop(s) \in Seq(Value) /\ Top(s) \in Value
           /\ StackKinds(Pop(s)) = below /\ KindOf(Top(s)) = k
<1> PICK n : n = Len(below)
    OBVIOUS
<1> PICK joined : joined = Append(below, k)
    OBVIOUS
<1>1. /\ Len(joined) = n + 1 /\ joined[n + 1] = k
      /\ \A i \in 1 .. n : joined[i] = below[i]
    BY AppendProperties
<1>2. /\ Len(StackKinds(s)) = Len(s) /\ Len(s) \in Nat
      /\ \A i \in 1 .. Len(s) : StackKinds(s)[i] = KindOf(s[i])
    BY StackKindsAre
<1>3. n \in Nat /\ n = Len(below)
    OBVIOUS
<1>4. StackKinds(s) = joined
    BY AppendIsConcat
<1>5. Len(s) = n + 1
    BY <1>1, <1>2, <1>4
<1>6. s # <<>>
    BY <1>3, <1>5
<1>7. /\ Pop(s) \in Seq(Value) /\ Len(Pop(s)) = n
      /\ \A i \in 1 .. n : Pop(s)[i] = s[i]
      /\ Top(s) \in Value
    <2>1. /\ Pop(s) \in Seq(Value) /\ Len(Pop(s)) = Len(s) - 1
          /\ \A i \in 1 .. Len(s) - 1 : Pop(s)[i] = s[i]
          /\ Top(s) \in Value
        BY <1>6, PopIs
    <2>2. Len(s) - 1 = n
        BY <1>3, <1>5
    <2> QED
        BY <2>1, <2>2
<1>8. KindOf(Top(s)) = k
    <2>1. n + 1 \in 1 .. Len(s)
        BY <1>2, <1>3, <1>5
    <2>2. StackKinds(s)[n + 1] = k
        BY <1>1, <1>4
    <2> QED
        BY <1>2, <1>5, <2>1, <2>2 DEF Top
<1>9. /\ StackKinds(Pop(s)) \in Seq(Kind) /\ Len(StackKinds(Pop(s))) = n
       /\ \A i \in 1 .. n : StackKinds(Pop(s))[i] = KindOf(Pop(s)[i])
    BY <1>7, StackKindsAre
<1>10. ASSUME NEW i \in 1 .. n
       PROVE  StackKinds(Pop(s))[i] = below[i]
    <2>1. i \in 1 .. Len(s)
        BY <1>3, <1>5
    <2>2. StackKinds(s)[i] = below[i] /\ StackKinds(s)[i] = KindOf(s[i])
        BY <1>1, <1>2, <1>4, <2>1
    <2> QED
        BY <1>7, <1>9, <2>2
<1>11. StackKinds(Pop(s)) = below
    BY <1>9, <1>3, <1>10, SeqEqual
<1> QED
    BY <1>6, <1>7, <1>8, <1>11

LEMMA InputsAre ==
    ASSUME NEW c \in DOMAIN Ctor
    PROVE  /\ Inputs(c) \in Seq(Kind) /\ Len(Inputs(c)) = Ctor[c].input_arity
           /\ \A i \in 1 .. Ctor[c].input_arity : Inputs(c)[i] = PortKind(c, i - 1)
           /\ Outputs(c) = Nets(Ctor[c].output_arity)
           /\ Ctor[c].input_arity \in Nat /\ Ctor[c].output_arity \in Nat
<1>1. Ctor[c].input_arity \in Nat /\ Ctor[c].output_arity \in Nat
    BY CtorAssumption
<1>2. Inputs(c) \in [1 .. Ctor[c].input_arity -> Kind]
    BY KindsAre DEF Inputs
<1>3. Inputs(c) \in Seq(Kind)
    BY <1>1, <1>2, SeqDef
<1>4. Outputs(c) = Nets(Ctor[c].output_arity)
    BY DEF Outputs, Nets
<1> QED
    BY <1>1, <1>2, <1>3, <1>4 DEF Inputs

LEMMA WordKinds ==
    ASSUME NEW word \in Word
    PROVE  /\ Takes(word) \in Seq(Kind) /\ Gives(word) \in Seq(Kind)
           /\ word.op = "get" => Takes(word) = <<>> /\ Gives(word) = <<VariableKind(word.arg)>>
           /\ word.op = "set" => Takes(word) = <<VariableKind(word.arg)>> /\ Gives(word) = <<>>
           /\ word.op = "literal" => Takes(word) = <<>> /\ Gives(word) = <<"number">>
           /\ word.op = "link" => Takes(word) = <<>> /\ Gives(word) = <<"net", "net">>
           /\ word.op = "connect" => Takes(word) = <<"net", "net">> /\ Gives(word) = <<>>
           /\ word.op = "node" => Takes(word) = Inputs(word.arg) /\ Gives(word) = Outputs(word.arg)
<1>1. word.op \in {"get", "set", "literal", "link", "connect", "node"}
    BY DEF Word
<1>2. /\ <<>> \in Seq(Kind) /\ <<"net", "net">> \in Seq(Kind) /\ <<"number">> \in Seq(Kind)
      /\ <<VariableKind(word.arg)>> \in Seq(Kind)
    BY KindsAre
<1>3. word.op = "node" => Inputs(word.arg) \in Seq(Kind) /\ Outputs(word.arg) \in Seq(Kind)
    BY WordIs, InputsAre, NetsAre
<1>4. /\ word.op = "get" => Takes(word) = <<>> /\ Gives(word) = <<VariableKind(word.arg)>>
      /\ word.op = "set" => Takes(word) = <<VariableKind(word.arg)>> /\ Gives(word) = <<>>
      /\ word.op = "literal" => Takes(word) = <<>> /\ Gives(word) = <<"number">>
      /\ word.op = "link" => Takes(word) = <<>> /\ Gives(word) = <<"net", "net">>
      /\ word.op = "connect" => Takes(word) = <<"net", "net">> /\ Gives(word) = <<>>
      /\ word.op = "node" => Takes(word) = Inputs(word.arg) /\ Gives(word) = Outputs(word.arg)
    BY DEF Takes, Gives
<1>5. Takes(word) \in Seq(Kind) /\ Gives(word) \in Seq(Kind)
    BY <1>1, <1>2, <1>3, <1>4, Zenon
<1> QED
    BY <1>4, <1>5

\* What is below the topmost members of a sequence.
LEMMA BelowIs ==
    ASSUME NEW word \in Word, NEW below \in Seq(Kind)
    PROVE  Below(word, below \o Takes(word)) = below
<1> DEFINE t == Takes(word)
           n == Len(below)
           m == Len(t)
           b == below \o t
<1>1. t \in Seq(Kind)
    BY WordKinds
<1> HIDE DEF t
<1>2. /\ b \in Seq(Kind) /\ Len(b) = n + m /\ n \in Nat /\ m \in Nat
      /\ \A i \in 1 .. n : b[i] = below[i]
    BY <1>1, JoinIs
<1> HIDE DEF n, m, b
<1>3. Len(b) - m = n
    BY <1>2
<1>4. \A i \in 1 .. n : b[i] \in Kind
    <2>1. \A i \in 1 .. n : i \in 1 .. Len(b)
        BY <1>2
    <2> QED
        BY <1>2, <2>1, ElementOfSeq
<1>5. /\ SubSeq(b, 1, n) \in Seq(Kind)
      /\ Len(SubSeq(b, 1, n)) = n
      /\ \A i \in 1 .. n : SubSeq(b, 1, n)[i] = b[i]
    BY <1>2, <1>4, SubSeqProperties
<1>6. SubSeq(b, 1, n) = below
    BY <1>2, <1>5, SeqEqual DEF n
<1> QED
    BY <1>3, <1>6 DEF Below, b, m, t

KindSeq == Seq(Kind)

LEMMA KindSeqs ==
    ASSUME NEW a \in KindSeq, NEW b \in KindSeq, NEW c \in KindSeq
    PROVE  a \o b \in KindSeq /\ (a \o b) \o c = a \o (b \o c)
<1>1. a \in Seq(Kind) /\ b \in Seq(Kind) /\ c \in Seq(Kind)
    BY DEF KindSeq
<1>2. a \o b \in Seq(Kind)
    BY <1>1, JoinIs
<1>3. (a \o b) \o c = a \o (b \o c)
    BY <1>1, ConcatAssociative
<1> QED
    BY <1>2, <1>3 DEF KindSeq

LEMMA WordKindSeqs ==
    ASSUME NEW word \in Word
    PROVE  Takes(word) \in KindSeq /\ Gives(word) \in KindSeq
BY WordKinds DEF KindSeq

\* A word changes the top of the stack.
Replaces(word, before, after) ==
    \E below \in KindSeq : before = below \o Takes(word) /\ after = below \o Gives(word)

LEMMA FollowsIs ==
    ASSUME NEW word \in Word, NEW before \in KindSeq, NEW after, Follows(word, before, after)
    PROVE  Replaces(word, before, after)
<1> DEFINE n == Len(before) - Len(Takes(word))
<1>1. Takes(word) \in Seq(Kind) /\ before \in Seq(Kind)
    BY WordKinds DEF KindSeq
<1>2. n \in Nat /\ n <= Len(before) /\ Len(before) \in Nat
    <2>1. Len(before) >= Len(Takes(word))
        BY DEF Follows
    <2> QED
        BY <1>1, <2>1
<1> HIDE DEF n
<1>3. \A i \in 1 .. n : before[i] \in Kind
    <2>1. \A i \in 1 .. n : i \in 1 .. Len(before)
        BY <1>2
    <2> QED
        BY <1>1, <2>1, ElementOfSeq
<1>4. SubSeq(before, 1, n) \in Seq(Kind)
    BY <1>2, <1>3, SubSeqProperties
<1>5. Below(word, before) \in KindSeq
    BY <1>4 DEF Below, n, KindSeq
<1> QED
    BY <1>5, Zenon DEF Follows, Replaces

LEMMA ThenFollows ==
    ASSUME NEW word \in Word, NEW before, NEW after, Replaces(word, before, after)
    PROVE  Follows(word, before, after)
<1>1. PICK below \in KindSeq : before = below \o Takes(word) /\ after = below \o Gives(word)
    BY DEF Replaces
<1>2. Takes(word) \in Seq(Kind) /\ below \in Seq(Kind)
    BY WordKinds DEF KindSeq
<1>3. Below(word, below \o Takes(word)) = below
    BY <1>2, BelowIs
<1>4. Len(below \o Takes(word)) >= Len(Takes(word))
    <2>1. /\ Len(below \o Takes(word)) = Len(below) + Len(Takes(word))
          /\ Len(below) \in Nat /\ Len(Takes(word)) \in Nat
        BY <1>2, JoinIs
    <2> QED
        BY <2>1
<1> QED
    BY <1>1, <1>3, <1>4 DEF Follows

\* What is deeper on the stack does not matter.
LEMMA ReplacesAbove ==
    ASSUME NEW word \in Word, NEW rest \in KindSeq, NEW a, NEW b, Replaces(word, a, b)
    PROVE  Replaces(word, rest \o a, rest \o b)
<1>1. PICK below \in KindSeq : a = below \o Takes(word) /\ b = below \o Gives(word)
    BY DEF Replaces
<1>2. Takes(word) \in KindSeq /\ Gives(word) \in KindSeq
    BY WordKindSeqs
<1>3. /\ rest \o below \in KindSeq
      /\ (rest \o below) \o Takes(word) = rest \o (below \o Takes(word))
      /\ (rest \o below) \o Gives(word) = rest \o (below \o Gives(word))
    <2>1. \A c \in KindSeq : /\ rest \o below \in KindSeq
                             /\ (rest \o below) \o c = rest \o (below \o c)
        BY KindSeqs
    <2> QED
        BY <1>2, <2>1, Zenon
<1>4. a = below \o Takes(word) /\ b = below \o Gives(word)
    BY <1>1
<1>5. rest \o a = rest \o (below \o Takes(word)) /\ rest \o b = rest \o (below \o Gives(word))
    BY <1>4, Zenon
<1>6. rest \o a = (rest \o below) \o Takes(word) /\ rest \o b = (rest \o below) \o Gives(word)
    BY <1>3, <1>5, Zenon
<1> QED
    BY <1>3, <1>6, Zenon DEF Replaces

LEMMA RunsAbove ==
    ASSUME NEW code \in Seq(Word), NEW rest \in KindSeq, NEW before \in KindSeq,
           Runs(code, before)
    PROVE  Runs(code, rest \o before)
<1>1. PICK kinds : Kinding(code, before, kinds)
    BY DEF Runs
<1> DEFINE above == [i \in 0 .. Len(code) |-> rest \o kinds[i]]
<1>2. /\ kinds \in [0 .. Len(code) -> KindSeq] /\ kinds[0] = before
      /\ \A i \in DOMAIN code : Follows(code[i], kinds[i - 1], kinds[i])
    BY <1>1 DEF Kinding, KindSeq
<1>3. Len(code) \in Nat /\ DOMAIN code = 1 .. Len(code) /\ \A i \in 1 .. Len(code) : code[i] \in Word
    OBVIOUS
<1>4. above \in [0 .. Len(code) -> KindSeq] /\ above[0] = rest \o before
    <2>1. \A i \in 0 .. Len(code) : rest \o kinds[i] \in KindSeq
        BY <1>2, KindSeqs
    <2>2. 0 \in 0 .. Len(code)
        BY <1>3
    <2> QED
        BY <1>2, <2>1, <2>2
<1>5. ASSUME NEW i \in DOMAIN code
      PROVE  Follows(code[i], above[i - 1], above[i])
    <2>1. i \in 0 .. Len(code) /\ i - 1 \in 0 .. Len(code) /\ code[i] \in Word
        BY <1>3
    <2>2. kinds[i - 1] \in KindSeq /\ above[i - 1] = rest \o kinds[i - 1] /\ above[i] = rest \o kinds[i]
        BY <1>2, <2>1
    <2>3. Follows(code[i], kinds[i - 1], kinds[i])
        BY <1>2
    <2> HIDE DEF above
    <2>4. Replaces(code[i], kinds[i - 1], kinds[i])
        BY <2>1, <2>2, <2>3, FollowsIs
    <2>5. Replaces(code[i], rest \o kinds[i - 1], rest \o kinds[i])
        BY <2>1, <2>4, ReplacesAbove
    <2>6. Replaces(code[i], above[i - 1], above[i])
        BY <2>2, <2>5
    <2> QED
        BY <2>1, <2>6, ThenFollows
<1> HIDE DEF above
<1>6. Kinding(code, rest \o before, above)
    BY <1>4, <1>5 DEF Kinding, KindSeq
<1> QED
    BY <1>6 DEF Runs

\* The next word finds what it takes, and the rest of the code goes on with what
\* it gives.
LEMMA RunsOn ==
    ASSUME NEW code \in Seq(Word), code # <<>>, NEW before \in KindSeq, Runs(code, before)
    PROVE  \E below \in KindSeq :
             /\ before = below \o Takes(Head(code))
             /\ Runs(Tail(code), below \o Gives(Head(code)))
<1>1. PICK kinds : Kinding(code, before, kinds)
    BY DEF Runs
<1>2. /\ kinds \in [0 .. Len(code) -> Seq(Kind)] /\ kinds[0] = before
      /\ \A i \in DOMAIN code : Follows(code[i], kinds[i - 1], kinds[i])
    BY <1>1 DEF Kinding
<1>3. /\ Len(code) \in Nat \ {0} /\ DOMAIN code = 1 .. Len(code) /\ \A i \in 1 .. Len(code) : code[i] \in Word
      /\ Head(code) = code[1]
    OBVIOUS
<1> PICK rest : rest = Tail(code)
    OBVIOUS
<1>4. /\ rest \in Seq(Word) /\ Len(rest) = Len(code) - 1 /\ DOMAIN rest = 1 .. Len(rest)
      /\ \A i \in 1 .. Len(rest) : rest[i] = code[i + 1]
    BY HeadTailProperties
<1>5. PICK below \in KindSeq : before = below \o Takes(code[1]) /\ kinds[1] = below \o Gives(code[1])
    <2>1. 1 \in DOMAIN code /\ code[1] \in Word /\ 1 - 1 = 0
        BY <1>3
    <2>2. Follows(code[1], before, kinds[1])
        BY <1>2, <2>1
    <2>3. Replaces(code[1], before, kinds[1])
        BY <2>1, <2>2, FollowsIs
    <2> QED
        BY <2>3 DEF Replaces
<1> DEFINE later == [i \in 0 .. Len(rest) |-> kinds[i + 1]]
<1>6. later \in [0 .. Len(rest) -> Seq(Kind)] /\ later[0] = kinds[1]
    <2>1. \A i \in 0 .. Len(rest) : i + 1 \in 0 .. Len(code)
        BY <1>3, <1>4
    <2>2. 0 \in 0 .. Len(rest) /\ 0 + 1 = 1
        BY <1>3, <1>4
    <2> QED
        BY <1>2, <2>1, <2>2
<1>7. ASSUME NEW i \in DOMAIN rest
      PROVE  Follows(rest[i], later[i - 1], later[i])
    <2>1. /\ i \in 0 .. Len(rest) /\ i - 1 \in 0 .. Len(rest) /\ (i - 1) + 1 = i /\ (i + 1) - 1 = i
          /\ i + 1 \in DOMAIN code
        BY <1>3, <1>4
    <2>2. later[i - 1] = kinds[i] /\ later[i] = kinds[i + 1] /\ rest[i] = code[i + 1]
        BY <1>4, <2>1
    <2>3. Follows(code[i + 1], kinds[i], kinds[i + 1])
        BY <1>2, <2>1
    <2> QED
        BY <2>2, <2>3
<1> HIDE DEF later
<1>8. Kinding(rest, kinds[1], later)
    BY <1>6, <1>7 DEF Kinding
<1> QED
    BY <1>3, <1>5, <1>8 DEF Runs

-----------------------------------------------------------------------------
(* The discipline in the states of a run.                                  *)

\* What a worker's code still needs of its stack.
Executes(s) == Runs(s.code, StackKinds(s.stack))
Feeds(s, c) ==
    \E rest \in KindSeq :
        /\ StackKinds(s.stack) = rest \o SubSeq(Inputs(c), 1, s.port)
        /\ Runs(s.code, rest \o Outputs(c))
Yields(s, c) == Runs(s.code, StackKinds(s.stack) \o Nets(Arity(c) - s.port))
Splits(s) ==
    \E rest \in KindSeq : StackKinds(s.stack) = rest \o OrdinaryKinds(Rules[s.task.rule].first)

StackIsKinded(s, c) ==
    /\ s.pc \in {"execute", "add task"} \/ (s.pc = "connect" /\ s.node = NULL) => Executes(s)
    /\ s.pc = "input" \/ (s.pc = "connect" /\ s.node # NULL) => Feeds(s, c)
    /\ s.pc = "output" => Yields(s, c)
    /\ s.pc = "disconnect right" => Splits(s)

\* A worker between two nodes knows which constructor comes next.
HasSecond(s) ==
    s.pc = "disconnect right" => Rules[s.task.rule].second = CtorOf(s.task.right)

VariablesAreKinded(s) ==
    \A x \in Variable : s.variables[x] # NULL => (s.variables[x] \in Number <=> x \in NumberVariable)

PairIsOfNet(s) == s.pair # <<>> => s.pair \in End \X End

\* Numbers are in no wire, and in the ports that are meant for them.
WiresAreKinded == \A x \in Wire : wire[x] \notin Number
PortsAreKinded ==
    \A n \in Node : \A i \in Index :
        node[n].values[i] # NULL => (node[n].values[i] \in Number <=> i \in NumberPort[node[n].ctor])

\* c is the constructor of the node that the worker fills, if it does.
SelfIsKinded(s, c) ==
    s.pc # "assertion failed" /\ PairIsOfNet(s) /\ VariablesAreKinded(s) /\ StackIsKinded(s, c)

WorkerIsKinded(w) ==
    SelfIsKinded(worker[w], node[worker[w].node].ctor) /\ HasSecond(worker[w])

KInv == WiresAreKinded /\ PortsAreKinded /\ \A w \in Thread : WorkerIsKinded(w)

\* A step of w keeps the discipline if it leaves alone the nodes that the others
\* are about.
LEMMA OthersAreKinded ==
    ASSUME IInv, KInv, NEW w \in Thread,
           \A u \in Thread \ {w} : worker'[u] = worker[u],
           \A u \in Thread \ {w} : worker[u].node # NULL =>
                node'[worker[u].node].ctor = node[worker[u].node].ctor,
           \A u \in Thread \ {w} : \A p \in Held(worker[u]) : CtorOf(p)' = CtorOf(p),
           WiresAreKinded', PortsAreKinded', WorkerIsKinded(w)'
    PROVE  KInv'
<1>1. ASSUME NEW u \in Thread \ {w}
      PROVE  WorkerIsKinded(u)'
    <2> DEFINE s == worker[u]
    <2>1. /\ worker'[u] = s
          /\ s.node # NULL => node'[s.node].ctor = node[s.node].ctor
          /\ \A p \in Held(s) : CtorOf(p)' = CtorOf(p)
          /\ WorkerIsKinded(u) /\ Locals(s)
        BY WorkerIs DEF KInv
    <2>2. SelfIsKinded(s, node[s.node].ctor) /\ HasSecond(s)
        BY <2>1 DEF WorkerIsKinded
    <2>3. s.pc \in {"input", "output"} => s.node # NULL
        BY <2>1 DEF Locals
    <2>4. s.pc = "disconnect right" => s.task.right \in Held(s)
        BY <2>1 DEF Locals, Held
    <2>5. HasSecond(worker[u])'
        <3>1. s.pc = "disconnect right" => CtorOf(s.task.right)' = CtorOf(s.task.right)
            BY <2>1, <2>4
        <3>2. s.pc = "disconnect right" => Rules[s.task.rule].second = CtorOf(s.task.right)'
            BY <2>2, <3>1 DEF HasSecond
        <3> QED
            BY <2>1, <3>2 DEF HasSecond, CtorOf
    <2>6. SelfIsKinded(s, node'[s.node].ctor)
        <3>1. CASE s.node = NULL
            BY <2>2, <2>3, <3>1 DEF SelfIsKinded, StackIsKinded
        <3>2. CASE s.node # NULL
            BY <2>1, <2>2, <3>2
        <3> QED
            BY <3>1, <3>2
    <2> QED
        BY <2>1, <2>5, <2>6 DEF WorkerIsKinded
<1> QED
    BY <1>1 DEF KInv

\* Constructors only change when a node is made, or disconnected.
LEMMA CtorsStay ==
    ASSUME IInv, NEW w \in Thread,
           \A n \in Node : node[n].ctor # "none" => node'[n].ctor = node[n].ctor,
           \A p \in PrincipalWire : principal_wire[p] # Freed =>
                principal_wire'[p].node = principal_wire[p].node
    PROVE  /\ \A u \in Thread \ {w} : worker[u].node # NULL =>
                node'[worker[u].node].ctor = node[worker[u].node].ctor
           /\ \A u \in Thread \ {w} : \A p \in Held(worker[u]) : CtorOf(p)' = CtorOf(p)
<1>1. ASSUME NEW u \in Thread \ {w}, worker[u].node # NULL
      PROVE  node'[worker[u].node].ctor = node[worker[u].node].ctor
    <2>1. worker[u].node \in Node
        BY <1>1, WorkerIs DEF WorkerState
    <2>2. node[worker[u].node].ctor \in DOMAIN Ctor
        BY <1>1 DEF IInv, Reconnects
    <2> QED
        BY <2>1, <2>2, CtorAssumption
<1>2. ASSUME NEW u \in Thread \ {w}, NEW p \in Held(worker[u])
      PROVE  CtorOf(p)' = CtorOf(p)
    <2>1. p \in PrincipalWire /\ principal_wire[p].oppsite # NULL
        BY WorkerIs, HeldAre DEF IInv, ClaimsHaveMet
    <2>2. principal_wire[p] # Freed
        BY <2>1 DEF Freed
    <2>3. PICK n : n = principal_wire[p].node
        OBVIOUS
    <2>4. n \in Node /\ node[n].ctor \in DOMAIN Ctor
        <3>1. HasItsPort(p) /\ \A m \in Node : PortsFit(m)
            BY <2>1 DEF IInv
        <3>2. n \in Node /\ principal_wire[p].index \in Index /\ node[n].values[principal_wire[p].index] = p
            BY <2>2, <2>3, <3>1 DEF HasItsPort
        <3>3. p # NULL
            BY <2>1, ValuesAre DEF NULL
        <3> QED
            BY <3>1, <3>2, <3>3 DEF PortsFit
    <2>5. node'[n].ctor = node[n].ctor /\ principal_wire'[p].node = n
        BY <2>1, <2>2, <2>3, <2>4, CtorAssumption
    <2> QED
        BY <2>3, <2>5 DEF CtorOf
<1> QED
    BY <1>1, <1>2

\* A step of w that leaves nodes and wires alone.
LEMMA HeapStaysKinded ==
    ASSUME IInv, KInv, NEW w \in Thread, NEW s2 \in WorkerState, Become(w, s2), UNCHANGED heap,
           SelfIsKinded(s2, node[s2.node].ctor), HasSecond(s2)
    PROVE  KInv'
<1>1. worker'[w] = s2 /\ \A u \in Thread \ {w} : worker'[u] = worker[u]
    BY Becomes
<1>2. node' = node /\ wire' = wire /\ principal_wire' = principal_wire
    BY DEF heap
<1>3. WiresAreKinded' /\ PortsAreKinded'
    BY <1>2 DEF KInv, WiresAreKinded, PortsAreKinded
<1>4. WorkerIsKinded(w)'
    <2>1. HasSecond(s2)'
        BY <1>2 DEF HasSecond, CtorOf
    <2> QED
        BY <1>1, <1>2, <2>1 DEF WorkerIsKinded, HasSecond, CtorOf
<1>5. /\ \A u \in Thread \ {w} : worker[u].node # NULL =>
                node'[worker[u].node].ctor = node[worker[u].node].ctor
      /\ \A u \in Thread \ {w} : \A p \in Held(worker[u]) : CtorOf(p)' = CtorOf(p)
    BY <1>2 DEF CtorOf
<1> QED
    BY <1>1, <1>3, <1>4, <1>5, OthersAreKinded

\* A worker that executes words, or is to add a task before it goes on.
Executing(s) == s.pc \in {"execute", "add task"} /\ s.pair = <<>>

LEMMA ExecutingIsKinded ==
    ASSUME NEW s, NEW c, Executing(s), VariablesAreKinded(s), Executes(s)
    PROVE  SelfIsKinded(s, c) /\ HasSecond(s)
BY DEF Executing, SelfIsKinded, HasSecond, PairIsOfNet, StackIsKinded

LEMMA WorkerKinds ==
    ASSUME IInv, KInv, NEW w \in Thread
    PROVE  /\ SelfIsKinded(worker[w], node[worker[w].node].ctor) /\ HasSecond(worker[w])
           /\ VariablesAreKinded(worker[w]) /\ PairIsOfNet(worker[w])
           /\ worker[w].stack \in Seq(Value) /\ worker[w].code \in Seq(Word)
           /\ StackKinds(worker[w].stack) \in KindSeq
<1>1. worker[w] \in WorkerState /\ WorkerIsKinded(w)
    BY WorkerIs DEF KInv
<1>2. worker[w].stack \in Seq(Value) /\ worker[w].code \in Seq(Word)
    BY <1>1 DEF WorkerState
<1>3. StackKinds(worker[w].stack) \in KindSeq
    BY <1>2, StackKindsAre DEF KindSeq
<1> QED
    BY <1>1, <1>2, <1>3 DEF WorkerIsKinded, SelfIsKinded

\* What the next word of w finds and leaves.
LEMMA NextWord ==
    ASSUME IInv, KInv, NEW w \in Thread, NEW op, Fetch(w, op)
    PROVE  LET s == worker[w]
               word == Head(s.code)
           IN  \E below \in KindSeq :
                 /\ StackKinds(s.stack) = below \o Takes(word)
                 /\ Runs(Tail(s.code), below \o Gives(word))
<1> DEFINE s == worker[w]
<1>1. s.pc = "execute" /\ s.code \in Seq(Word) /\ s.code # <<>>
    BY FetchIs
<1>2. SelfIsKinded(s, node[s.node].ctor) /\ StackKinds(s.stack) \in KindSeq
    BY WorkerKinds
<1>3. Runs(s.code, StackKinds(s.stack))
    BY <1>1, <1>2 DEF SelfIsKinded, StackIsKinded, Executes
<1> QED
    BY <1>1, <1>2, <1>3, RunsOn

LEMMA NothingTaken ==
    ASSUME NEW a \in KindSeq
    PROVE  a \o <<>> = a /\ <<>> \o a = a
BY ConcatEmptySeq DEF KindSeq

LEMMA TakeTaskKeepsKinds ==
    ASSUME IInv, KInv, NEW w \in Thread, TakeTask(w)
    PROVE  KInv'
<1> DEFINE s == worker[w]
<1>1. PICK t \in task_pool : Become(w, [s EXCEPT !.pc = "disconnect left", !.task = t])
    BY DEF TakeTask
<1>2. UNCHANGED heap /\ s.pc = "idle"
    BY DEF TakeTask, At
<1>3. s \in WorkerState /\ Locals(s) /\ t \in Task /\ VariablesAreKinded(s)
    BY WorkerIs, WorkerKinds DEF IInv, Types
<1>4. s.pair = <<>>
    BY <1>2, <1>3 DEF Locals
<1> DEFINE s2 == [s EXCEPT !.pc = "disconnect left", !.task = t]
<1>5. /\ s2 \in WorkerState /\ s2.pc = "disconnect left" /\ s2.pair = <<>> /\ s2.variables = s.variables
    BY <1>3, <1>4 DEF WorkerState, Label
<1>6. Become(w, s2)
    BY <1>1
<1> HIDE DEF s2
<1>7. SelfIsKinded(s2, node[s2.node].ctor) /\ HasSecond(s2)
    BY <1>3, <1>5 DEF SelfIsKinded, HasSecond, PairIsOfNet, VariablesAreKinded, StackIsKinded
<1> QED
    BY <1>2, <1>5, <1>6, <1>7, HeapStaysKinded

LEMMA EndRuleKeepsKinds ==
    ASSUME IInv, KInv, NEW w \in Thread, EndRule(w)
    PROVE  KInv'
<1> DEFINE s2 == [Idle EXCEPT !.stack = worker[w].stack]
<1>1. UNCHANGED heap /\ Become(w, s2)
    BY DEF EndRule
<1>2. worker[w] \in WorkerState
    BY WorkerIs
<1>3. /\ s2 \in WorkerState /\ s2.pc = "idle" /\ s2.pair = <<>>
      /\ \A x \in Variable : s2.variables[x] = NULL
    <2>1. /\ Idle \in WorkerState /\ Idle.pc = "idle" /\ Idle.pair = <<>>
          /\ \A x \in Variable : Idle.variables[x] = NULL
        BY DEF WorkerState, Idle, Label
    <2> QED
        BY <1>2, <2>1 DEF WorkerState
<1> HIDE DEF s2
<1>4. SelfIsKinded(s2, node[s2.node].ctor) /\ HasSecond(s2)
    BY <1>3 DEF SelfIsKinded, HasSecond, PairIsOfNet, VariablesAreKinded, StackIsKinded
<1> QED
    BY <1>1, <1>3, <1>4, HeapStaysKinded

LEMMA AddTaskKeepsKinds ==
    ASSUME IInv, KInv, NEW w \in Thread, AddTask(w)
    PROVE  KInv'
<1> DEFINE s == worker[w]
           s2 == [s EXCEPT !.pc = "execute", !.found = NoTask]
<1>1. UNCHANGED heap /\ Become(w, s2) /\ s.pc = "add task"
    BY DEF AddTask, At
<1>2. s \in WorkerState /\ Locals(s) /\ SelfIsKinded(s, node[s.node].ctor)
    BY WorkerIs, WorkerKinds
<1>3. /\ s2 \in WorkerState /\ s2.pc = "execute" /\ s2.pair = <<>> /\ s2.variables = s.variables
      /\ s2.code = s.code /\ s2.stack = s.stack
    BY <1>1, <1>2 DEF WorkerState, Label, Locals
<1> HIDE DEF s2
<1>4. Executing(s2) /\ Executes(s2) /\ VariablesAreKinded(s2)
    BY <1>1, <1>2, <1>3 DEF SelfIsKinded, StackIsKinded, Executing, Executes, VariablesAreKinded
<1>5. SelfIsKinded(s2, node[s2.node].ctor) /\ HasSecond(s2)
    BY <1>3, <1>4, ExecutingIsKinded
<1> QED
    BY <1>1, <1>3, <1>5, HeapStaysKinded

\* A word that pushes one value.
LEMMA PushKeepsKinds ==
    ASSUME IInv, KInv, NEW w \in Thread, NEW op, Fetch(w, op), UNCHANGED heap,
           NEW u \in Value, Become(w, [Fetched(w) EXCEPT !.stack = Append(@, u)]),
           Takes(Head(worker[w].code)) = <<>>, Gives(Head(worker[w].code)) = <<KindOf(u)>>
    PROVE  KInv'
<1> DEFINE s == worker[w]
           rest == Tail(s.code)
           s2 == [Fetched(w) EXCEPT !.stack = Append(@, u)]
<1>1. s \in WorkerState /\ s.stack \in Seq(Value) /\ VariablesAreKinded(s)
    BY WorkerIs, WorkerKinds
<1>2. s.pc = "execute" /\ s.pair = <<>> /\ rest \in Seq(Word)
    BY FetchIs
<1>3. Append(s.stack, u) \in Seq(Value)
    BY <1>1
<1> HIDE DEF rest
<1>4. /\ s2 \in WorkerState /\ s2.pc = "execute" /\ s2.pair = <<>> /\ s2.variables = s.variables
      /\ s2.code = rest /\ s2.stack = Append(s.stack, u)
    BY <1>1, <1>2, <1>3 DEF Fetched, WorkerState, rest
<1>5. Become(w, s2)
    OBVIOUS
<1> HIDE DEF s2
<1>6. PICK below \in KindSeq : /\ StackKinds(s.stack) = below \o <<>>
                               /\ Runs(rest, below \o <<KindOf(u)>>)
    BY NextWord DEF rest
<1>7. StackKinds(s.stack) = below
    BY <1>6, NothingTaken
<1>8. StackKinds(s2.stack) = below \o <<KindOf(u)>>
    BY <1>1, <1>4, <1>7, KindsAppend
<1>9. Executing(s2) /\ Executes(s2) /\ VariablesAreKinded(s2)
    BY <1>1, <1>4, <1>6, <1>8 DEF Executing, Executes, VariablesAreKinded
<1>10. SelfIsKinded(s2, node[s2.node].ctor) /\ HasSecond(s2)
    BY <1>4, <1>9, ExecutingIsKinded
<1> QED
    BY <1>4, <1>5, <1>10, HeapStaysKinded

LEMMA LiteralKeepsKinds ==
    ASSUME IInv, KInv, NEW w \in Thread, Literal(w)
    PROVE  KInv'
<1> DEFINE word == Head(worker[w].code)
<1>1. /\ Fetch(w, "literal") /\ UNCHANGED heap
      /\ Become(w, [Fetched(w) EXCEPT !.stack = Append(@, word.arg)])
    BY DEF Literal, Argument
<1>2. word \in Word /\ word.op = "literal"
    BY <1>1, FetchIs
<1> HIDE DEF word
<1>3. word.arg \in Number /\ Takes(word) = <<>> /\ Gives(word) = <<"number">>
    BY <1>2, WordIs, WordKinds
<1>4. word.arg \in Value /\ KindOf(word.arg) = "number"
    BY <1>3, NumbersAre, KindsAre
<1> QED
    BY <1>1, <1>3, <1>4, PushKeepsKinds DEF word

LEMMA GetVariableKeepsKinds ==
    ASSUME IInv, KInv, NEW w \in Thread, GetVariable(w)
    PROVE  KInv'
<1> DEFINE s == worker[w]
           word == Head(s.code)
           u == s.variables[word.arg]
<1>1. /\ Fetch(w, "get") /\ UNCHANGED heap
      /\ Become(w, [Fetched(w) EXCEPT !.stack = Append(@, u)])
    BY DEF GetVariable, Argument
<1>2. word \in Word /\ word.op = "get" /\ s.code \in Seq(Word) /\ s.code # <<>> /\ Linear(s.code)
    BY <1>1, FetchIs
<1>3. s \in WorkerState /\ Locals(s) /\ VariablesAreKinded(s)
    BY WorkerIs, WorkerKinds
<1>4. word.arg \in Variable /\ word = [op |-> "get", arg |-> word.arg]
    BY <1>2, WordIs
<1>5. word.arg \in Awaited(s.code)
    BY <1>2, <1>4, AwaitedFirst
<1>6. u \in Value /\ u # NULL
    BY <1>3, <1>4, <1>5 DEF Locals, WorkerState
<1>7. u \in Number <=> word.arg \in NumberVariable
    BY <1>3, <1>4, <1>6 DEF VariablesAreKinded
<1>8. Takes(word) = <<>> /\ Gives(word) = <<VariableKind(word.arg)>>
    BY <1>2, WordKinds
<1> HIDE DEF u
<1>9. KindOf(u) = VariableKind(word.arg)
    BY <1>7, KindsAre
<1> QED
    BY <1>1, <1>6, <1>8, <1>9, PushKeepsKinds

LEMMA SetVariableKeepsKinds ==
    ASSUME IInv, KInv, NEW w \in Thread, SetVariable(w)
    PROVE  KInv'
<1> DEFINE s == worker[w]
           word == Head(s.code)
           x == word.arg
           u == Top(s.stack)
           rest == Tail(s.code)
           s2 == [Fetched(w) EXCEPT !.stack = Pop(@), !.variables[x] = u]
<1>1. Fetch(w, "set") /\ UNCHANGED heap /\ Become(w, s2)
    BY DEF SetVariable, Argument
<1>2. s.pc = "execute" /\ s.pair = <<>> /\ rest \in Seq(Word) /\ word \in Word /\ word.op = "set"
    BY <1>1, FetchIs
<1>3. s \in WorkerState /\ s.stack \in Seq(Value) /\ VariablesAreKinded(s)
    BY WorkerIs, WorkerKinds
<1>4. x \in Variable /\ Takes(word) = <<VariableKind(x)>> /\ Gives(word) = <<>>
    BY <1>2, WordIs, WordKinds
<1>5. PICK below \in KindSeq : /\ StackKinds(s.stack) = below \o <<VariableKind(x)>>
                               /\ Runs(rest, below \o <<>>)
    BY <1>1, <1>4, NextWord
<1> HIDE DEF u, rest, x
<1>6. /\ Pop(s.stack) \in Seq(Value) /\ u \in Value
      /\ StackKinds(Pop(s.stack)) = below /\ KindOf(u) = VariableKind(x)
    BY <1>3, <1>5, KindsPop, KindsAre DEF KindSeq, u
<1>7. /\ s2 \in WorkerState /\ s2.pc = "execute" /\ s2.pair = <<>>
      /\ s2.variables = [s.variables EXCEPT ![x] = u]
      /\ s2.code = rest /\ s2.stack = Pop(s.stack)
    BY <1>2, <1>3, <1>4, <1>6 DEF Fetched, WorkerState, rest
<1> HIDE DEF s2
<1>8. VariablesAreKinded(s2)
    <2>1. u \in Number <=> x \in NumberVariable
        BY <1>6, KindsAre
    <2>2. \A y \in Variable : s2.variables[y] = IF y = x THEN u ELSE s.variables[y]
        BY <1>3, <1>4, <1>7 DEF WorkerState
    <2> QED
        BY <1>3, <2>1, <2>2 DEF VariablesAreKinded
<1>9. Executing(s2) /\ Executes(s2)
    BY <1>5, <1>6, <1>7, NothingTaken DEF Executing, Executes
<1>10. SelfIsKinded(s2, node[s2.node].ctor) /\ HasSecond(s2)
    BY <1>7, <1>8, <1>9, ExecutingIsKinded
<1> QED
    BY <1>1, <1>7, <1>10, HeapStaysKinded

\* A step of w that changes ports or wires, but disconnects nothing.
LEMMA StepKeepsKinds ==
    ASSUME IInv, KInv, NEW w \in Thread, NEW s2 \in WorkerState, Become(w, s2),
           WiresAreKinded', PortsAreKinded',
           \A n \in Node : node[n].ctor # "none" => node'[n].ctor = node[n].ctor,
           \A p \in PrincipalWire : principal_wire[p] # Freed =>
                principal_wire'[p].node = principal_wire[p].node,
           SelfIsKinded(s2, node'[s2.node].ctor), s2.pc # "disconnect right"
    PROVE  KInv'
<1>1. worker'[w] = s2 /\ \A u \in Thread \ {w} : worker'[u] = worker[u]
    BY Becomes
<1>2. WorkerIsKinded(w)'
    BY <1>1 DEF WorkerIsKinded, HasSecond
<1>3. /\ \A u \in Thread \ {w} : worker[u].node # NULL =>
                node'[worker[u].node].ctor = node[worker[u].node].ctor
      /\ \A u \in Thread \ {w} : \A p \in Held(worker[u]) : CtorOf(p)' = CtorOf(p)
    BY CtorsStay
<1> QED
    BY <1>1, <1>2, <1>3, OthersAreKinded

\* It changes one wire, and no number gets there.
LEMMA WireStepKeepsKinds ==
    ASSUME IInv, KInv, NEW w \in Thread, NEW s2 \in WorkerState, Become(w, s2),
           NEW x \in Wire, NEW u, u \notin Number, wire' = [wire EXCEPT ![x] = u],
           UNCHANGED <<node, principal_wire>>,
           SelfIsKinded(s2, node[s2.node].ctor), s2.pc # "disconnect right"
    PROVE  KInv'
<1>1. WiresAreKinded'
    BY DEF IInv, Types, KInv, WiresAreKinded
<1>2. PortsAreKinded'
    BY DEF KInv, PortsAreKinded
<1> QED
    BY <1>1, <1>2, StepKeepsKinds

LEMMA TwoNets ==
    /\ <<"net", "net">> = <<"net">> \o <<"net">>
    /\ <<"net">> \in KindSeq /\ <<"net", "net">> \in KindSeq
<1>1. <<"net">> \in KindSeq /\ <<"net", "net">> \in KindSeq
    BY KindsAre DEF KindSeq
<1>2. ASSUME NEW k
      PROVE  <<k, k>> = <<k>> \o <<k>>
    OBVIOUS
<1> QED
    BY <1>1, <1>2, Zenon

LEMMA ConnectWordKeepsKinds ==
    ASSUME IInv, KInv, NEW w \in Thread, ConnectWord(w)
    PROVE  KInv'
<1> DEFINE s == worker[w]
           word == Head(s.code)
           p == Pop(s.stack)
           a == Top(p)
           b == Top(s.stack)
           rest == Tail(s.code)
           s2 == [Fetched(w) EXCEPT !.pc = "connect", !.stack = Pop(p), !.pair = <<a, b>>]
<1>1. Fetch(w, "connect") /\ UNCHANGED heap /\ Become(w, s2)
    BY DEF ConnectWord
<1>2. s.node = NULL /\ rest \in Seq(Word) /\ word \in Word /\ word.op = "connect"
    BY <1>1, FetchIs
<1>3. s \in WorkerState /\ s.stack \in Seq(Value) /\ VariablesAreKinded(s)
    BY WorkerIs, WorkerKinds
<1>4. Takes(word) = <<"net", "net">> /\ Gives(word) = <<>>
    BY <1>2, WordKinds
<1>5. PICK below \in KindSeq : /\ StackKinds(s.stack) = below \o <<"net", "net">>
                               /\ Runs(rest, below \o <<>>)
    BY <1>1, <1>4, NextWord
<1> HIDE DEF a, b, p, rest
<1>6. /\ StackKinds(s.stack) = (below \o <<"net">>) \o <<"net">>
      /\ below \o <<"net">> \in KindSeq
    <2>1. PICK one : one = <<"net">>
        OBVIOUS
    <2>2. one \in KindSeq /\ <<"net", "net">> = one \o one
        BY <2>1, TwoNets
    <2>3. below \o (one \o one) = (below \o one) \o one /\ below \o one \in KindSeq
        BY <1>5, <2>2, KindSeqs, Zenon
    <2>4. StackKinds(s.stack) = below \o (one \o one)
        BY <1>5, <2>2, Zenon
    <2> QED
        BY <2>1, <2>3, <2>4, Zenon
<1>7. p \in Seq(Value) /\ b \in Value /\ StackKinds(p) = below \o <<"net">> /\ KindOf(b) = "net"
    BY <1>3, <1>6, KindsPop, KindsAre DEF KindSeq, p, b
<1>8. /\ Pop(p) \in Seq(Value) /\ a \in Value
      /\ StackKinds(Pop(p)) = below /\ KindOf(a) = "net"
    BY <1>7, KindsPop, KindsAre DEF KindSeq, a
<1>9. a \in End /\ b \in End
    BY <1>7, <1>8, KindsAre, NumbersAre
<1>10. /\ s2 \in WorkerState /\ s2.pc = "connect" /\ s2.pair = <<a, b>> /\ s2.node = NULL
       /\ s2.variables = s.variables /\ s2.code = rest /\ s2.stack = Pop(p)
    BY <1>2, <1>3, <1>7, <1>8 DEF Fetched, WorkerState, rest, Label
<1> HIDE DEF s2
<1>11. Executes(s2)
    BY <1>5, <1>8, <1>10, NothingTaken DEF Executes
<1>12. PairIsOfNet(s2) /\ VariablesAreKinded(s2)
    BY <1>3, <1>9, <1>10 DEF PairIsOfNet, VariablesAreKinded
<1>13. SelfIsKinded(s2, node[s2.node].ctor) /\ HasSecond(s2)
    BY <1>10, <1>11, <1>12 DEF SelfIsKinded, StackIsKinded, HasSecond
<1> QED
    BY <1>1, <1>10, <1>13, HeapStaysKinded

LEMMA LinkKeepsKinds ==
    ASSUME IInv, KInv, NEW w \in Thread, Link(w)
    PROVE  KInv'
<1> DEFINE s == worker[w]
           word == Head(s.code)
           rest == Tail(s.code)
           x == First(FreeWires)
           two == <<x, x>>
           s2 == [Fetched(w) EXCEPT !.stack = @ \o two]
<1>1. /\ Fetch(w, "link") /\ FreeWires # {} /\ Become(w, s2)
      /\ wire' = [wire EXCEPT ![x] = NULL] /\ UNCHANGED <<node, principal_wire>>
    BY DEF Link
<1>2. s.pc = "execute" /\ s.pair = <<>> /\ rest \in Seq(Word) /\ word \in Word /\ word.op = "link"
    BY <1>1, FetchIs
<1>3. s \in WorkerState /\ s.stack \in Seq(Value) /\ VariablesAreKinded(s)
    BY WorkerIs, WorkerKinds
<1>4. Takes(word) = <<>> /\ Gives(word) = <<"net", "net">>
    BY <1>2, WordKinds
<1>5. PICK below \in KindSeq : /\ StackKinds(s.stack) = below \o <<>>
                               /\ Runs(rest, below \o <<"net", "net">>)
    BY <1>1, <1>4, NextWord
<1>6. x \in Wire
    <2>1. FreeWires \subseteq Wire /\ FreeWires \subseteq Nat
        BY ValuesAre DEF FreeWires
    <2> QED
        BY <1>1, <2>1, FirstIsIn
<1> HIDE DEF x
<1>7. x \in Value /\ x \notin Number /\ NULL \notin Number
    BY <1>6, NumbersAre, NumberAssumption
<1> HIDE DEF rest
<1>8. two = Append(Append(<<>>, x), x)
    OBVIOUS
<1>9. two \in Seq(Value) /\ StackKinds(two) = <<"net", "net">>
    <2>1. <<>> \in Seq(Value) /\ Append(<<>>, x) \in Seq(Value) /\ Append(Append(<<>>, x), x) \in Seq(Value)
        BY <1>7
    <2>2. StackKinds(<<>>) = <<>>
        BY DEF StackKinds
    <2>3. StackKinds(Append(<<>>, x)) = StackKinds(<<>>) \o <<KindOf(x)>>
        BY <1>7, <2>1, KindsAppend
    <2>4. StackKinds(Append(Append(<<>>, x), x)) = StackKinds(Append(<<>>, x)) \o <<KindOf(x)>>
        BY <1>7, <2>1, KindsAppend
    <2>5. KindOf(x) = "net"
        BY <1>7, KindsAre
    <2> HIDE DEF two
    <2> QED
        BY <1>8, <2>1, <2>2, <2>3, <2>4, <2>5, TwoNets, NothingTaken
<1> HIDE DEF two
<1>10. s.stack \o two \in Seq(Value) /\ StackKinds(s.stack \o two) = below \o <<"net", "net">>
    <2>1. StackKinds(s.stack) = below
        BY <1>5, NothingTaken, Zenon
    <2>2. StackKinds(s.stack \o two) = StackKinds(s.stack) \o StackKinds(two)
        BY <1>3, <1>9, KindsConcat, Zenon
    <2>3. StackKinds(s.stack \o two) = below \o <<"net", "net">>
        BY <1>9, <2>1, <2>2, Zenon
    <2>4. ASSUME NEW S, NEW a \in Seq(S), NEW b \in Seq(S)
          PROVE  a \o b \in Seq(S)
        OBVIOUS
    <2>5. s.stack \o two \in Seq(Value)
        BY <1>3, <1>9, <2>4
    <2> QED
        BY <2>3, <2>5
<1>11. /\ s2 \in WorkerState /\ s2.pc = "execute" /\ s2.pair = <<>>
       /\ s2.variables = s.variables /\ s2.code = rest /\ s2.stack = s.stack \o two
    BY <1>2, <1>3, <1>10 DEF Fetched, WorkerState, rest
<1> HIDE DEF s2
<1>12. Executing(s2) /\ Executes(s2) /\ VariablesAreKinded(s2)
    BY <1>3, <1>5, <1>10, <1>11 DEF Executing, Executes, VariablesAreKinded
<1>13. SelfIsKinded(s2, node[s2.node].ctor)
    BY <1>12, ExecutingIsKinded
<1> QED
    BY <1>1, <1>6, <1>7, <1>11, <1>13, WireStepKeepsKinds

LEMMA InputsDoneKeepsKinds ==
    ASSUME IInv, KInv, NEW w \in Thread, InputsDone(w)
    PROVE  KInv'
<1> DEFINE s == worker[w]
           n == s.node
           c == node[n].ctor
           s2 == [s EXCEPT !.pc = "output", !.port = Ctor[c].input_arity]
<1>1. UNCHANGED heap /\ Become(w, s2) /\ s.pc = "input" /\ s.port = 0
    BY DEF InputsDone, At
<1>2. s \in WorkerState /\ Locals(s) /\ SelfIsKinded(s, c) /\ VariablesAreKinded(s)
    BY WorkerIs, WorkerKinds
<1>3. n # NULL /\ c \in DOMAIN Ctor /\ s.pair = <<>>
    BY <1>1, <1>2 DEF Locals, IInv, Reconnects
<1>4. /\ Outputs(c) = Nets(Ctor[c].output_arity)
      /\ Ctor[c].input_arity \in Nat /\ Ctor[c].output_arity \in Nat
    BY <1>3, InputsAre
<1>5. Arity(c) - Ctor[c].input_arity = Ctor[c].output_arity
    BY <1>4 DEF Arity
<1>6. /\ s2 \in WorkerState /\ s2.pc = "output" /\ s2.pair = <<>> /\ s2.node = n
      /\ s2.variables = s.variables /\ s2.code = s.code /\ s2.stack = s.stack
      /\ s2.port = Ctor[c].input_arity
    BY <1>2, <1>3, <1>4 DEF WorkerState, Label
<1>7. Feeds(s, c)
    BY <1>1, <1>2 DEF SelfIsKinded, StackIsKinded
<1> HIDE DEF s2
<1>8. Yields(s2, c)
    <2>1. PICK rest \in KindSeq : /\ StackKinds(s.stack) = rest \o SubSeq(Inputs(c), 1, 0)
                                  /\ Runs(s.code, rest \o Outputs(c))
        BY <1>1, <1>7 DEF Feeds
    <2>2. SubSeq(Inputs(c), 1, 0) = <<>>
        BY SubSeqEmpty
    <2>3. StackKinds(s.stack) = rest
        BY <2>1, <2>2, NothingTaken
    <2> QED
        BY <1>4, <1>5, <1>6, <2>1, <2>3 DEF Yields
<1>9. PairIsOfNet(s2) /\ VariablesAreKinded(s2)
    BY <1>2, <1>6 DEF PairIsOfNet, VariablesAreKinded
<1>10. SelfIsKinded(s2, node[s2.node].ctor) /\ HasSecond(s2)
    BY <1>6, <1>8, <1>9 DEF SelfIsKinded, StackIsKinded, HasSecond
<1> QED
    BY <1>1, <1>6, <1>10, HeapStaysKinded

LEMMA UnlockKeepsKinds ==
    ASSUME IInv, KInv, NEW w \in Thread, Unlock(w)
    PROVE  KInv'
<1> DEFINE s == worker[w]
           c == node[s.node].ctor
           s2 == [s EXCEPT !.pc = IF s.found = NoTask THEN "execute" ELSE "add task",
                           !.node = NULL, !.port = 0]
<1>1. /\ UNCHANGED <<node, wire, principal_wire>> /\ Become(w, s2)
      /\ s.pc = "output" /\ s.port = Arity(c)
    BY DEF Unlock, At
<1>2. s \in WorkerState /\ Locals(s) /\ SelfIsKinded(s, c) /\ VariablesAreKinded(s)
    BY WorkerIs, WorkerKinds
<1>3. s.node # NULL /\ c \in DOMAIN Ctor /\ s.pair = <<>>
    BY <1>1, <1>2 DEF Locals, IInv, Reconnects
<1>4. /\ s2 \in WorkerState /\ s2.pc \in {"execute", "add task"} /\ s2.pair = <<>>
      /\ s2.variables = s.variables /\ s2.code = s.code /\ s2.stack = s.stack
    BY <1>2, <1>3 DEF WorkerState, Label
<1>5. Yields(s, c)
    BY <1>1, <1>2 DEF SelfIsKinded, StackIsKinded
<1> HIDE DEF s2
<1>6. Executes(s2)
    <2>1. Runs(s.code, StackKinds(s.stack) \o Nets(Arity(c) - Arity(c)))
        BY <1>1, <1>5 DEF Yields
    <2>2. Arity(c) \in Nat
        BY <1>3, PortsOf
    <2>3. Arity(c) - Arity(c) = 0 /\ Nets(0) = <<>>
        BY <2>2 DEF Nets
    <2>4. StackKinds(s.stack) \o <<>> = StackKinds(s.stack)
        BY WorkerKinds, NothingTaken
    <2> QED
        BY <1>4, <2>1, <2>3, <2>4 DEF Executes
<1>7. Executing(s2) /\ VariablesAreKinded(s2)
    BY <1>2, <1>4 DEF Executing, VariablesAreKinded
<1>8. SelfIsKinded(s2, node'[s2.node].ctor) /\ s2.pc # "disconnect right"
    BY <1>4, <1>6, <1>7, ExecutingIsKinded
<1>9. WiresAreKinded' /\ PortsAreKinded'
    BY <1>1 DEF KInv, WiresAreKinded, PortsAreKinded
<1> QED
    BY <1>1, <1>4, <1>8, <1>9, StepKeepsKinds

\* The pair that connect is about is always one it knows.
LEMMA ConnectDoesNotFail ==
    ASSUME IInv, KInv, NEW w \in Thread
    PROVE  ~ConnectFails(w)
<1> SUFFICES ASSUME ConnectFails(w)
             PROVE  FALSE
    OBVIOUS
<1>1. At(w, "connect")
    BY DEF ConnectFails
<1>2. worker[w].pair # <<>>
    BY <1>1, WorkerIs DEF Locals, At
<1>3. PICK a \in End, b \in End : worker[w].pair = <<a, b>>
    BY <1>2, WorkerKinds DEF PairIsOfNet
<1>4. worker[w].pair[1] = a /\ worker[w].pair[2] = b
    BY <1>3
<1> QED
    BY <1>3, <1>4, NumbersAre DEF ConnectFails, is_wire, is_principal_wire

LEMMA RunKeepsKinds ==
    ASSUME IInv, KInv, Run \/ RunEnd \/ UNCHANGED vars
    PROVE  KInv'
<1>1. node' = node /\ wire' = wire /\ principal_wire' = principal_wire /\ worker' = worker
    BY DEF Run, RunEnd, vars, heap
<1> QED
    BY <1>1 DEF KInv, WiresAreKinded, PortsAreKinded, WorkerIsKinded, HasSecond, CtorOf

LEMMA InputsBefore ==
    ASSUME NEW c \in DOMAIN Ctor
    PROVE  /\ SubSeq(Inputs(c), 1, Ctor[c].input_arity) = Inputs(c)
           /\ Inputs(c) \in KindSeq /\ Outputs(c) \in KindSeq
           /\ \A i \in Nat : i < Ctor[c].input_arity =>
                /\ SubSeq(Inputs(c), 1, i) \in KindSeq
                /\ SubSeq(Inputs(c), 1, i + 1) = SubSeq(Inputs(c), 1, i) \o <<PortKind(c, i)>>
<1> DEFINE f == Inputs(c)
           n == Ctor[c].input_arity
<1>1. /\ f \in Seq(Kind) /\ Len(f) = n /\ n \in Nat
      /\ \A i \in 1 .. n : f[i] = PortKind(c, i - 1)
      /\ Outputs(c) \in Seq(Kind)
    BY InputsAre, NetsAre
<1> HIDE DEF f, n
<1>2. SubSeq(f, 1, n) = f
    BY <1>1, SubSeqFull
<1>3. ASSUME NEW i \in Nat, i < n
      PROVE  /\ SubSeq(f, 1, i) \in Seq(Kind)
             /\ SubSeq(f, 1, i + 1) = SubSeq(f, 1, i) \o <<PortKind(c, i)>>
    <2>1. i + 1 \in 1 .. n /\ 1 \in 1 .. n /\ i + 1 \in 1 .. Len(f) /\ (i + 1) - 1 = i
        BY <1>1, <1>3
    <2>2. SubSeq(f, 1, i + 1) = SubSeq(f, 1, (i + 1) - 1) \o <<f[i + 1]>>
        BY <1>1, <2>1, SubSeqRecursiveSecond
    <2>3. f[i + 1] = PortKind(c, i)
        BY <1>1, <2>1
    <2>4. \A j \in 1 .. i : f[j] \in Kind
        <3> TAKE j \in 1 .. i
        <3>1. j \in 1 .. n
            BY <1>1, <1>3
        <3> QED
            BY <1>1, <3>1, KindsAre
    <2>5. SubSeq(f, 1, i) \in Seq(Kind)
        BY <2>4, SubSeqProperties
    <2> QED
        BY <2>1, <2>2, <2>3, <2>5
<1> QED
    BY <1>1, <1>2, <1>3, Zenon DEF KindSeq, f, n

LEMMA NewNodeKeepsKinds ==
    ASSUME IInv, KInv, NEW w \in Thread, NewNode(w)
    PROVE  KInv'
<1> DEFINE s == worker[w]
           word == Head(s.code)
           rest == Tail(s.code)
           n == First(FreeNodes)
           c == Argument(w)
           s2 == [Fetched(w) EXCEPT !.pc = "input", !.node = n, !.port = Ctor[c].input_arity]
<1>1. /\ Fetch(w, "node") /\ Become(w, s2) /\ FreeNodes # {}
      /\ node' = [node EXCEPT ![n].ctor = c]
      /\ UNCHANGED <<wire, principal_wire>>
    BY DEF NewNode
<1>2. s.pair = <<>> /\ rest \in Seq(Word) /\ word \in Word /\ word.op = "node"
    BY <1>1, FetchIs
<1>3. s \in WorkerState /\ s.stack \in Seq(Value) /\ VariablesAreKinded(s) /\ Types
    BY WorkerIs, WorkerKinds DEF IInv
<1>4. c \in DOMAIN Ctor /\ word.arg = c
    BY <1>2, WordIs DEF Argument
<1>5. Takes(word) = Inputs(c) /\ Gives(word) = Outputs(c)
    BY <1>2, <1>4, WordKinds
<1>6. PICK below \in KindSeq : /\ StackKinds(s.stack) = below \o Inputs(c)
                               /\ Runs(rest, below \o Outputs(c))
    BY <1>1, <1>5, NextWord
<1>7. n \in Node /\ node[n].ctor = "none"
    <2>1. FreeNodes \subseteq Nat
        BY ValuesAre DEF FreeNodes
    <2>2. n \in FreeNodes
        BY <1>1, <2>1, FirstIsIn
    <2> QED
        BY <2>2 DEF FreeNodes
<1>8. \A i \in Index : node[n].values[i] = NULL
    BY <1>7, CtorAssumption DEF IInv, PortsFit
<1>9. Ctor[c].input_arity \in Nat
    BY <1>4, PortsOf
<1> HIDE DEF n, c, rest
<1>10. /\ s2 \in WorkerState /\ s2.pc = "input" /\ s2.pair = <<>> /\ s2.node = n
       /\ s2.variables = s.variables /\ s2.code = rest /\ s2.stack = s.stack
       /\ s2.port = Ctor[c].input_arity
    BY <1>2, <1>3, <1>7, <1>9 DEF Fetched, WorkerState, rest, Label
<1> HIDE DEF s2
<1>11. /\ \A m \in Node : node'[m].values = node[m].values
       /\ \A m \in Node \ {n} : node'[m] = node[m]
       /\ node'[n].ctor = c
    BY <1>1, <1>3, <1>7 DEF Types, NodeState
<1>12. WiresAreKinded' /\ PortsAreKinded'
    BY <1>1, <1>8, <1>11 DEF KInv, WiresAreKinded, PortsAreKinded
<1>13. Feeds(s2, c)
    <2>1. SubSeq(Inputs(c), 1, s2.port) = Inputs(c)
        BY <1>4, <1>10, InputsBefore
    <2> QED
        BY <1>6, <1>10, <2>1 DEF Feeds
<1>14. PairIsOfNet(s2) /\ VariablesAreKinded(s2)
    BY <1>3, <1>10 DEF PairIsOfNet, VariablesAreKinded
<1>15. SelfIsKinded(s2, node'[s2.node].ctor) /\ s2.pc # "disconnect right"
    BY <1>10, <1>11, <1>13, <1>14 DEF SelfIsKinded, StackIsKinded
<1>16. /\ \A m \in Node : node[m].ctor # "none" => node'[m].ctor = node[m].ctor
       /\ \A p \in PrincipalWire : principal_wire[p] # Freed =>
            principal_wire'[p].node = principal_wire[p].node
    BY <1>1, <1>7, <1>11
<1> QED
    BY <1>1, <1>10, <1>12, <1>15, <1>16, StepKeepsKinds

-----------------------------------------------------------------------------
(* The ports of a node that a worker reconnects.                           *)

\* A worker fills port i with a value of the port's kind.
LEMMA PortIsKinded ==
    ASSUME IInv, KInv, NEW n \in Node, NEW i \in Index, NEW u \in Value,
           node' = [node EXCEPT ![n].values[i] = u],
           u \in Number <=> i \in NumberPort[node[n].ctor]
    PROVE  PortsAreKinded' /\ \A m \in Node : node'[m].ctor = node[m].ctor
<1>1. node \in [Node -> NodeState]
    BY DEF IInv, Types
<1>2. /\ node'[n].values[i] = u
      /\ \A m \in Node : node'[m].ctor = node[m].ctor
      /\ \A m \in Node \ {n} : node'[m] = node[m]
      /\ \A j \in Index \ {i} : node'[n].values[j] = node[n].values[j]
    BY <1>1, ZenonT(40) DEF NodeState
<1>3. ASSUME NEW m \in Node, NEW j \in Index, node'[m].values[j] # NULL
      PROVE  node'[m].values[j] \in Number <=> j \in NumberPort[node'[m].ctor]
    <2>1. CASE m = n /\ j = i
        BY <1>2, <2>1
    <2>2. CASE ~(m = n /\ j = i)
        <3>1. node'[m].values[j] = node[m].values[j]
            BY <1>2, <2>2
        <3> QED
            BY <1>2, <1>3, <3>1 DEF KInv, PortsAreKinded
    <2> QED
        BY <2>1, <2>2
<1> QED
    BY <1>2, <1>3 DEF PortsAreKinded

\* What MakeEnd puts into a port is of kind net, and so must the port be.
LEMMA MadeEndIsKinded ==
    ASSUME IInv, KInv, NEW n \in Node, NEW i \in Index, node[n].ctor \in DOMAIN Ctor,
           i \notin NumberPort[node[n].ctor], MakeEnd(n, i, NewEnd(n, i))
    PROVE  /\ WiresAreKinded' /\ PortsAreKinded' /\ NewEnd(n, i) \in End
           /\ \A m \in Node : node'[m].ctor = node[m].ctor
           /\ \A p \in PrincipalWire : principal_wire[p] # Freed =>
                principal_wire'[p].node = principal_wire[p].node
<1> PICK e : e = NewEnd(n, i)
    OBVIOUS
<1>1. i \in Nat
    BY DEF Index
<1>2. EndIsNew(n, i, e)
    BY <1>1, EndIs
<1>3. e \in End /\ e \in Value /\ e \notin Number
    BY <1>2, NumbersAre DEF EndIsNew
<1>4. PortsAreKinded' /\ \A m \in Node : node'[m].ctor = node[m].ctor
    BY <1>3, PortIsKinded DEF MakeEnd
<1>5. WiresAreKinded'
    <2>1. wire \in [Wire -> Value \union {NULL, FREE}] /\ NULL \notin Number
        BY NumberAssumption DEF IInv, Types
    <2>2. wire' = wire \/ wire' = [wire EXCEPT ![e] = NULL]
        BY DEF MakeEnd
    <2> QED
        BY <2>1, <2>2 DEF KInv, WiresAreKinded
<1>6. ASSUME NEW p \in PrincipalWire, principal_wire[p] # Freed
      PROVE  principal_wire'[p].node = principal_wire[p].node
    <2>1. CASE p = e
        BY <1>2, <1>6, <2>1 DEF EndIsNew
    <2>2. CASE p # e
        BY <1>2, <2>2 DEF EndIsNew
    <2> QED
        BY <2>1, <2>2
<1> QED
    BY <1>3, <1>4, <1>5, <1>6

\* The top of the stack is of the kind of the next input port.
LEMMA FeedsOne ==
    ASSUME NEW s \in WorkerState, NEW t \in WorkerState, NEW c \in DOMAIN Ctor, NEW i \in Nat,
           i < Ctor[c].input_arity, s.port = i + 1, Feeds(s, c),
           t.port = i, t.stack = Pop(s.stack), t.code = s.code
    PROVE  /\ Feeds(t, c) /\ Top(s.stack) \in Value
           /\ Top(s.stack) \in Number <=> i \in NumberPort[c]
<1>1. PICK rest \in KindSeq : /\ StackKinds(s.stack) = rest \o SubSeq(Inputs(c), 1, i + 1)
                              /\ Runs(s.code, rest \o Outputs(c))
    BY DEF Feeds
<1>2. PICK before : before = SubSeq(Inputs(c), 1, i)
    OBVIOUS
<1>3. PICK k : k = PortKind(c, i)
    OBVIOUS
<1>4. PICK one : one = <<k>>
    OBVIOUS
<1>5. before \in KindSeq /\ SubSeq(Inputs(c), 1, i + 1) = before \o one
    BY <1>2, <1>3, <1>4, InputsBefore
<1>6. k \in Kind /\ one \in KindSeq
    BY <1>3, <1>4, KindsAre, OneIs DEF KindSeq
<1>7. rest \o (before \o one) = (rest \o before) \o one /\ rest \o before \in KindSeq
    BY <1>5, <1>6, KindSeqs, Zenon
<1>8. PICK below : below = rest \o before
    OBVIOUS
<1>9. StackKinds(s.stack) = below \o <<k>> /\ below \in Seq(Kind)
    BY <1>1, <1>4, <1>5, <1>7, <1>8, Zenon DEF KindSeq
<1>10. s.stack \in Seq(Value)
    BY DEF WorkerState
<1>11. Top(s.stack) \in Value /\ StackKinds(Pop(s.stack)) = below /\ KindOf(Top(s.stack)) = k
    BY <1>6, <1>9, <1>10, KindsPop
<1>12. Top(s.stack) \in Number <=> i \in NumberPort[c]
    BY <1>3, <1>11, KindsAre
<1>13. Feeds(t, c)
    BY <1>1, <1>2, <1>8, <1>11 DEF Feeds
<1> QED
    BY <1>11, <1>12, <1>13

LEMMA ReconnectInputKeepsKinds ==
    ASSUME IInv, KInv, NEW w \in Thread, ReconnectInput(w)
    PROVE  KInv'
<1> PICK s : s = worker[w]
    OBVIOUS
<1> PICK n : n = s.node
    OBVIOUS
<1> PICK i : i = s.port - 1
    OBVIOUS
<1> PICK u : u = Top(s.stack)
    OBVIOUS
<1> PICK e : e = NewEnd(n, i)
    OBVIOUS
<1> DEFINE self == [s EXCEPT !.stack = Pop(@), !.port = @ - 1]
           made == [self EXCEPT !.pc = "connect", !.pair = <<e, u>>]
<1>1. /\ s \in WorkerState /\ Locals(s) /\ Reconnects(w) /\ VariablesAreKinded(s)
      /\ SelfIsKinded(s, node[s.node].ctor)
    BY WorkerIs, WorkerKinds DEF IInv
<1>2. /\ s.pc = "input" /\ s.port > 0 /\ s.stack # <<>>
      /\ \/ /\ IsPrincipal(n, i) \/ u \in PrincipalWire
            /\ MakeEnd(n, i, e)
            /\ Become(w, made)
         \/ /\ ~IsPrincipal(n, i) /\ u \notin PrincipalWire
            /\ node' = [node EXCEPT ![n].values[i] = u]
            /\ Become(w, self)
            /\ UNCHANGED <<wire, principal_wire>>
    <2>1. n = worker[w].node /\ i = InputPort(w) /\ u = Top(worker[w].stack)
        BY Zenon DEF InputPort
    <2> QED
        BY <2>1, Zenon DEF ReconnectInput, At, is_principal_wire
<1> HIDE DEF self, made
<1>3. PICK c : c = node[n].ctor
    OBVIOUS
<1>4. n \in Node /\ n # NULL /\ c \in DOMAIN Ctor /\ s.port \in Nat /\ s.pair = <<>>
    BY <1>1, <1>2, <1>3 DEF Locals, WorkerState, Reconnects
<1>5. /\ Ctor[c].input_arity \in Nat /\ Ctor[c].input_arity <= Arity(c) /\ Arity(c) \in Nat
      /\ Port(c) = 0 .. Arity(c) - 1 /\ Port(c) \subseteq Index
    BY <1>4, PortsOf
<1>6. s.port <= Ctor[c].input_arity
    BY <1>1, <1>2, <1>3, <1>4 DEF Reconnects
<1>7. i \in Nat /\ i < Ctor[c].input_arity /\ s.port = i + 1 /\ i \in Index
    <2>1. i \in Nat /\ i < Ctor[c].input_arity /\ s.port = i + 1
        BY <1>2, <1>4, <1>5, <1>6
    <2>2. i \in Port(c)
        BY <1>5, <2>1
    <2> QED
        BY <1>5, <2>1, <2>2
<1>8. s.stack \in Seq(Value) /\ u \in Value /\ Pop(s.stack) \in Seq(Value)
    BY <1>1, <1>2, PopIs DEF WorkerState
<1>9. /\ self \in WorkerState /\ self.pc = "input" /\ self.stack = Pop(s.stack)
      /\ self.code = s.code /\ self.variables = s.variables /\ self.node = n
      /\ self.port = i /\ self.pair = <<>>
    BY <1>1, <1>2, <1>4, <1>7, <1>8 DEF self, WorkerState
<1>10. Feeds(s, c)
    BY <1>1, <1>2, <1>3 DEF SelfIsKinded, StackIsKinded
<1>11. Feeds(self, c) /\ (u \in Number <=> i \in NumberPort[c])
    BY <1>1, <1>4, <1>7, <1>9, <1>10, FeedsOne
<1>12. CASE /\ IsPrincipal(n, i) \/ u \in PrincipalWire
            /\ MakeEnd(n, i, e) /\ Become(w, made)
    <2>1. u \notin Number /\ i \notin NumberPort[c]
        <3>1. CASE IsPrincipal(n, i)
            <4>1. i \notin NumberPort[c]
                BY <1>3, <1>4, <3>1, KindAssumption DEF IsPrincipal
            <4> QED
                BY <1>11, <4>1
        <3>2. CASE u \in PrincipalWire
            <4>1. u \notin Number
                BY <3>2, NumbersAre
            <4> QED
                BY <1>11, <4>1
        <3> QED
            BY <1>12, <3>1, <3>2
    <2>2. /\ WiresAreKinded' /\ PortsAreKinded' /\ e \in End
          /\ \A m \in Node : node'[m].ctor = node[m].ctor
          /\ \A p \in PrincipalWire : principal_wire[p] # Freed =>
                principal_wire'[p].node = principal_wire[p].node
        BY <1>3, <1>4, <1>7, <1>12, <2>1, MadeEndIsKinded
    <2>3. u \in End /\ e \in Value
        BY <1>8, <2>1, <2>2, NumbersAre
    <2>4. /\ made \in WorkerState /\ made.pc = "connect" /\ made.stack = self.stack
          /\ made.code = self.code /\ made.variables = self.variables /\ made.node = n
          /\ made.port = self.port /\ made.pair = <<e, u>>
        BY <1>8, <1>9, <2>3, ZenonT(40) DEF made, WorkerState, Label
    <2>5. Feeds(made, c)
        BY <1>11, <2>4 DEF Feeds
    <2>6. PairIsOfNet(made) /\ VariablesAreKinded(made)
        BY <1>1, <1>9, <2>2, <2>3, <2>4 DEF PairIsOfNet, VariablesAreKinded
    <2>7. SelfIsKinded(made, node'[made.node].ctor) /\ made.pc # "disconnect right"
        BY <1>3, <1>4, <2>2, <2>4, <2>5, <2>6 DEF SelfIsKinded, StackIsKinded
    <2> QED
        BY <1>12, <2>2, <2>4, <2>7, StepKeepsKinds
<1>13. CASE /\ node' = [node EXCEPT ![n].values[i] = u]
            /\ Become(w, self)
            /\ UNCHANGED <<wire, principal_wire>>
    <2>1. PortsAreKinded' /\ \A m \in Node : node'[m].ctor = node[m].ctor
        BY <1>3, <1>4, <1>7, <1>8, <1>11, <1>13, PortIsKinded
    <2>2. WiresAreKinded'
        BY <1>13 DEF KInv, WiresAreKinded
    <2>3. PairIsOfNet(self) /\ VariablesAreKinded(self)
        BY <1>1, <1>9 DEF PairIsOfNet, VariablesAreKinded
    <2>4. SelfIsKinded(self, node'[self.node].ctor) /\ self.pc # "disconnect right"
        BY <1>3, <1>4, <1>9, <1>11, <2>1, <2>3 DEF SelfIsKinded, StackIsKinded
    <2> QED
        BY <1>9, <1>13, <2>1, <2>2, <2>4, StepKeepsKinds
<1> QED
    BY <1>2, <1>12, <1>13

\* An output port gives one value of kind net.
LEMMA YieldsOne ==
    ASSUME NEW s \in WorkerState, NEW t \in WorkerState, NEW c \in DOMAIN Ctor, NEW e \in Value,
           e \notin Number, s.port < Arity(c), Yields(s, c),
           t.port = s.port + 1, t.stack = Append(s.stack, e), t.code = s.code
    PROVE  Yields(t, c)
<1>1. s.stack \in Seq(Value) /\ s.port \in Nat /\ Arity(c) \in Nat
    BY PortsOf DEF WorkerState
<1>2. PICK k \in Nat : Arity(c) - s.port = k + 1 /\ Arity(c) - t.port = k
    <2>1. Arity(c) - (s.port + 1) \in Nat /\ Arity(c) - s.port = Arity(c) - (s.port + 1) + 1
        BY <1>1
    <2> QED
        BY <2>1
<1>3. PICK one : one = <<"net">>
    OBVIOUS
<1>4. PICK before : before = StackKinds(s.stack)
    OBVIOUS
<1>5. StackKinds(t.stack) = before \o one
    <2>1. KindOf(e) = "net"
        BY KindsAre
    <2> QED
        BY <1>1, <1>3, <1>4, <2>1, KindsAppend
<1>6. Nets(k + 1) = one \o Nets(k)
    BY <1>2, <1>3, NetsAppend
<1>7. before \in KindSeq /\ one \in KindSeq /\ Nets(k) \in KindSeq
    BY <1>1, <1>2, <1>3, <1>4, StackKindsAre, TwoNets, NetsAre DEF KindSeq
<1>8. before \o (one \o Nets(k)) = (before \o one) \o Nets(k)
    BY <1>7, KindSeqs, Zenon
<1>9. Runs(s.code, before \o Nets(k + 1))
    BY <1>2, <1>4 DEF Yields
<1> QED
    BY <1>2, <1>5, <1>6, <1>8, <1>9 DEF Yields

LEMMA ReconnectOutputKeepsKinds ==
    ASSUME IInv, KInv, NEW w \in Thread, ReconnectOutput(w)
    PROVE  KInv'
<1> PICK s : s = worker[w]
    OBVIOUS
<1> PICK n : n = s.node
    OBVIOUS
<1> PICK i : i = s.port
    OBVIOUS
<1> PICK e : e = NewEnd(n, i)
    OBVIOUS
<1> PICK c : c = node[n].ctor
    OBVIOUS
<1> DEFINE made == [s EXCEPT !.stack = Append(@, e), !.port = i + 1]
<1>1. /\ s \in WorkerState /\ Locals(s) /\ Reconnects(w) /\ VariablesAreKinded(s)
      /\ SelfIsKinded(s, c)
    BY WorkerIs, WorkerKinds DEF IInv
<1>2. s.pc = "output" /\ i < Arity(c) /\ MakeEnd(n, i, e) /\ Become(w, made)
    BY Zenon DEF ReconnectOutput, At
<1>3. n \in Node /\ n # NULL /\ c \in DOMAIN Ctor /\ i \in Nat /\ s.pair = <<>>
    BY <1>1, <1>2 DEF Locals, WorkerState, Reconnects
<1>4. i >= Ctor[c].input_arity
    BY <1>1, <1>2, <1>3 DEF Reconnects
<1>5. i \in Index /\ i \notin NumberPort[c]
    <2>1. Arity(c) \in Nat /\ Port(c) = 0 .. Arity(c) - 1 /\ Port(c) \subseteq Index
        BY <1>3, PortsOf
    <2>2. i \in Port(c)
        BY <1>2, <1>3, <2>1
    <2>3. Ctor[c].input_arity \in Nat
        BY <1>3, PortsOf
    <2>4. i \notin 0 .. Ctor[c].input_arity - 1
        BY <1>3, <1>4, <2>3
    <2> QED
        BY <1>3, <2>1, <2>2, <2>4, KindAssumption
<1>6. /\ WiresAreKinded' /\ PortsAreKinded' /\ e \in End
      /\ \A m \in Node : node'[m].ctor = node[m].ctor
      /\ \A p \in PrincipalWire : principal_wire[p] # Freed =>
            principal_wire'[p].node = principal_wire[p].node
    BY <1>2, <1>3, <1>5, MadeEndIsKinded
<1>7. e \in Value /\ e \notin Number
    BY <1>6, NumbersAre
<1>8. s.stack \in Seq(Value) /\ Append(s.stack, e) \in Seq(Value) /\ i + 1 \in Nat
    BY <1>1, <1>3, <1>7 DEF WorkerState
<1>9. /\ made \in WorkerState /\ made.pc = "output" /\ made.stack = Append(s.stack, e)
      /\ made.code = s.code /\ made.variables = s.variables /\ made.node = n
      /\ made.port = i + 1 /\ made.pair = <<>>
    BY <1>1, <1>2, <1>3, <1>8 DEF WorkerState
<1> HIDE DEF made
<1>10. Yields(made, c)
    <2>1. Yields(s, c)
        BY <1>1, <1>2 DEF SelfIsKinded, StackIsKinded
    <2> QED
        BY <1>1, <1>2, <1>3, <1>7, <1>9, <2>1, YieldsOne
<1>11. PairIsOfNet(made) /\ VariablesAreKinded(made)
    BY <1>1, <1>9 DEF PairIsOfNet, VariablesAreKinded
<1>12. SelfIsKinded(made, node'[made.node].ctor) /\ made.pc # "disconnect right"
    BY <1>3, <1>6, <1>9, <1>10, <1>11 DEF SelfIsKinded, StackIsKinded
<1> QED
    BY <1>2, <1>6, <1>9, <1>12, StepKeepsKinds

-----------------------------------------------------------------------------
(* connect.                                                                *)

LEMMA ReturnKeepsKinds ==
    ASSUME IInv, KInv, NEW w \in Thread, At(w, "connect"), NEW t \in Task \union {NoTask},
           Return(w, t), t # NoTask /\ worker[w].node # NULL => worker[w].found = NoTask
    PROVE  \E s2 \in WorkerState : /\ Become(w, s2) /\ s2.node = worker[w].node
                                   /\ SelfIsKinded(s2, node[s2.node].ctor)
                                   /\ s2.pc # "disconnect right"
<1> PICK s : s = worker[w]
    OBVIOUS
<1> PICK s2 : s2 = Returned(s, t)
    OBVIOUS
<1> PICK c : c = node[s.node].ctor
    OBVIOUS
<1>1. /\ Become(w, s2) /\ s2 \in WorkerState
      /\ s2.pc = (IF s.node = NULL THEN IF t = NoTask THEN "execute" ELSE "add task" ELSE "input")
      /\ s2.stack = s.stack /\ s2.code = s.code
      /\ s2.variables = s.variables /\ s2.node = s.node /\ s2.port = s.port
      /\ s2.pair = <<>>
    BY ReturnIs
<1>2. s.pc = "connect" /\ VariablesAreKinded(s) /\ SelfIsKinded(s, c)
    BY WorkerKinds DEF At
<1>3. VariablesAreKinded(s2) /\ PairIsOfNet(s2)
    BY <1>1, <1>2 DEF VariablesAreKinded, PairIsOfNet
<1>4. SelfIsKinded(s2, c) /\ s2.pc # "disconnect right"
    <2>1. CASE s.node = NULL
        <3>1. Executes(s)
            BY <1>2, <2>1 DEF SelfIsKinded, StackIsKinded
        <3>2. Executes(s2) /\ Executing(s2)
            BY <1>1, <2>1, <3>1 DEF Executes, Executing
        <3> QED
            BY <1>1, <1>3, <2>1, <3>2, ExecutingIsKinded
    <2>2. CASE s.node # NULL
        <3>1. Feeds(s, c)
            BY <1>2, <2>2 DEF SelfIsKinded, StackIsKinded
        <3>2. Feeds(s2, c) /\ s2.pc = "input"
            BY <1>1, <2>2, <3>1 DEF Feeds
        <3> QED
            BY <1>3, <3>2 DEF SelfIsKinded, StackIsKinded
    <2> QED
        BY <2>1, <2>2
<1> QED
    BY <1>1, <1>4

\* Neither the first end of a wire nor the second leaves a number in it.
LEMMA FuzeKeepsKinds ==
    ASSUME IInv, KInv, NEW w \in Thread, At(w, "connect"), NEW x \in Wire, NEW y \in End,
           worker[w].pair = <<x, y>> \/ worker[w].pair = <<y, x>>, Fuze(w, x, y),
           UNCHANGED <<node, principal_wire>>
    PROVE  KInv'
<1>1. y \in Value /\ y \notin Number /\ FREE \notin Number
    BY NumbersAre, NumberAssumption
<1>2. CASE wire' = [wire EXCEPT ![x] = y] /\ Return(w, NoTask)
    <2>1. PICK s2 \in WorkerState : /\ Become(w, s2) /\ s2.node = worker[w].node
                                    /\ SelfIsKinded(s2, node[s2.node].ctor)
                                    /\ s2.pc # "disconnect right"
        BY <1>2, ReturnKeepsKinds
    <2> QED
        BY <1>1, <1>2, <2>1, WireStepKeepsKinds
<1>3. CASE /\ wire[x] # NULL /\ wire' = [wire EXCEPT ![x] = FREE]
           /\ Become(w, [worker[w] EXCEPT !.pair = <<wire[x], y>>])
    <2> PICK s : s = worker[w]
        OBVIOUS
    <2> PICK z : z = wire[x]
        OBVIOUS
    <2> PICK c : c = node[s.node].ctor
        OBVIOUS
    <2> PICK s2 : s2 = [s EXCEPT !.pair = <<z, y>>]
        OBVIOUS
    <2>1. s \in WorkerState /\ s.pc = "connect" /\ VariablesAreKinded(s) /\ SelfIsKinded(s, c)
        BY WorkerIs, WorkerKinds DEF At
    <2>2. z \in End /\ z \in Value
        <3>1. z # FREE
            BY <1>1, WireInHand
        <3>2. z \in Value \union {NULL, FREE} /\ z \notin Number
            BY DEF IInv, Types, KInv, WiresAreKinded
        <3> QED
            BY <1>3, <3>1, <3>2, NumbersAre
    <2>3. /\ Become(w, s2) /\ s2 \in WorkerState /\ s2.pc = "connect"
          /\ s2.stack = s.stack /\ s2.code = s.code /\ s2.variables = s.variables
          /\ s2.node = s.node /\ s2.port = s.port /\ s2.pair = <<z, y>>
        BY <1>1, <1>3, <2>1, <2>2, ZenonT(40) DEF WorkerState
    <2>4. VariablesAreKinded(s2) /\ PairIsOfNet(s2)
        BY <2>1, <2>2, <2>3 DEF VariablesAreKinded, PairIsOfNet
    <2>5. StackIsKinded(s2, c)
        BY <2>1, <2>3 DEF SelfIsKinded, StackIsKinded, Executes, Feeds
    <2>6. SelfIsKinded(s2, node[s2.node].ctor)
        BY <2>3, <2>4, <2>5 DEF SelfIsKinded
    <2> QED
        BY <1>1, <1>3, <2>3, <2>6, WireStepKeepsKinds
<1> QED
    BY <1>2, <1>3, Zenon DEF Fuze, Destroyed

LEMMA FuzeWireKeepsKinds ==
    ASSUME IInv, KInv, NEW w \in Thread, FuzeWire(w)
    PROVE  KInv'
<1>1. At(w, "connect") /\ UNCHANGED <<node, principal_wire>>
    BY DEF FuzeWire
<1>2. PICK a \in Value, b \in Value : worker[w].pair = <<a, b>>
    BY <1>1, PairIs
<1>3. a \in End /\ b \in End
    <2>1. PairIsOfNet(worker[w])
        BY WorkerKinds
    <2>2. worker[w].pair # <<>>
        BY <1>2
    <2>3. worker[w].pair \in End \X End
        BY <2>1, <2>2, Zenon DEF PairIsOfNet
    <2>4. <<a, b>> \in End \X End
        BY <1>2, <2>3, Zenon
    <2> QED
        BY <2>4
<1>4. \/ a \in Wire /\ Fuze(w, a, b)
      \/ b \in Wire /\ Fuze(w, b, a)
    <2>1. worker[w].pair[1] = a /\ worker[w].pair[2] = b
        BY <1>2
    <2> QED
        BY <2>1, Zenon DEF FuzeWire, is_wire
<1> QED
    BY <1>1, <1>2, <1>3, <1>4, FuzeKeepsKinds

LEMMA ConnectActivePairKeepsKinds ==
    ASSUME IInv, KInv, NEW w \in Thread, ConnectActivePair(w)
    PROVE  KInv'
<1>1. At(w, "connect") /\ UNCHANGED <<node, wire>>
    BY DEF ConnectActivePair
<1>2. PICK l \in Value, r \in Value : worker[w].pair = <<l, r>>
    BY <1>1, PairIs
<1>3. PICK t : t = TaskOf(l, r)
    OBVIOUS
<1> HIDE <1>3
<1>4. /\ l \in PrincipalWire /\ r \in PrincipalWire
      /\ principal_wire' = [principal_wire EXCEPT ![l].oppsite = r, ![r].oppsite = l]
      /\ Return(w, t)
    <2>1. worker[w].pair[1] = l /\ worker[w].pair[2] = r
        BY <1>2
    <2> QED
        BY <1>3, <2>1, Zenon DEF ConnectActivePair, is_principal_wire, Opposite
<1>5. t \in Task \union {NoTask}
    BY <1>3, <1>4, TaskOfIs
<1>6. t # NoTask /\ worker[w].node # NULL => worker[w].found = NoTask
    BY <1>1, <1>2, <1>4, FindsOneTask
<1>7. PICK s2 \in WorkerState : /\ Become(w, s2) /\ s2.node = worker[w].node
                                /\ SelfIsKinded(s2, node[s2.node].ctor)
                                /\ s2.pc # "disconnect right"
    BY <1>1, <1>4, <1>5, <1>6, ReturnKeepsKinds
<1>8. \A p \in PrincipalWire : principal_wire'[p].node = principal_wire[p].node
    BY <1>4 DEF IInv, Types
<1>9. WiresAreKinded' /\ PortsAreKinded'
    BY <1>1 DEF KInv, WiresAreKinded, PortsAreKinded
<1> QED
    BY <1>1, <1>7, <1>8, <1>9, StepKeepsKinds

-----------------------------------------------------------------------------
(* Disconnecting the nodes of a task.                                      *)

\* What a node leaves on the stack is what its constructor says.
LEMMA ExposedKinds ==
    ASSUME OnePrincipalPort, IInv, KInv, NEW n \in Node, node[n].ctor \in DOMAIN Ctor,
           \A i \in Port(node[n].ctor) : node[n].values[i] \in Value,
           NEW p \in PrincipalWire, Sole(n, p)
    PROVE  StackKinds(Exposed(n)) = OrdinaryKinds(node[n].ctor)
<1> PICK c : c = node[n].ctor
    OBVIOUS
<1> PICK f : f = node[n].values
    OBVIOUS
<1> DEFINE S == Ordinary(c)
           N == Cardinality(S)
           e == [k \in 1 .. N |-> f[Ranked(S, k)]]
<1>1. c \in DOMAIN Ctor /\ Port(c) \subseteq Nat /\ Port(c) \subseteq Index /\ IsFiniteSet(Port(c))
    BY PortsOf
<1>2. {i \in Port(c) : ~is_principal_wire(f[i])} = S
    <2>1. PICK k \in Port(c) : /\ k \in Ctor[c].principal
                               /\ \A i \in Port(c) : /\ i = k => f[i] = p
                                                     /\ i # k => f[i] \in Value \ PrincipalWire
        BY DEF Sole
    <2>2. \A i \in Port(c) : i \in Ctor[c].principal <=> i = k
        BY <1>1, <2>1, Zenon DEF OnePrincipalPort
    <2>3. \A i \in Port(c) : is_principal_wire(f[i]) <=> i = k
        BY <2>1 DEF is_principal_wire
    <2> QED
        BY <2>2, <2>3 DEF Ordinary
<1>3. Exposed(n) = e
    <2> DEFINE T == {i \in Port(c) : ~is_principal_wire(f[i])}
    <2>1. Exposed(n) = [k \in 1 .. Cardinality(T) |-> f[Ranked(T, k)]]
        BY DEF Exposed, Ranked
    <2>2. T = S
        BY <1>2
    <2> HIDE DEF T, S
    <2> QED
        BY <2>1, <2>2
<1>4. S \in SUBSET Nat /\ S \in SUBSET Port(c) /\ IsFiniteSet(S)
    <2>1. S \in SUBSET Port(c)
        BY DEF Ordinary
    <2> QED
        BY <1>1, <2>1, FS_Subset
<1>5. \A i \in S : KindOf(f[i]) = PortKind(c, i)
    <2> TAKE i \in S
    <2>1. i \in Index /\ f[i] \in Value /\ f[i] # NULL
        BY <1>1, <1>4, ValuesAre
    <2>2. f[i] \in Number <=> i \in NumberPort[c]
        BY <2>1 DEF KInv, PortsAreKinded
    <2> QED
        BY <2>2, KindsAre
<1>6. \A k \in 1 .. N : Ranked(S, k) \in S
    BY <1>4, Enumeration
<1>7. OrdinaryKinds(c) = [k \in 1 .. N |-> PortKind(c, Ranked(S, k))]
    BY DEF OrdinaryKinds, Ranked
<1>8. StackKinds(e) = [k \in 1 .. N |-> KindOf(f[Ranked(S, k)])]
    <2>1. N \in Nat
        BY <1>4, FS_CardinalityType
    <2> HIDE DEF S, N
    <2>2. Len(e) = N /\ \A k \in 1 .. N : e[k] = f[Ranked(S, k)]
        BY <2>1
    <2> HIDE DEF e
    <2> QED
        BY <2>2 DEF StackKinds
<1> HIDE DEF S, N
<1>9. \A k \in 1 .. N : KindOf(f[Ranked(S, k)]) = PortKind(c, Ranked(S, k))
    BY <1>5, <1>6
<1> HIDE DEF e
<1> QED
    BY <1>3, <1>7, <1>8, <1>9

LEMMA OrdinaryKindsAre ==
    ASSUME NEW c \in DOMAIN Ctor
    PROVE  OrdinaryKinds(c) \in KindSeq
<1> DEFINE S == Ordinary(c)
           N == Cardinality(S)
<1>1. IsFiniteSet(S)
    <2>1. S \in SUBSET Port(c)
        BY DEF Ordinary
    <2> QED
        BY <2>1, PortsOf, FS_Subset
<1>2. N \in Nat
    BY <1>1, FS_CardinalityType
<1>3. OrdinaryKinds(c) = [k \in 1 .. N |-> PortKind(c, Ranked(S, k))]
    BY DEF OrdinaryKinds, Ranked
<1> HIDE DEF S, N
<1>4. OrdinaryKinds(c) \in [1 .. N -> Kind]
    BY <1>3, KindsAre
<1> QED
    BY <1>2, <1>4, SeqDef DEF KindSeq

RightIsMet(s, p) ==
    s.pc = "disconnect right" =>
        s.task.right \in PrincipalWire \ {p} /\ principal_wire[s.task.right].oppsite # NULL

\* The others do not see the node that is disconnected.
LEMMA DisconnectKeepsKinds ==
    ASSUME OnePrincipalPort, IInv, KInv, NEW w \in Thread, NEW p \in PrincipalWire,
           principal_wire[p].oppsite # NULL, p \in Held(worker[w]),
           NEW self \in WorkerState, NEW n, NEW exposed, NEW s2,
           Disconnected(w, p, self, n, exposed, s2),
           self.node = NULL, \A any : SelfIsKinded(s2, any), HasSecond(s2), RightIsMet(s2, p)
    PROVE  KInv'
<1> DEFINE c == node[n].ctor
<1>1. /\ n = principal_wire[p].node /\ n \in Node /\ MayLock(n) /\ UNCHANGED wire
      /\ node'[n] = CleanNode /\ \A m \in Node \ {n} : node'[m] = node[m]
      /\ \A q \in PrincipalWire \ {p} : principal_wire'[q] = principal_wire[q]
      /\ \A q \in PrincipalWire \ {p} :
            principal_wire[q] # Freed => principal_wire[q].node \in Node \ {n}
      /\ Become(w, s2) /\ s2 \in WorkerState /\ s2.node = NULL
    BY DEF Disconnected
<1>2. worker'[w] = s2 /\ \A u \in Thread \ {w} : worker'[u] = worker[u]
    BY <1>1, Becomes
<1>3. WiresAreKinded'
    BY <1>1 DEF KInv, WiresAreKinded
<1>4. PortsAreKinded'
    <2> SUFFICES ASSUME NEW m \in Node, NEW i \in Index, node'[m].values[i] # NULL
                 PROVE  node'[m].values[i] \in Number <=> i \in NumberPort[node'[m].ctor]
        BY DEF PortsAreKinded
    <2>1. m # n
        BY <1>1 DEF CleanNode
    <2>2. node'[m] = node[m]
        BY <1>1, <2>1
    <2> QED
        BY <2>2 DEF KInv, PortsAreKinded
<1>5. ASSUME NEW q \in PrincipalWire \ {p}, principal_wire[q].oppsite # NULL
      PROVE  CtorOf(q)' = CtorOf(q)
    <2>1. principal_wire[q] # Freed
        BY <1>5 DEF Freed
    <2>2. principal_wire[q].node \in Node \ {n} /\ principal_wire'[q] = principal_wire[q]
        BY <1>1, <2>1
    <2> QED
        BY <1>1, <2>2 DEF CtorOf
<1>6. \A u \in Thread \ {w} : worker[u].node # NULL =>
            node'[worker[u].node].ctor = node[worker[u].node].ctor
    <2> TAKE u \in Thread \ {w}
    <2> HAVE worker[u].node # NULL
    <2>1. worker[u].node \in Node /\ mutex[worker[u].node] = u /\ u # NULL
        BY WorkerIs, HeapAssumption DEF IInv, Reconnects, WorkerState
    <2> QED
        BY <1>1, <2>1 DEF MayLock
<1>7. \A u \in Thread \ {w} : \A q \in Held(worker[u]) : CtorOf(q)' = CtorOf(q)
    <2> TAKE u \in Thread \ {w}
    <2> TAKE q \in Held(worker[u])
    <2>1. q \in PrincipalWire /\ principal_wire[q].oppsite # NULL
        BY WorkerIs, HeldAre DEF IInv, ClaimsHaveMet
    <2>2. q # p
        BY DEF IInv, ClaimsAreApart
    <2> QED
        BY <1>5, <2>1, <2>2
<1>8. WorkerIsKinded(w)'
    <2>1. HasSecond(s2)'
        BY <1>5 DEF HasSecond, RightIsMet, CtorOf
    <2> QED
        BY <1>2, <2>1 DEF WorkerIsKinded, HasSecond
<1> QED
    BY <1>2, <1>3, <1>4, <1>6, <1>7, <1>8, OthersAreKinded

LEMMA DisconnectLeftKeepsKinds ==
    ASSUME OnePrincipalPort, IInv, KInv, NEW w \in Thread, DisconnectLeft(w)
    PROVE  KInv'
<1> PICK s : s = worker[w]
    OBVIOUS
<1> PICK t : t = s.task
    OBVIOUS
<1> PICK self : self = [s EXCEPT !.pc = "disconnect right"]
    OBVIOUS
<1>1. s.pc = "disconnect left" /\ Disconnect(w, t.left, self)
    BY DEF DisconnectLeft, At
<1>2. s \in WorkerState /\ Locals(s) /\ VariablesAreKinded(s) /\ s.stack \in Seq(Value)
    BY WorkerIs, WorkerKinds
<1>3. s.found = NoTask /\ s.node = NULL /\ s.pair = <<>> /\ t # NoTask /\ t \in Task
    BY <1>1, <1>2 DEF Locals, WorkerState
<1>4. t.left \in PrincipalWire /\ t.right \in PrincipalWire /\ t.rule \in DOMAIN Rules
    BY <1>3, TasksAre
<1>5. t \in LiveTasks
    BY <1>1, <1>3, LiveTasksAre DEF TasksOf
<1>6. /\ t.left # t.right
      /\ principal_wire[t.left].oppsite # NULL /\ principal_wire[t.right].oppsite # NULL
      /\ Rules[t.rule].first = CtorOf(t.left) /\ Rules[t.rule].second = CtorOf(t.right)
    BY <1>4, <1>5, ValuesAre DEF IInv, AllStand, Stands, NULL
<1>7. /\ self \in WorkerState
      /\ self.pc = "disconnect right" /\ self.task = t /\ self.stack = s.stack
      /\ self.variables = s.variables /\ self.node = NULL /\ self.pair = <<>>
    BY <1>2, <1>3 DEF WorkerState, Label
<1>8. t.left \in Held(s)
    BY <1>1, <1>3 DEF Held, Both
<1>9. PICK n, exposed, s2 : Disconnected(w, t.left, self, n, exposed, s2)
    BY <1>1, <1>4, <1>6, <1>7, DisconnectIs
<1>10. /\ n = principal_wire[t.left].node /\ exposed = Exposed(n)
       /\ n \in Node /\ node[n].ctor \in DOMAIN Ctor
       /\ \A i \in Port(node[n].ctor) : node[n].values[i] \in Value
       /\ Sole(n, t.left) /\ exposed \in Seq(Value)
    BY <1>9 DEF Disconnected
<1>11. /\ s2.pc = "disconnect right" /\ s2.task = t /\ s2.stack = s.stack \o exposed
       /\ s2.variables = s.variables /\ s2.node = NULL /\ s2.pair = <<>>
    BY <1>7, <1>9 DEF Disconnected
<1>12. StackKinds(exposed) = OrdinaryKinds(Rules[t.rule].first)
    <2>1. StackKinds(exposed) = OrdinaryKinds(node[n].ctor)
        BY <1>4, <1>10, ExposedKinds
    <2> QED
        BY <1>6, <1>10, <2>1 DEF CtorOf
<1>13. Splits(s2)
    <2>1. StackKinds(s2.stack) = StackKinds(s.stack) \o StackKinds(exposed)
        BY <1>2, <1>10, <1>11, KindsConcat
    <2>2. StackKinds(s.stack) \in KindSeq
        BY WorkerKinds
    <2> QED
        BY <1>11, <1>12, <2>1, <2>2 DEF Splits
<1>14. HasSecond(s2)
    BY <1>6, <1>11 DEF HasSecond
<1>15. PairIsOfNet(s2) /\ VariablesAreKinded(s2)
    BY <1>2, <1>11 DEF PairIsOfNet, VariablesAreKinded
<1>16. ASSUME NEW any
       PROVE  SelfIsKinded(s2, any)
    BY <1>11, <1>13, <1>15 DEF SelfIsKinded, StackIsKinded
<1>17. RightIsMet(s2, t.left)
    BY <1>4, <1>6, <1>11 DEF RightIsMet
<1> QED
    BY <1>4, <1>6, <1>7, <1>8, <1>9, <1>14, <1>16, <1>17, DisconnectKeepsKinds

LEMMA DisconnectRightKeepsKinds ==
    ASSUME LinearBodies, OnePrincipalPort, KindedRules, IInv, KInv,
           NEW w \in Thread, DisconnectRight(w)
    PROVE  KInv'
<1> PICK s : s = worker[w]
    OBVIOUS
<1> PICK t : t = s.task
    OBVIOUS
<1>0. PICK body : body = Rules[t.rule].body
    OBVIOUS
<1> HIDE <1>0
<1> PICK self : self = [s EXCEPT !.pc = "execute", !.task = NoTask, !.code = body]
    OBVIOUS
<1>1. s.pc = "disconnect right" /\ Disconnect(w, t.right, self)
    BY <1>0 DEF DisconnectRight, At
<1>2. /\ s \in WorkerState /\ Locals(s) /\ VariablesAreKinded(s) /\ s.stack \in Seq(Value)
      /\ SelfIsKinded(s, node[s.node].ctor) /\ HasSecond(s)
    BY WorkerIs, WorkerKinds
<1>3. s.found = NoTask /\ s.node = NULL /\ s.pair = <<>> /\ t # NoTask /\ t \in Task
    BY <1>1, <1>2 DEF Locals, WorkerState
<1>4. t.right \in PrincipalWire /\ t.rule \in DOMAIN Rules
    BY <1>3, TasksAre
<1>5. body \in Seq(Word)
    BY <1>0, <1>4, BodyIs
<1>6. t.right \in Held(s)
    BY <1>1, <1>3 DEF Held
<1>7. principal_wire[t.right].oppsite # NULL
    BY <1>6 DEF IInv, ClaimsHaveMet
<1>8. /\ self \in WorkerState
      /\ self.pc = "execute" /\ self.task = NoTask /\ self.stack = s.stack /\ self.code = body
      /\ self.variables = s.variables /\ self.node = NULL /\ self.pair = <<>>
    BY <1>2, <1>3, <1>5 DEF WorkerState, Label
<1>9. PICK n, exposed, s2 : Disconnected(w, t.right, self, n, exposed, s2)
    BY <1>1, <1>4, <1>7, <1>8, DisconnectIs
<1>10. /\ n = principal_wire[t.right].node /\ exposed = Exposed(n)
       /\ n \in Node /\ node[n].ctor \in DOMAIN Ctor
       /\ \A i \in Port(node[n].ctor) : node[n].values[i] \in Value
       /\ Sole(n, t.right) /\ exposed \in Seq(Value)
    BY <1>9 DEF Disconnected
<1>11. /\ s2.pc = "execute" /\ s2.stack = s.stack \o exposed /\ s2.code = body
       /\ s2.variables = s.variables /\ s2.node = NULL /\ s2.pair = <<>>
    BY <1>8, <1>9 DEF Disconnected
<1>12. PICK first : first = OrdinaryKinds(Rules[t.rule].first)
    OBVIOUS
<1>13. PICK second : second = OrdinaryKinds(Rules[t.rule].second)
    OBVIOUS
<1>14. StackKinds(exposed) = second
    <2>1. StackKinds(exposed) = OrdinaryKinds(node[n].ctor)
        BY <1>4, <1>10, ExposedKinds
    <2>2. Rules[t.rule].second = CtorOf(t.right)
        BY <1>1, <1>2 DEF HasSecond
    <2> QED
        BY <1>10, <1>13, <2>1, <2>2 DEF CtorOf
<1>15. PICK rest \in KindSeq : StackKinds(s.stack) = rest \o first
    BY <1>1, <1>2, <1>12 DEF SelfIsKinded, StackIsKinded, Splits
<1>16. first \in KindSeq /\ second \in KindSeq
    <2>1. Rules[t.rule] \in [first : DOMAIN Ctor, second : DOMAIN Ctor, body : Seq(Word)]
        <3> DEFINE R == [first : DOMAIN Ctor, second : DOMAIN Ctor, body : Seq(Word)]
        <3>1. Rules \in Seq(R)
            BY BodyAssumption
        <3> HIDE DEF R
        <3>2. Rules[t.rule] \in R
            BY <1>4, <3>1
        <3> QED
            BY <3>2 DEF R
    <2>2. Rules[t.rule].first \in DOMAIN Ctor /\ Rules[t.rule].second \in DOMAIN Ctor
        BY <2>1
    <2> QED
        BY <1>12, <1>13, <2>2, OrdinaryKindsAre
<1>17. Executes(s2)
    <2>1. Runs(body, first \o second)
        BY <1>0, <1>4, <1>12, <1>13, Zenon DEF KindedRules, Kinded, Runs
    <2>2. first \o second \in KindSeq /\ (rest \o first) \o second = rest \o (first \o second)
        BY <1>15, <1>16, KindSeqs, Zenon
    <2>3. Runs(body, rest \o (first \o second))
        BY <1>5, <1>15, <2>1, <2>2, RunsAbove
    <2>4. StackKinds(s2.stack) = StackKinds(s.stack) \o StackKinds(exposed)
        BY <1>2, <1>10, <1>11, KindsConcat
    <2>5. StackKinds(s2.stack) = rest \o (first \o second)
        BY <1>14, <1>15, <2>2, <2>4, Zenon
    <2> QED
        BY <1>11, <2>3, <2>5 DEF Executes
<1>18. Executing(s2) /\ VariablesAreKinded(s2)
    BY <1>2, <1>11 DEF Executing, VariablesAreKinded
<1>19. ASSUME NEW any
       PROVE  SelfIsKinded(s2, any) /\ HasSecond(s2)
    BY <1>17, <1>18, ExecutingIsKinded
<1>20. RightIsMet(s2, t.right)
    BY <1>11 DEF RightIsMet
<1> QED
    BY <1>4, <1>6, <1>7, <1>8, <1>9, <1>19, <1>20, DisconnectKeepsKinds

-----------------------------------------------------------------------------
(* Every step.                                                             *)

LEMMA StepKInv ==
    ASSUME Disciplined, IInv, KInv, [Next]_vars
    PROVE  KInv'
<1>1. LinearBodies /\ OnePrincipalPort /\ KindedRules
    BY DEF Disciplined
<1>2. CASE Run \/ RunEnd \/ UNCHANGED vars
    BY <1>2, RunKeepsKinds
<1>3. ASSUME NEW w \in Thread, WorkerStep(w)
      PROVE  KInv'
    <2>1. CASE TakeTask(w)
        BY <2>1, TakeTaskKeepsKinds
    <2>2. CASE DisconnectLeft(w)
        BY <1>1, <2>2, DisconnectLeftKeepsKinds
    <2>3. CASE DisconnectRight(w)
        BY <1>1, <2>3, DisconnectRightKeepsKinds
    <2>4. CASE EndRule(w)
        BY <2>4, EndRuleKeepsKinds
    <2>5. CASE AddTask(w)
        BY <2>5, AddTaskKeepsKinds
    <2>6. CASE Literal(w)
        BY <2>6, LiteralKeepsKinds
    <2>7. CASE GetVariable(w)
        BY <2>7, GetVariableKeepsKinds
    <2>8. CASE SetVariable(w)
        BY <2>8, SetVariableKeepsKinds
    <2>9. CASE Link(w)
        BY <2>9, LinkKeepsKinds
    <2>10. CASE ConnectWord(w)
        BY <2>10, ConnectWordKeepsKinds
    <2>11. CASE NewNode(w)
        BY <2>11, NewNodeKeepsKinds
    <2>12. CASE ReconnectInput(w)
        BY <2>12, ReconnectInputKeepsKinds
    <2>13. CASE InputsDone(w)
        BY <2>13, InputsDoneKeepsKinds
    <2>14. CASE ReconnectOutput(w)
        BY <2>14, ReconnectOutputKeepsKinds
    <2>15. CASE Unlock(w)
        BY <2>15, UnlockKeepsKinds
    <2>16. CASE FuzeWire(w)
        BY <2>16, FuzeWireKeepsKinds
    <2>17. CASE ConnectActivePair(w)
        BY <2>17, ConnectActivePairKeepsKinds
    <2>18. CASE ConnectFails(w)
        BY <2>18, ConnectDoesNotFail
    <2> QED
        BY <1>3, <2>1, <2>2, <2>3, <2>4, <2>5, <2>6, <2>7, <2>8, <2>9, <2>10, <2>11, <2>12, <2>13,
           <2>14, <2>15, <2>16, <2>17, <2>18 DEF WorkerStep
<1> QED
    BY <1>2, <1>3 DEF Next

LEMMA InitKInv ==
    ASSUME Disciplined, Init
    PROVE  KInv
<1>1. /\ node = [n \in Node |-> CleanNode] /\ wire = [x \in Wire |-> FREE]
      /\ worker = [w \in Thread |-> IF w = Loader
                                   THEN [Idle EXCEPT !.pc = "execute", !.code = program]
                                   ELSE Idle]
    BY DEF Init
<1>2. WiresAreKinded /\ PortsAreKinded
    BY <1>1, NumberAssumption DEF WiresAreKinded, PortsAreKinded, CleanNode
<1>3. Runs(program, StackKinds(<<>>))
    <2>1. StackKinds(<<>>) = <<>>
        BY DEF StackKinds
    <2> QED
        BY <2>1 DEF Disciplined, Kinded, Runs
<1>4. ASSUME NEW w \in Thread
      PROVE  WorkerIsKinded(w)
    <2> PICK s : s = worker[w]
        OBVIOUS
    <2>1. /\ s.pc = (IF w = Loader THEN "execute" ELSE "idle")
          /\ s.code = (IF w = Loader THEN program ELSE <<>>)
          /\ s.stack = <<>> /\ s.pair = <<>> /\ s.node = NULL
          /\ s.variables = [x \in Variable |-> NULL]
        BY <1>1 DEF Idle
    <2>2. VariablesAreKinded(s) /\ PairIsOfNet(s)
        BY <2>1 DEF VariablesAreKinded, PairIsOfNet
    <2>3. s.pc = "execute" => Executes(s)
        BY <1>3, <2>1 DEF Executes
    <2> QED
        BY <2>1, <2>2, <2>3 DEF WorkerIsKinded, SelfIsKinded, StackIsKinded, HasSecond
<1> QED
    BY <1>2, <1>4 DEF KInv

LEMMA ProgramStays ==
    ASSUME [Next]_vars
    PROVE  program' = program
<1>1. ASSUME NEW w \in Thread, WorkerStep(w)
      PROVE  program' = program
    <2>1. CASE TakeTask(w) \/ DisconnectLeft(w) \/ DisconnectRight(w) \/ EndRule(w) \/ AddTask(w)
        BY <2>1 DEF TakeTask, DisconnectLeft, DisconnectRight, Disconnect, EndRule, AddTask
    <2>2. CASE Literal(w) \/ GetVariable(w) \/ SetVariable(w) \/ Link(w) \/ ConnectWord(w) \/ NewNode(w)
        BY <2>2 DEF Literal, GetVariable, SetVariable, Link, ConnectWord, NewNode
    <2>3. CASE ReconnectInput(w) \/ InputsDone(w) \/ ReconnectOutput(w) \/ Unlock(w)
        BY <2>3 DEF ReconnectInput, InputsDone, ReconnectOutput, Unlock
    <2>4. CASE FuzeWire(w) \/ ConnectActivePair(w) \/ ConnectFails(w)
        BY <2>4 DEF FuzeWire, ConnectActivePair, ConnectFails
    <2> QED
        BY <1>1, <2>1, <2>2, <2>3, <2>4 DEF WorkerStep
<1> QED
    BY <1>1 DEF Next, Run, RunEnd, vars

\* In a program that observes the discipline no assert of connect and none of
\* worker_reconnect_node fails: in whatever order workers fuse wires and rebuild
\* nodes, connect is never given a number.
THEOREM AssertionsHold == Spec => []DisciplinedProgramsDoNotFail
<1> DEFINE J == Disciplined => IInv /\ KInv
<1>1. Init => J
    <2> SUFFICES ASSUME Init, Disciplined
                 PROVE  IInv /\ KInv
        OBVIOUS
    <2>1. LinearBodies
        BY DEF Disciplined
    <2> QED
        BY <2>1, InitIInv, InitKInv
<1>2. J /\ [Next]_vars => J'
    <2> SUFFICES ASSUME J, [Next]_vars, Disciplined'
                 PROVE  IInv' /\ KInv'
        OBVIOUS
    <2>1. Disciplined
        BY ProgramStays DEF Disciplined
    <2>2. LinearBodies /\ OnePrincipalPort
        BY <2>1 DEF Disciplined
    <2> QED
        BY <2>1, <2>2, StepIInv, StepKInv
<1>3. J => DisciplinedProgramsDoNotFail
    BY DEF DisciplinedProgramsDoNotFail, NoAssertionFails, At, KInv, WorkerIsKinded, SelfIsKinded
<1> HIDE DEF J
<1> QED
    BY <1>1, <1>2, <1>3, PTL DEF Spec

=============================================================================
