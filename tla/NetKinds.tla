------------------------------ MODULE NetKinds ------------------------------
(***************************************************************************)
(* A discipline under which no program of InetRuntime fails an assertion.  *)
(* The code has none: a constructor and `connect` take whatever is on the  *)
(* stack, and a number that meets a principal port, or another number,     *)
(* fails in connect.  As in Forth each word takes some values from the     *)
(* stack and gives others back; here every one of them is either a number  *)
(* or a value of the net, and numbers stay in the ports and the variables  *)
(* that are meant for them.                                                *)
(***************************************************************************)
EXTENDS InetRuntime

CONSTANTS
    NumberPort,     \* constructor -> its input ports for numbers
    NumberVariable  \* the local variables for numbers

ASSUME KindAssumption ==
    /\ NumberPort \in [DOMAIN Ctor -> SUBSET Nat]
    /\ \A c \in DOMAIN Ctor :
        NumberPort[c] \subseteq (0 .. Ctor[c].input_arity - 1) \ Ctor[c].principal
    /\ NumberVariable \subseteq Variable

Kind == {"number", "net"}

PortKind(c, i) == IF i \in NumberPort[c] THEN "number" ELSE "net"
VariableKind(x) == IF x \in NumberVariable THEN "number" ELSE "net"

Inputs(c) == [i \in 1 .. Ctor[c].input_arity |-> PortKind(c, i - 1)]
Outputs(c) == [i \in 1 .. Ctor[c].output_arity |-> "net"]

\* What a word takes from the stack, and what it leaves there instead.
Takes(word) ==
    IF word.op = "set" THEN <<VariableKind(word.arg)>>
    ELSE IF word.op = "connect" THEN <<"net", "net">>
    ELSE IF word.op = "node" THEN Inputs(word.arg)
    ELSE <<>>

Gives(word) ==
    IF word.op = "get" THEN <<VariableKind(word.arg)>>
    ELSE IF word.op = "literal" THEN <<"number">>
    ELSE IF word.op = "link" THEN <<"net", "net">>
    ELSE IF word.op = "node" THEN Outputs(word.arg)
    ELSE <<>>

\* The word finds what it takes on top of `before`, and leaves `after`.
Below(word, before) == SubSeq(before, 1, Len(before) - Len(Takes(word)))
Follows(word, before, after) ==
    /\ Len(before) >= Len(Takes(word))
    /\ before = Below(word, before) \o Takes(word)
    /\ after = Below(word, before) \o Gives(word)

\* kinds[i] is what is on the stack after i words of the code.
Kinding(code, before, kinds) ==
    /\ kinds \in [0 .. Len(code) -> Seq(Kind)]
    /\ kinds[0] = before
    /\ \A i \in DOMAIN code : Follows(code[i], kinds[i - 1], kinds[i])

\* The only kinds that there can be.
KindsOf(code, before) ==
    LET kinds[i \in 0 .. Len(code)] ==
            IF i = 0 THEN before
            ELSE Below(code[i], kinds[i - 1]) \o Gives(code[i])
    IN  kinds

Kinded(code, before) == Kinding(code, before, KindsOf(code, before))

\* What disconnecting a node leaves on the stack.
Ordinary(c) == Port(c) \ Ctor[c].principal
OrdinaryKinds(c) ==
    LET port(k) == CHOOSE i \in Ordinary(c) : Cardinality({j \in Ordinary(c) : j < i}) = k - 1
    IN  [k \in 1 .. Cardinality(Ordinary(c)) |-> PortKind(c, port(k))]

\* The body of a rule starts with what was connected to its two nodes, and a
\* program with an empty stack.
KindedRules ==
    \A r \in DOMAIN Rules :
        Kinded(Rules[r].body, OrdinaryKinds(Rules[r].first) \o OrdinaryKinds(Rules[r].second))

Disciplined ==
    LinearBodies /\ OnePrincipalPort /\ KindedRules /\ Kinded(program, <<>>)

\* No assert of connect or worker_reconnect_node fails in a program that observes
\* the discipline: of the two values that meet in connect one is a wire or both
\* are principal wires, through however many ports, variables, rules and wires
\* they came, and the ports of one node find one task.
DisciplinedProgramsDoNotFail == NoAssertionFails \/ ~Disciplined
=============================================================================
