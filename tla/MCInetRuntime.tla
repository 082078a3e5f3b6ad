--------------------------- MODULE MCInetRuntime ---------------------------
(***************************************************************************)
(* Programs of examples/datatypes/ as instances of InetRuntime for TLC.    *)
(***************************************************************************)
EXTENDS Inspection, NetKinds, TLC

CONSTANTS w1, w2, n1, n2

TwoWorkers == {w1, w2}
TwoNumbers == {n1, n2}

literal(n) == [op |-> "literal", arg |-> n]
get(x) == [op |-> "get", arg |-> x]
set(x) == [op |-> "set", arg |-> x]
make(c) == [op |-> "node", arg |-> c]
link == [op |-> "link", arg |-> ""]
connect == [op |-> "connect", arg |-> ""]

Ports(inputs, outputs, principal) ==
    [input_arity |-> inputs, output_arity |-> outputs, principal |-> principal]

\* define-node zero -- value! end
\* define-node add1 prev -- value! end
\* define-node add target! addend -- result end
\* define-node nat-erase target! -- end
\* define-node nat-dup target! -- first second end
\* define-node mul target! mulend -- result end
NatCtor ==
    [zero  |-> Ports(0, 1, {0}),
     add1  |-> Ports(1, 1, {1}),
     add   |-> Ports(2, 1, {0}),
     erase |-> Ports(1, 0, {0}),
     dup   |-> Ports(1, 2, {0}),
     mul   |-> Ports(2, 1, {0})]

DefineRule(first, second, body) == [first |-> first, second |-> second, body |-> body]

\* ( addend result ) addend result connect
ZeroAdd == DefineRule("zero", "add",
    <<set("result"), set("addend"), get("addend"), get("result"), connect>>)

\* ( addend result ) ( prev ) prev addend add  add1 result connect
Add1Add == DefineRule("add1", "add",
    <<set("result"), set("addend"), set("prev"),
      get("prev"), get("addend"), make("add"), make("add1"), get("result"), connect>>)

ZeroErase == DefineRule("zero", "erase", <<>>)

\* ( prev ) prev nat-erase
Add1Erase == DefineRule("add1", "erase", <<set("prev"), get("prev"), make("erase")>>)

\* ( first second ) zero first connect  zero second connect
ZeroDup == DefineRule("zero", "dup",
    <<set("second"), set("first"),
      make("zero"), get("first"), connect, make("zero"), get("second"), connect>>)

\* ( first second ) ( prev ) prev nat-dup ( prev-first prev-second )
\* prev-second add1 second connect  prev-first add1 first connect
Add1Dup == DefineRule("add1", "dup",
    <<set("second"), set("first"), set("prev"),
      get("prev"), make("dup"), set("prev-second"), set("prev-first"),
      get("prev-second"), make("add1"), get("second"), connect,
      get("prev-first"), make("add1"), get("first"), connect>>)

\* ( mulend result ) mulend nat-erase  zero result connect
ZeroMul == DefineRule("zero", "mul",
    <<set("result"), set("mulend"),
      get("mulend"), make("erase"), make("zero"), get("result"), connect>>)

\* ( mulend result ) ( prev ) mulend nat-dup ( mulend-first mulend-second )
\* prev mulend-second swap mul  mulend-first add result connect
\* (`prev mulend-second swap` is written `mulend-second prev`.)
Add1Mul == DefineRule("add1", "mul",
    <<set("result"), set("mulend"), set("prev"),
      get("mulend"), make("dup"), set("mulend-second"), set("mulend-first"),
      get("mulend-second"), get("prev"), make("mul"),
      get("mulend-first"), make("add"), get("result"), connect>>)

NatRules == <<ZeroAdd, Add1Add, ZeroErase, Add1Erase, ZeroDup, Add1Dup, ZeroMul, Add1Mul>>

NatVariable == {"addend", "result", "prev", "first", "second", "prev-first",
                "prev-second", "mulend", "mulend-first", "mulend-second"}

\* zero add1 zero add zero add : the outer `add` meets what the inner one has
\* produced so far.
AddChain == <<make("zero"), make("add1"), make("zero"), make("add"),
              make("zero"), make("add")>>

\* zero add1 zero mul
Mul == <<make("zero"), make("add1"), make("zero"), make("mul")>>

\* zero add1 1 add : a number where a net is expected goes through ports and
\* wires like any other value, as long as it meets wires only.
AddNumber == <<make("zero"), make("add1"), literal(n1), make("add")>>

\* 1 zero add : the number meets the principal port of add.
AddToNumber == <<literal(n1), make("zero"), make("add")>>

-----------------------------------------------------------------------------
\* define-node null -- value! end
\* define-node cons tail head -- value! end
\* define-node append target! rest -- result end
ListCtor ==
    [null   |-> Ports(0, 1, {0}),
     cons   |-> Ports(2, 1, {2}),
     append |-> Ports(2, 1, {0})]

\* ( rest result ) rest result connect
NullAppend == DefineRule("null", "append",
    <<set("result"), set("rest"), get("rest"), get("result"), connect>>)

\* ( rest result ) ( tail head ) tail rest append  head cons result connect
ConsAppend == DefineRule("cons", "append",
    <<set("result"), set("rest"), set("head"), set("tail"),
      get("tail"), get("rest"), make("append"),
      get("head"), make("cons"), get("result"), connect>>)

ListRules == <<NullAppend, ConsAppend>>

\* null 1 cons null 2 cons append
ListAppend == <<make("null"), literal(n1), make("cons"),
                make("null"), literal(n2), make("cons"), make("append")>>

-----------------------------------------------------------------------------
\* define-node diff front -- back value! end
\* define-node diff-append target! rest -- result end
\* define-node diff-open new-back target! -- old-back end
DiffCtor ==
    [diff        |-> Ports(1, 2, {2}),
     diff_append |-> Ports(2, 1, {0}),
     diff_open   |-> Ports(2, 1, {1})]

\* ( rest result ) ( front back )
\* front diff result connect  rest diff-open back connect
DiffAppend == DefineRule("diff", "diff_append",
    <<set("result"), set("rest"), set("back"), set("front"),
      get("front"), make("diff"), get("result"), connect,
      get("rest"), make("diff_open"), get("back"), connect>>)

\* ( new-back old-back ) ( front back )
\* back new-back connect  front old-back connect
DiffOpen == DefineRule("diff", "diff_open",
    <<set("old-back"), set("new-back"), set("back"), set("front"),
      get("back"), get("new-back"), connect, get("front"), get("old-back"), connect>>)

DiffRules == <<DiffAppend, DiffOpen>>

\* link ( front front-op ) front diff ( back value )
\* back n cons front-op connect value
DiffListOf(n) ==
    <<link, set("front-op"), set("front"),
      get("front"), make("diff"), set("value"), set("back"),
      get("back"), literal(n), make("cons"), get("front-op"), connect, get("value")>>

\* Two lists of one number each, and diff-append.
DiffList == DiffListOf(n1) \o DiffListOf(n2) \o <<make("diff_append")>>

ListVariable == {"result", "rest", "tail", "head", "back", "front", "old-back",
                 "new-back", "front-op", "value"}

-----------------------------------------------------------------------------
Datatypes == NatCtor @@ ListCtor @@ DiffCtor
DatatypesRules == NatRules \o ListRules \o DiffRules
DatatypesVariable == NatVariable \union ListVariable
DatatypesPrograms == {AddChain, Mul, AddNumber, AddToNumber, ListAppend, DiffList}

\* A list's elements are numbers.
DatatypesNumberPort == [c \in DOMAIN Datatypes |-> IF c = "cons" THEN {1} ELSE {}]

\* These programs observe what the proofs about InetRuntime ask of a program.
ASSUME ProgramsAreLinear == LinearBodies
ASSUME DatatypesHaveOnePrincipalPort ==
    \A c \in DOMAIN Datatypes : \A i, j \in Datatypes[c].principal : i = j

\* All but two observe the discipline of NetKinds: AddNumber, which fares well
\* with these rules nevertheless, and AddToNumber.
ASSUME ProgramsAreKinded ==
    /\ KindedRules
    /\ \A p \in Programs : Kinded(p, <<>>) <=> p \notin {AddNumber, AddToNumber}

\* The constructor that v leads to, and what is connected to one of its ports.
CtorAt(v) == IF is_principal_wire(walk[v]) THEN CtorOf(walk[v]) ELSE "none"
PortAt(v, i) == node[principal_wire[walk[v]].node].values[i]

\* How many c's there are, one in the first port of the other, from v on, and
\* what comes after them.
RECURSIVE Count(_, _), After(_, _)
Count(c, v) == IF CtorAt(v) = c THEN 1 + Count(c, PortAt(v, 0)) ELSE 0
After(c, v) == IF CtorAt(v) = c THEN After(c, PortAt(v, 0)) ELSE walk[v]

NodesLeft == Cardinality(Node \ FreeNodes)

IsNatural(v, n) ==
    /\ Count("add1", v) = n
    /\ CtorAt(After("add1", v)) = "zero"
    /\ NodesLeft = n + 1

IsAddedTo(v, n, number) ==
    /\ Count("add1", v) = n
    /\ After("add1", v) = number
    /\ NodesLeft = n

\* A list of these two numbers from v on.
HoldsBoth(v, first, second) ==
    /\ Count("cons", v) = 2
    /\ walk[PortAt(v, 1)] = first
    /\ walk[PortAt(PortAt(v, 0), 1)] = second

IsList(v, first, second) ==
    /\ HoldsBoth(v, first, second)
    /\ CtorAt(After("cons", v)) = "null"
    /\ NodesLeft = 3

IsDiffList(v, first, second) ==
    /\ CtorAt(v) = "diff"
    /\ HoldsBoth(PortAt(v, 0), first, second)
    /\ After("cons", PortAt(v, 0)) = walk[PortAt(v, 1)]
    /\ NodesLeft = 3

\* Whatever the workers' interleaving, the net that is left is the value that
\* the program stands for and nothing else, and it took the same number of
\* interactions to get there: 0 + (0 + 1) = 1, 1 * 0 = 0, 1 + n1 is one add1 on
\* n1, and two lists of one number each make one of both.
UniqueResult ==
    phase = "done" =>
        LET v == Top(worker[Loader].stack)
        IN  /\ Len(worker[Loader].stack) = 1
            /\ \/ program = AddChain /\ IsNatural(v, 1) /\ interactions = 4
               \/ program = Mul /\ IsNatural(v, 0) /\ interactions = 5
               \/ program = AddNumber /\ IsAddedTo(v, 1, n1) /\ interactions = 2
               \/ program = ListAppend /\ IsList(v, n1, n2) /\ interactions = 2
               \/ program = DiffList /\ IsDiffList(v, n1, n2) /\ interactions = 2

-----------------------------------------------------------------------------
\* A constructor with two principal ports, which define-node accepts:
\* define-node zero -- value! end
\* define-node both left! right! -- end
\* define-rule zero both end
BothCtor == [zero |-> Ports(0, 1, {0}), both |-> Ports(2, 0, {0, 1})]
BothNumberPort == [c \in DOMAIN BothCtor |-> {}]
BothRules == <<DefineRule("zero", "both", <<>>)>>

\* zero zero both
BothPrograms == {<<make("zero"), make("zero"), make("both")>>}
=============================================================================
