---------------------------- MODULE InetRuntime ----------------------------
(***************************************************************************)
(* The parallel reduction of an interaction net: nodes, wires and          *)
(* principal wires in a shared heap, and the workers that handle active    *)
(* pairs and rebuild the net with the body of the matching rule            *)
(* (core/connect.c, core/worker_reconnect_node.c,                          *)
(* core/worker_disconnect_node.c, core/worker_handle_task.c, net/node.c,   *)
(* net/wire.c, net/principal_wire.c).                                      *)
(*                                                                         *)
(* The Loader first executes the top-level words, alone; `run` then lets   *)
(* the workers reduce.  Scheduling is that of TaskPool, which Scheduler    *)
(* implements: any idle worker may take any waiting task.  One access to   *)
(* memory that another worker may touch is one step: the compare-and-swap  *)
(* on a wire, the acquisition of a node's mutex, the push of a task.       *)
(* A node's values are only read and written under its mutex, so           *)
(* disconnecting a node is one step of the worker that gets the mutex,     *)
(* while reconnecting one is many, since it publishes the node's principal *)
(* wire before the node is complete.                                       *)
(***************************************************************************)
EXTENDS Integers, Sequences, FiniteSets

CONSTANTS
    Worker,         \* the scheduler's workers
    Loader,         \* the worker that executes the top-level words
    Ctor,           \* name -> [input_arity, output_arity, principal (ports)]
    Rules,          \* sequence of [first, second, body], in definition order
    Programs,       \* sequences of top-level words that may come before `run`
    Variable,       \* names of local variables
    Number,         \* the values that are no wires: ints, floats, booleans
    NodeMaxArity,   \* NODE_MAX_ARITY
    MaxNodes, MaxWires, MaxPrincipalWires   \* bounds of the heap

VARIABLES
    node,           \* Node -> [ctor, values]
    mutex,          \* Node -> the worker that holds it, or NULL
    wire,           \* Wire -> atomic_fuzed_value, or FREE
    principal_wire, \* PrincipalWire -> [node, index, oppsite], or Freed
    task_pool,      \* the tasks that wait
    worker,         \* worker -> its stacks and the locals of its C functions
    phase,          \* "load", "run" or "done"
    interactions,   \* history: how many tasks were handled
    program         \* history: the top-level words the Loader was given

heap == <<node, mutex, wire, principal_wire>>
vars == <<heap, task_pool, worker, phase, interactions, program>>

NULL == 0
FREE == -1

Node == 1 .. MaxNodes
Wire == 1 .. MaxWires
PrincipalWire == MaxWires + 1 .. MaxWires + MaxPrincipalWires
End == Wire \union PrincipalWire
Value == End \union Number
Thread == Worker \union {Loader}

Arity(c) == Ctor[c].input_arity + Ctor[c].output_arity
Port(c) == 0 .. Arity(c) - 1
Index == 0 .. NodeMaxArity - 1

\* Words of a body, compiled: numbers are pushed, values go through variables
\* and constructors.
Word == [op : {"get", "set"}, arg : Variable] \union [op : {"node"}, arg : DOMAIN Ctor]
            \union [op : {"link", "connect"}, arg : {""}] \union [op : {"literal"}, arg : Number]

\* The local variables whose value the rest of a body still gets.
Awaited(code) ==
    {x \in Variable : \E i \in DOMAIN code :
        /\ code[i] = [op |-> "get", arg |-> x]
        /\ \A j \in 1 .. i - 1 : code[j] # [op |-> "set", arg |-> x]}

ASSUME HeapAssumption ==
    /\ MaxNodes \in Nat /\ MaxWires \in Nat /\ MaxPrincipalWires \in Nat
    /\ NULL \notin Thread

\* A tagged word is no address of an object.
ASSUME NumberAssumption == Number \intersect (End \union {NULL, FREE}) = {}

ASSUME CtorAssumption ==
    /\ "none" \notin DOMAIN Ctor
    /\ \A c \in DOMAIN Ctor :
        /\ Ctor[c] \in [input_arity : Nat, output_arity : Nat, principal : SUBSET Nat]
        /\ Ctor[c].principal \subseteq Port(c)
        /\ Arity(c) <= NodeMaxArity
    /\ NodeMaxArity \in Nat

Bodies == Programs \union {Rules[r].body : r \in DOMAIN Rules}

\* A variable is set before it is got: compile_one takes a name for a local
\* variable only behind its binding.
ASSUME BodyAssumption ==
    /\ Rules \in Seq([first : DOMAIN Ctor, second : DOMAIN Ctor, body : Seq(Word)])
    /\ Programs \subseteq Seq(Word)
    /\ \A body \in Bodies : Awaited(body) = {}

\* What a program has to observe, since nothing enforces it: what is put into a
\* variable is got from it once, and a node has at most one principal port.
Linear(code) ==
    \A i \in DOMAIN code : code[i].op \in {"get", "set"} =>
        (code[i].arg \in Awaited(SubSeq(code, i + 1, Len(code))) <=> code[i].op = "set")

LinearBodies == \A body \in Bodies : Linear(body)
OnePrincipalPort == \A c \in DOMAIN Ctor : \A i, j \in Ctor[c].principal : i = j

Task == [left : PrincipalWire, right : PrincipalWire, rule : DOMAIN Rules]
NoTask == [left |-> NULL, right |-> NULL, rule |-> NULL]

is_wire(v) == v \in Wire
is_principal_wire(v) == v \in PrincipalWire

\* node_clean: no constructor, every value NULL.
CleanNode == [ctor |-> "none", values |-> [i \in Index |-> NULL]]

\* A principal wire that is not allocated.
Freed == [node |-> NULL, index |-> 0, oppsite |-> NULL]

\* malloc and the node allocator, as far as the net can tell: some object that
\* is not in use.  Names of objects are interchangeable, so the first one will
\* do; that a freed object is reused at once is the hard case.
First(S) == CHOOSE x \in S : \A y \in S : x <= y
FreeNodes == {n \in Node : node[n].ctor = "none"}
FreeWires == {x \in Wire : wire[x] = FREE}
FreePrincipalWires == {p \in PrincipalWire : principal_wire[p] = Freed}

-----------------------------------------------------------------------------
Idle == [pc |-> "idle", task |-> NoTask, stack |-> <<>>, code |-> <<>>,
         variables |-> [x \in Variable |-> NULL], node |-> NULL, port |-> 0,
         pair |-> <<>>, found |-> NoTask]

Init ==
    /\ node = [n \in Node |-> CleanNode]
    /\ mutex = [n \in Node |-> NULL]
    /\ wire = [x \in Wire |-> FREE]
    /\ principal_wire = [p \in PrincipalWire |-> Freed]
    /\ task_pool = {}
    /\ program \in Programs
    /\ worker = [w \in Thread |->
                    IF w = Loader THEN [Idle EXCEPT !.pc = "execute", !.code = program]
                                  ELSE Idle]
    /\ phase = "load"
    /\ interactions = 0

\* The step changes w's own state to `self`, and nothing of another worker.
Become(w, self) == worker' = [worker EXCEPT ![w] = self]

At(w, label) == worker[w].pc = label

Top(s) == s[Len(s)]
Pop(s) == SubSeq(s, 1, Len(s) - 1)

-----------------------------------------------------------------------------
(* Tasks.                                                                  *)

TakeTask(w) ==
    /\ phase = "run"
    /\ w # Loader
    /\ At(w, "idle")
    /\ \E t \in task_pool :
        /\ task_pool' = task_pool \ {t}
        /\ Become(w, [worker[w] EXCEPT !.pc = "disconnect left", !.task = t])
    /\ UNCHANGED <<heap, phase, interactions, program>>

\* Values of a node's ports in port order, without its principal wires.
Exposed(n) ==
    LET ports == {i \in Port(node[n].ctor) : ~is_principal_wire(node[n].values[i])}
        port(k) == CHOOSE i \in ports : Cardinality({j \in ports : j < i}) = k - 1
    IN  [k \in 1 .. Cardinality(ports) |-> node[n].values[port(k)]]

\* Fault: the mutex is not waited for.
MayLock_Always(n) == TRUE

MayLock(n) == mutex[n] = NULL

\* Faults: the mutex is not taken; it is not given back.
SetMutex_Never(n, holder) == UNCHANGED mutex
SetMutex_Keeps(n, holder) == mutex' = [mutex EXCEPT ![n] = IF holder = NULL THEN @ ELSE holder]

\* mutex_lock by `holder`, or mutex_unlock when that is NULL.
SetMutex(n, holder) == mutex' = [mutex EXCEPT ![n] = holder]

\* worker_disconnect_node, from mutex_lock to the recycling of the node: the
\* principal wires of the node are freed, its other values pushed.
Disconnect(w, p, self) ==
    LET n == principal_wire[p].node
        own == {node[n].values[i] : i \in Port(node[n].ctor)} \intersect PrincipalWire
    IN  /\ MayLock(n)
        /\ principal_wire' = [q \in PrincipalWire |->
                                IF q \in own THEN Freed ELSE principal_wire[q]]
        /\ node' = [node EXCEPT ![n] = CleanNode]
        /\ Become(w, [self EXCEPT !.stack = @ \o Exposed(n)])
        /\ UNCHANGED <<mutex, wire, task_pool, phase, interactions, program>>

DisconnectLeft(w) ==
    /\ At(w, "disconnect left")
    /\ Disconnect(w, worker[w].task.left,
                  [worker[w] EXCEPT !.pc = "disconnect right"])

\* After the right node the task is freed and the rule's frame pushed.
DisconnectRight(w) ==
    /\ At(w, "disconnect right")
    /\ Disconnect(w, worker[w].task.right,
                  [worker[w] EXCEPT !.pc = "execute", !.task = NoTask,
                                    !.code = Rules[worker[w].task.rule].body])

\* worker_run_until is back: the frame with its variables is freed.
EndRule(w) ==
    /\ w # Loader
    /\ At(w, "execute")
    /\ worker[w].code = <<>>
    /\ Become(w, [Idle EXCEPT !.stack = worker[w].stack])
    /\ interactions' = interactions + 1
    /\ UNCHANGED <<heap, task_pool, phase, program>>

\* worker_add_task, after the node's mutex was released.
AddTask(w) ==
    /\ At(w, "add task")
    /\ task_pool' = task_pool \union {worker[w].found}
    /\ Become(w, [worker[w] EXCEPT !.pc = "execute", !.found = NoTask])
    /\ UNCHANGED <<heap, phase, interactions, program>>

-----------------------------------------------------------------------------
(* Words of a body.                                                        *)

\* The worker's next opcode, fetched.
Fetch(w, op) ==
    /\ At(w, "execute")
    /\ worker[w].code # <<>>
    /\ Head(worker[w].code).op = op

Fetched(w) == [worker[w] EXCEPT !.code = Tail(@)]

Argument(w) == Head(worker[w].code).arg

Literal(w) ==
    /\ Fetch(w, "literal")
    /\ Become(w, [Fetched(w) EXCEPT !.stack = Append(@, Argument(w))])
    /\ UNCHANGED <<heap, task_pool, phase, interactions, program>>

GetVariable(w) ==
    /\ Fetch(w, "get")
    /\ Become(w, [Fetched(w) EXCEPT
                    !.stack = Append(@, worker[w].variables[Argument(w)])])
    /\ UNCHANGED <<heap, task_pool, phase, interactions, program>>

SetVariable(w) ==
    /\ Fetch(w, "set")
    /\ worker[w].stack # <<>>
    /\ Become(w, [Fetched(w) EXCEPT
                    !.stack = Pop(@), !.variables[Argument(w)] = Top(worker[w].stack)])
    /\ UNCHANGED <<heap, task_pool, phase, interactions, program>>

\* x_link: a wire, twice.
Link(w) ==
    LET x == First(FreeWires)
    IN  /\ Fetch(w, "link")
        /\ FreeWires # {}
        /\ wire' = [wire EXCEPT ![x] = NULL]
        /\ Become(w, [Fetched(w) EXCEPT !.stack = @ \o <<x, x>>])
        /\ UNCHANGED <<node, mutex, principal_wire, task_pool, phase, interactions, program>>

\* x_connect: both operands are popped, then connected.
ConnectWord(w) ==
    LET s == worker[w].stack
    IN  /\ Fetch(w, "connect")
        /\ Len(s) >= 2
        /\ Become(w, [Fetched(w) EXCEPT
                        !.pc = "connect", !.stack = Pop(Pop(s)),
                        !.pair = <<Top(Pop(s)), Top(s)>>])
        /\ UNCHANGED <<heap, task_pool, phase, interactions, program>>

\* worker_apply of a constructor: worker_new_node, then worker_reconnect_node
\* as far as mutex_lock.  `port` counts the input ports still to be filled.
NewNode(w) ==
    LET n == First(FreeNodes)
    IN  /\ Fetch(w, "node")
        /\ FreeNodes # {}
        /\ MayLock(n)
        /\ SetMutex(n, w)
        /\ node' = [node EXCEPT ![n].ctor = Argument(w)]
        /\ Become(w, [Fetched(w) EXCEPT
                        !.pc = "input", !.node = n,
                        !.port = Ctor[Argument(w)].input_arity])
        /\ UNCHANGED <<wire, principal_wire, task_pool, phase, interactions, program>>

-----------------------------------------------------------------------------
(* worker_reconnect_node, under the mutex of the node.                     *)

\* Fault: every input port passes for principal.
IsPrincipal_EveryInput(n, i) ==
    i < Ctor[node[n].ctor].input_arity \/ i \in Ctor[node[n].ctor].principal

IsPrincipal(n, i) == i \in Ctor[node[n].ctor].principal

\* principal_wire_new or wire_new, for port i of n.
NewEnd(n, i) ==
    IF IsPrincipal(n, i) THEN First(FreePrincipalWires) ELSE First(FreeWires)

MakeEnd(n, i, end) ==
    /\ node' = [node EXCEPT ![n].values[i] = end]
    /\ \/ /\ IsPrincipal(n, i)
          /\ FreePrincipalWires # {}
          /\ principal_wire' = [principal_wire EXCEPT ![end] =
                                  [node |-> n, index |-> i, oppsite |-> NULL]]
          /\ UNCHANGED wire
       \/ /\ ~IsPrincipal(n, i)
          /\ FreeWires # {}
          /\ wire' = [wire EXCEPT ![end] = NULL]
          /\ UNCHANGED principal_wire

\* Fault: the first input port takes the top of the stack.
InputPort_First(w) == Ctor[node[worker[w].node].ctor].input_arity - worker[w].port

InputPort(w) == worker[w].port - 1

\* reconnect_input: the last input port takes the top of the stack.  A new
\* wire or principal wire is still to be connected with that value.
ReconnectInput(w) ==
    LET n == worker[w].node
        i == InputPort(w)
        value == Top(worker[w].stack)
        self == [worker[w] EXCEPT !.stack = Pop(@), !.port = @ - 1]
    IN  /\ At(w, "input")
        /\ worker[w].port > 0
        /\ worker[w].stack # <<>>
        /\ \/ /\ IsPrincipal(n, i) \/ is_principal_wire(value)
              /\ MakeEnd(n, i, NewEnd(n, i))
              /\ Become(w, [self EXCEPT !.pc = "connect", !.pair = <<NewEnd(n, i), value>>])
           \/ /\ ~IsPrincipal(n, i) /\ ~is_principal_wire(value)
              /\ node' = [node EXCEPT ![n].values[i] = value]
              /\ Become(w, self)
              /\ UNCHANGED <<wire, principal_wire>>
        /\ UNCHANGED <<mutex, task_pool, phase, interactions, program>>

\* The input ports are filled: on with the first output port.
InputsDone(w) ==
    /\ At(w, "input")
    /\ worker[w].port = 0
    /\ Become(w, [worker[w] EXCEPT
                    !.pc = "output",
                    !.port = Ctor[node[worker[w].node].ctor].input_arity])
    /\ UNCHANGED <<heap, task_pool, phase, interactions, program>>

\* reconnect_output: the fresh wire of the port is also pushed.
ReconnectOutput(w) ==
    LET n == worker[w].node
        i == worker[w].port
    IN  /\ At(w, "output")
        /\ i < Arity(node[n].ctor)
        /\ MakeEnd(n, i, NewEnd(n, i))
        /\ Become(w, [worker[w] EXCEPT !.stack = Append(@, NewEnd(n, i)), !.port = i + 1])
        /\ UNCHANGED <<mutex, task_pool, phase, interactions, program>>

\* mutex_unlock; a found task is added after that.
Unlock(w) ==
    LET n == worker[w].node
    IN  /\ At(w, "output")
        /\ worker[w].port = Arity(node[n].ctor)
        /\ SetMutex(n, NULL)
        /\ Become(w, [worker[w] EXCEPT
                        !.pc = IF worker[w].found = NoTask THEN "execute" ELSE "add task",
                        !.node = NULL, !.port = 0])
        /\ UNCHANGED <<node, wire, principal_wire, task_pool, phase, interactions, program>>

-----------------------------------------------------------------------------
(* connect, one compare-and-swap a step, on worker[w].pair.                *)

\* connect returns `t` to its caller: x_connect adds it, and the port loop of
\* worker_reconnect_node keeps it, asserting that it has found none before.
Return(w, t) ==
    LET self == [worker[w] EXCEPT !.pair = <<>>,
                                  !.found = IF t = NoTask THEN @ ELSE t]
        next == IF worker[w].node = NULL
                THEN IF t = NoTask THEN "execute" ELSE "add task"
                ELSE IF t # NoTask /\ worker[w].found # NoTask
                THEN "assertion failed" ELSE "input"
    IN  Become(w, [self EXCEPT !.pc = next])

\* Fault: the wire stays allocated.
Destroyed_Leaks(x) == wire

\* wire_destroy
Destroyed(x) == [wire EXCEPT ![x] = FREE]

\* fuze(x, value): the first of the two ends of x to get here leaves its value
\* in x, the second finds it there, frees x and connects the two values.
Fuze(w, x, value) ==
    \/ /\ wire[x] = NULL
       /\ wire' = [wire EXCEPT ![x] = value]
       /\ Return(w, NoTask)
    \/ /\ wire[x] # NULL
       /\ wire' = Destroyed(x)
       /\ Become(w, [worker[w] EXCEPT !.pair = <<wire[x], value>>])

FuzeWire(w) ==
    LET left == worker[w].pair[1]
        right == worker[w].pair[2]
    IN  /\ At(w, "connect")
        /\ \/ is_wire(left) /\ Fuze(w, left, right)
           \/ ~is_wire(left) /\ is_wire(right) /\ Fuze(w, right, left)
        /\ UNCHANGED <<node, mutex, principal_wire, task_pool, phase, interactions, program>>

CtorOf(p) == node[principal_wire[p].node].ctor

IsFor(r, left, right) ==
    Rules[r].first = CtorOf(left) /\ Rules[r].second = CtorOf(right)

\* Fault: the two nodes are not put in the order of the rule.
rule_match_Unordered(r, left, right) == [left |-> left, right |-> right, rule |-> r]

\* rule_match of a rule that matches.
rule_match(r, left, right) ==
    IF IsFor(r, left, right) THEN [left |-> left, right |-> right, rule |-> r]
    ELSE [left |-> right, right |-> left, rule |-> r]

\* The search in the rule arrays of both constructors: a rule that matches is
\* in both arrays, in definition order, so it is the first in that order.
TaskOf(left, right) ==
    LET matching == {r \in DOMAIN Rules : IsFor(r, left, right) \/ IsFor(r, right, left)}
    IN  IF matching = {} THEN NoTask ELSE rule_match(First(matching), left, right)

\* Fault: only one of the two principal wires learns its opposite.
Opposite_OneWay(left, right) == [principal_wire EXCEPT ![left].oppsite = right]

Opposite(left, right) ==
    [principal_wire EXCEPT ![left].oppsite = right, ![right].oppsite = left]

ConnectActivePair(w) ==
    LET left == worker[w].pair[1]
        right == worker[w].pair[2]
    IN  /\ At(w, "connect")
        /\ is_principal_wire(left) /\ is_principal_wire(right)
        /\ principal_wire' = Opposite(left, right)
        /\ Return(w, TaskOf(left, right))
        /\ UNCHANGED <<node, mutex, wire, task_pool, phase, interactions, program>>

\* The "impossible case" of connect: what is neither a wire nor a principal wire
\* meets a principal wire, or another such value.  The process aborts; here its
\* worker stops, and the others may still do what they were about to do.
ConnectFails(w) ==
    LET left == worker[w].pair[1]
        right == worker[w].pair[2]
    IN  /\ At(w, "connect")
        /\ ~(is_principal_wire(left) /\ is_principal_wire(right))
        /\ ~is_wire(left) /\ ~is_wire(right)
        /\ Become(w, [worker[w] EXCEPT !.pc = "assertion failed"])
        /\ UNCHANGED <<heap, task_pool, phase, interactions, program>>

-----------------------------------------------------------------------------
(* `run`, called by the Loader after its last word.                        *)

Run ==
    /\ phase = "load"
    /\ At(Loader, "execute")
    /\ worker[Loader].code = <<>>
    /\ phase' = "run"
    /\ UNCHANGED <<heap, task_pool, worker, interactions, program>>

RunEnd ==
    /\ phase = "run"
    /\ task_pool = {}
    /\ \A w \in Worker : At(w, "idle")
    /\ phase' = "done"
    /\ UNCHANGED <<heap, task_pool, worker, interactions, program>>

WorkerStep(w) ==
    \/ TakeTask(w) \/ DisconnectLeft(w) \/ DisconnectRight(w)
    \/ EndRule(w) \/ AddTask(w)
    \/ Literal(w) \/ GetVariable(w) \/ SetVariable(w) \/ Link(w) \/ ConnectWord(w) \/ NewNode(w)
    \/ ReconnectInput(w) \/ InputsDone(w) \/ ReconnectOutput(w) \/ Unlock(w)
    \/ FuzeWire(w) \/ ConnectActivePair(w) \/ ConnectFails(w)

Next == Run \/ RunEnd \/ \E w \in Thread : WorkerStep(w)

Spec == Init /\ [][Next]_vars

FairSpec == Spec /\ WF_vars(Run \/ RunEnd) /\ \A w \in Thread : WF_vars(WorkerStep(w))

-----------------------------------------------------------------------------
(* Properties.                                                             *)

Label == {"idle", "disconnect left", "disconnect right", "execute", "input",
          "output", "connect", "add task", "assertion failed"}

TypeOK ==
    /\ \A n \in Node :
        /\ node[n].ctor \in DOMAIN Ctor \union {"none"}
        /\ \A i \in Index : node[n].values[i] \in Value \union {NULL}
        /\ mutex[n] \in Thread \union {NULL}
    /\ wire \in [Wire -> Value \union {NULL, FREE}]
    /\ \A p \in PrincipalWire :
        \/ principal_wire[p] = Freed
        \/ principal_wire[p] \in [node : Node, index : Nat,
                                  oppsite : PrincipalWire \union {NULL}]
    /\ task_pool \subseteq Task
    /\ \A w \in Thread :
        /\ worker[w].pc \in Label
        /\ worker[w].stack \in Seq(Value)
        /\ worker[w].pair \in {<<>>} \union (Value \X Value)
        /\ worker[w].found \in Task \union {NoTask}
        /\ worker[w].task \in Task \union {NoTask}
    /\ phase \in {"load", "run", "done"}
    /\ interactions \in Nat

\* Where value v is needed: on the stack of w, in the hands of connect, in a
\* variable that is still awaited, in a port, or fused into a wire.
InHand(w, v) ==
    {<<"stack", w, i>> : i \in {j \in DOMAIN worker[w].stack : worker[w].stack[j] = v}}
    \union {<<"pair", w, i>> : i \in {j \in DOMAIN worker[w].pair : worker[w].pair[j] = v}}
    \union {<<"variable", w, x>> : x \in
               {y \in Variable : worker[w].variables[y] = v /\ y \in Awaited(worker[w].code)}}

InNodes(v) ==
    {<<"port", e[1], e[2]>> : e \in {e \in Node \X Index : node[e[1]].values[e[2]] = v}}

InWires(v) == {<<"wire", x, 0>> : x \in {y \in Wire : wire[y] = v}}

References(v) == (UNION {InHand(w, v) : w \in Thread}) \union InNodes(v) \union InWires(v)

\* A wire has two ends until its first end is fused with a value, and one end
\* from then on: the worker that finds the value may free the wire, for nobody
\* else can reach it.  A wire that was freed has no end left, so it is neither
\* used after that nor freed again, and one that has ends is never lost.
\* A principal wire is in its own node's port and in one other place, until it
\* is connected with another principal wire: from then on only the two nodes
\* hold them.  A freed one is nowhere.
WireEnds ==
    /\ \A x \in Wire :
        Cardinality(References(x)) =
            IF wire[x] = FREE THEN 0 ELSE IF wire[x] = NULL THEN 2 ELSE 1
    /\ \A p \in PrincipalWire :
        LET own == principal_wire[p]
        IN  IF own = Freed THEN References(p) = {}
            ELSE /\ node[own.node].values[own.index] = p
                 /\ Cardinality(References(p)) = IF own.oppsite = NULL THEN 2 ELSE 1

\* Whoever gets the mutex of a node finds all its ports filled, although the
\* node's principal wire is published before the others are.
UnlockedNodeIsWhole ==
    \A n \in Node :
        mutex[n] = NULL /\ node[n].ctor # "none" =>
            \A i \in Port(node[n].ctor) : node[n].values[i] # NULL

\* The tasks that wait, were found or are in the hands of a worker that has
\* disconnected none of the two nodes.
LiveTasks ==
    ( task_pool
      \union {worker[w].found : w \in Thread}
      \union {worker[w].task : w \in {v \in Thread : At(v, "disconnect left")}} )
    \ {NoTask}

NodesOf(t) == {principal_wire[t.left].node, principal_wire[t.right].node}

\* A task is an active pair that still stands: its principal wires are live and
\* each other's opposite, its rule is for their constructors in that order, and
\* no node takes part in two tasks.
TasksStand ==
    /\ \A t \in LiveTasks :
        /\ principal_wire[t.left] # Freed /\ principal_wire[t.right] # Freed
        /\ principal_wire[t.left].oppsite = t.right
        /\ principal_wire[t.right].oppsite = t.left
        /\ Rules[t.rule].first = CtorOf(t.left)
        /\ Rules[t.rule].second = CtorOf(t.right)
    /\ \A t, u \in LiveTasks :
        NodesOf(t) \intersect NodesOf(u) # {} => t = u

\* No assert of connect or worker_reconnect_node fails: of the two values that
\* meet in connect one is a wire or both are principal wires, however many wires
\* a number went through before, and the ports of one node find one task.
NoAssertionFails ==
    \A w \in Thread : ~At(w, "assertion failed")

\* The reduction comes to an end, or a failed assertion ends it.
Terminates == <>(phase = "done" \/ ~NoAssertionFails)
=============================================================================
