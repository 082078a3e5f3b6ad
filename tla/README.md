# inet-forth in TLA+

inet-forth is an implementation of interaction nets as a Forth-like language,
in C. A program defines constructors of nodes (`define-node`), rules for pairs
of nodes whose principal ports are connected (`define-rule`), and builds a net
with top-level words; the word `run` reduces the net on all processors. This
directory holds TLA+ models of the program's core, TLC configurations that
check them, and proofs that TLAPS checks.

Paths below are relative to `src/src/` unless they begin with `docs/`,
`examples/` or `packages/` (`src/src/packages/std/`).

## 1. The system

### Components

| component | code | state | operations |
|---|---|---|---|
| scheduler | `core/worker_work_parallelly.c`, `core/scheduler.c`, `core/worker_add_task.c` | one deque per worker, the shared `atomic_task_count`, a victim cursor per worker | deal the caller's tasks, start, pop, steal, handle, count, wait, destroy |
| net reduction | `core/connect.c`, `core/worker_reconnect_node.c`, `core/worker_disconnect_node.c`, `core/worker_handle_task.c`, `net/*.c` | nodes with a mutex, wires with an atomic `fuzed_value`, principal wires with an opposite, tasks | `connect` (fuse or make an active pair), reconnect a new node, disconnect the two nodes of a task, run the rule's body |
| node allocator | `net/node_allocator.c`, `packages/allocator/allocator.c`, `core/worker.c` | a shared stack of free nodes under a mutex, a private stack in each worker, `node_array` | allocate, refill, recycle, give back, make a batch |
| interpreter | `core/worker_run_until.c`, `core/worker_apply.c`, `core/frame.c` | value stack, return stack of frames | one opcode per step, calls, tail calls, primitives |
| rules, definitions, modules | `core/mod.c`, `prelude/net.c`, `prelude/function.c`, `lang/define.c`, `lang/checks.c` | a hash of definitions per module, a rule array per constructor | `define-node`, `define-rule`, `define`, `import` |
| loader and compiler | `commands/run_command.c`, `lang/load.c`, `lang/execute.c`, `lang/compile_one.c` | the modules loaded, the list of tokens | load the files of the command line, execute or compile one token |
| inspection | `net/node_adjacency.c`, `net/connected_node_iter.c` | none of its own | the connected part of a net that `inspect-run` prints |
| values | `value/*.c` | none | 61-bit integers and other tagged values |
| std: concurrency | `packages/deque`, `packages/thread`, `packages/queue` | a list under a spinlock; a circular queue with cached cursors | push, pop, lock, unlock |
| std: data | `packages/hash`, `list`, `array`, `stack`, `set` | tables and cursors | set, delete, rehash, iterate |
| std: text | `packages/lexer`, `sexp`, `utf8`, `path`, `string`, ... | a cursor in a text, a list of tokens, a path's segments | cutting into tokens, reading and printing lists, encoding, joining paths |

### How they interact

A worker is one thread's view of everything: value stack, return stack, deque,
private free nodes. The *loader* worker executes the top-level words alone; it
has no scheduler, so the active pairs it finds wait in its own deque. `run`
(`prelude/net.c:25`) makes a scheduler with one worker per processor but one,
deals the loader's tasks to their deques, starts a thread per worker and waits.

Handling a task disconnects its two nodes (their principal wires are freed,
the values at their other ports pushed, the nodes recycled) and interprets the
body of the rule, which makes nodes and connects wires; `connect` may find new
active pairs, which go to the deque of the worker that found them. Three things
are shared by workers: the deques (a spinlock each) with the counter; the net
(a compare-and-swap per wire, a mutex per node); the allocator (one mutex).

### What is hard

* The counter and the deques are not updated together: a task is pushed before
  it is counted, and may be stolen, handled and uncounted before its push is.
* Workers leave for good when they read zero, while another may still push.
* Both ends of one wire may be fused at the same time by two workers; one of
  them frees it.
* A number goes through ports, wires and variables as any value does, and only
  `connect` finds out, much later, that it meets a principal port.
* A node's principal wire is found by others before its other ports are
  filled; a comment at `worker_reconnect_node.c:36` explains the mutex.
* Nodes are recycled at once, into other constructors.
* A rule is in two arrays, and a pair of nodes searches them in the order in
  which it was connected.
* `inspect-run` has to find its way from node to node across wires that were
  fused and principal wires that have met.
* A file is known by the string of its path, joined from three others.
* The result of a program is promised to be independent of scheduling
  (`docs/articles/programming-with-interaction-nets.md:349`).

PROJECT.json lists each hazard at its line with the properties that cover it.

### What makes each component correct

* Scheduler: every task is handled exactly once; `run` comes back, and only
  when nothing waits and nobody works; the counter's zero test is never wrong.
* Net: no number meets what it cannot be connected with, if the program sees to
  it; every wire and principal wire has exactly the ends it should have, so
  that none is used after it was freed or lost; a node that can be locked is
  complete; a task's active pair still stands when it is handled; the result is
  unique.
* Allocator: a node has one owner, none is lost, hoards and growth are bounded.
* Queue, hash, list: they implement a bounded FIFO, a map, a sequence.
* Interpreter: every frame is freed once, tail calls keep no frame, and a program
  means what its words say one by one, in whatever files they are; two nodes that
  meet find the rule that was defined first.
* Inspection: all nodes of the connected part, each once.
* Lexer and s-expressions: nothing of a text is lost or read twice, tokens are
  where they say they are, and what is printed is read as what it was.

## 2. The modules

    TaskPool          what a parallel run promises
      ^ implemented by
    Scheduler         deques, counter, stealing        MCScheduler
      ^                                                SchedulerProofs
      | its promise is the scheduling of
    InetRuntime       heap, connect, node mutexes      MCInetRuntime
      ^                                                InetRuntimeProofs
      | walked through by
    Inspection        adjacent and connected nodes
      | its programs are disciplined by
    NetKinds          numbers and values of the net
    NodeAllocator     shared and private free nodes    MCNodeAllocator
                                                       NodeAllocatorProofs

    AtomicDeque  <-   Deque         spinlock and list of a worker's deque
                                                       ListProofs
    SequenceList <-   ListObject    calls on a LinkedList (operators on nodes)
                                                       ListProofs
    BoundedQueue <-   SpscQueue     circular queue of two threads
                                                       SpscQueueProofs
    HashMap      <-   HashTable     chains, growth, cursor
                                                       MCHashTable
                                                       HashTableProofs
                      Utf8          strings, texts and back
                                                       TextProofs
    MCInterpreter     what a program means, word by word
      ^ agrees with
    Interpreter       loading, compiling and running files
      |                                                InterpreterProofs
      | uses            Path          files by their paths
      |                 TaggedValue   numbers and booleans in words

    Sexp              parsing and printing lists       MCSexp
      | on top of
    Lexer             texts into tokens                TextProofs

An arrow points to the abstract module that the detailed one is checked to
implement. Deque justifies the one-step deque operations of Scheduler.

### TaskPool

The abstract `run`: tasks wait, run, are done; a running task may create
others; `run` concludes when none waits and none runs.

### Scheduler

One worker thread is a `pc`: at the loop condition of `worker_thread_fn`
(`check`), at its own deque (`pop`), at the loop condition of
`worker_steal_task` (`steal`), at the victim's deque (`probe`), in
`worker_handle_task` (`handle`), between the two statements of
`worker_add_task` (`count`), or `returned`. The calling thread goes through
`prepare`, `start`, `wait`, `destroyed`. One step is one atomic access: a deque
operation (it holds the deque's spinlock throughout), a read or an update of
the counter. What a handler does to the net is left out; it may push tasks not
created before (`fresh`) and then ends. `victim_cursor` is kept modulo the
number of workers: the code increments a `size_t` and only ever uses its
remainder, and 2^64 probes do not happen.

The refinement `Pool` maps the undealt and the queued tasks to `pool`, the
tasks in the hands of workers to `running`. Most steps are stutters; the pop of
a task, by its owner or a thief, is `Start`.

### InetRuntime

`node`, `wire`, `principal_wire` are the heap; freed objects carry a mark
(`FREE`, `Freed`, constructor `none`) and a new object takes the first free
name, so a freed object is reused at the first occasion, the hardest case for
dangling references. `worker[w]` holds the worker's stacks and the locals of the
C functions it is in: `pair` is the two arguments of `connect`, `node`, `port`
and `found` are the locals of `worker_reconnect_node`. A body is a sequence of
opcodes with names for its local variables.

Steps are the accesses others may race with: the compare-and-swap in `fuze`
(`FuzeWire`), the write of the two opposites and the search of a rule
(`ConnectActivePair`, whose two principal wires nobody else can reach before
the task is published), the locking of a new node (`NewNode`), each of its ports
(`ReconnectInput`, `ReconnectOutput`), its unlocking, the publication of a task
(`AddTask`), and the disconnection of a node under its mutex (`DisconnectLeft`,
`DisconnectRight`). Scheduling is TaskPool's: any idle worker takes any task;
that is what Scheduler is shown to implement.

`connect` has three ways on and one that fails. `FuzeWire` fuses the left value if
it is a wire, else the right one; `ConnectActivePair` has two principal wires; what is
left is `ConnectFails`, the `assert(false)` of `connect.c:77`. Its values are wires,
principal wires and `Number`, which stands for everything a word can hold that is
neither: a number is put on the stack by an opcode (`Literal`), goes into ports without
a wire of its own (`reconnect_input`), is left in a wire by `fuze`, and is pushed again
when its node is disconnected. In the code a failing assertion ends the process; in the
model it ends the worker it fails in, and the others may still do what they were about
to do, which only adds behaviours.

`Ctor`, `Rules` and `Programs` are any constructors, rules and bodies; a node has
`NodeMaxArity` values, NODE_MAX_ARITY of `config.h`. What the compiler sees to is an
assumption of the module: a variable is set before it is got (`BodyAssumption`). That
no number is the address of an object is one, too (`NumberAssumption`): tags see to it.
What nothing sees to is a definition: that what is put into a variable is got from
it once (`LinearBodies`; a name bound and never used loses a wire, one used twice
gives it a third end) and that no node has two principal ports
(`OnePrincipalPort`). Most theorems have these two as premises; MCInetRuntime
asserts them of the examples it runs. Bodies are made of literals, `link`, `connect`,
constructors and local variables; a call of a function is its body in place, and
words on the stack are variables in another order. A word that finds too few values
on the stack is not a step of the model: `array_pop` fails an assertion there and the
program is over. `NoAssertionFails` is about the assertions of `connect` and
`worker_reconnect_node`.

### NetKinds

`NoAssertionFails` is false of the language. `1 zero add` puts a number at the
principal port of `add`, and `connect` comes to its "impossible case!"; with other
rules a number may go a long way before it gets there. NetKinds states what a program
can observe so that this does not happen. As in Forth every word has a picture of what
it takes from the stack and what it leaves (`Takes`, `Gives`), here with two kinds of
values, `"number"` and `"net"`; a constructor says of its input ports, a program of its
local variables, which are for numbers. A body is `Kinded` if each word finds what it
takes: a program starts with an empty stack, the body of a rule with the values of the
ordinary ports of its two nodes (`OrdinaryKinds`). `Disciplined` programs are linear,
have one principal port per node and are kinded, and
`DisciplinedProgramsDoNotFail` says that none of them ever fails an assertion. The
history variable `program` says which program it is. The premise is about texts, and
the conclusion about every interleaving of fuzing, rewriting and recycling.

### NodeAllocator

The stacks are sets. `AllocatePrivate`, `AllocateShared` and `AllocateNone` are
the three outcomes of `allocator_maybe_allocate`, `PrepareBatch` the retry loop
of `node_allocator_allocate`, `Recycle` is `allocator_free`. `Run` and
`DestroyWorkers` are the beginning and the end of a `run`, between which the
loader waits; `worker_destroy` frees the workers' private stacks but not the
nodes in them (`core/worker.c:32-44`).

### Interpreter

One loader worker per file, each with the tokens that are left, a value stack
and a return stack of frames. `ExecuteGeneric` and `EndGeneric` are the two ends
of `execute_generic`, between which the function of one word is there
(`Scratch`); every opcode is a step. The compiler is the operators
`compile_one` and `compile_function` on a record of tokens, opcodes and local
variables. A failing assertion is the status `abort`, `exit(1)` is `exit`; so is
reading past the end of the tokens, where the code follows a null pointer
(`abort`). An import of a file that is not loaded suspends its step:
`ApplyImport` takes the tokens and starts the file, `EndImport` brings the
names back and frees the frame if that was its last opcode. A file is registered
when its text has been executed, so one that is imported while that is under way
is loaded again, inside itself, and again, until the C stack is full: the model
ends there with the status `overflow`. At a string where a word is expected,
`execute_one` prints a message and takes nothing, and `execute_all` calls it again:
that is the step `RetryString`, which changes nothing and can only be followed by
itself. Such a program is not over (`Over`), it never ends. `RunFile` and `EndFile` are the loop over
the command line.

`define-node` and `define-rule` take their tokens as `define` does. `node_ctor`
has each constructor's arities, principal ports and rules; a rule's body is
compiled and kept, and InetRuntime is where bodies run. A constructor that is
applied takes values off the stack and leaves wires (`ApplyNodeCtor`): which wire
is connected to which is InetRuntime's, so here all wires are one value. The
texts have no constructor with two principal ports and do not say `connect`,
`link` and `run`.

Path has the operators on paths that find a file: `path_join` takes segments one
by one, and `..` takes one back. An import joins its string to the importing
file's path even when it begins with a slash (`prelude/function.c:14`); the
texts do that, too. TaggedValue has integers and booleans as words: a number is
shifted left over its tag, cut to the word, and shifted back with its sign;
`and` and `or` are C's `&&` and `||`, which do not look at their second operand
when the first decides, so that `false 1 and` is false and `true 1 and` fails.

MCInterpreter says what a program means without opcodes, frames, indices, paths
or words of the machine: a definition is its text, local variables are a map
from names, a call performs the text at once, a string means the file that it
is written with, a number is a number that wraps around. `MeansWhatItSays`
compares the two on every program that comes to its end, fails, or comes to a
string where a word is expected; the last two mean nothing. `FirstRuleIsFound` compares the arrays of
rules with the order of their definitions, and what a pair of nodes finds from one
side with what it finds from the other (`SameRuleEitherWay`). `FirstRuleStays` says the
same of the order step by step: a rule for a pair without one is found at once, and
no later definition takes its place.

### Inspection

Operators on InetRuntime's state, since nothing else runs when `inspect-run`
prints: `walk` follows fused wires, `is_connected` also the opposites of
principal wires, `TakeAll` is the iterator with its set of nodes that occurred and
its list of those that remain. `InspectsTheComponent` compares them with the
component of a graph that has nodes, ports, wires and principal wires for
vertices; it holds before every word of the loader and after the run.
`node_adjacency` compares values, so that two nodes that hold equal numbers pass for
connected; the numbers of a program of MCInetRuntime are different ones.

### Lexer, Sexp

A text is a sequence of characters, one step is one call of `lexer_step`, in the
two settings the program uses: `lex_code` (`core/worker.c:3`) and
`sexp_parse_list`. Of the C library, `strtol` and `strtod` are modelled as far as
the texts go: signs, digits, a point, hexadecimal digits; and `isspace` as spaces,
tabs and newlines. Sexp keeps the calls of `parse_list` under way on a stack.
After it has read a text, it prints what it read, and reads that.
`TokensCoverTheText` leaves out texts with backslashes, where the start of a
token is reckoned back from its end by the length of what was escaped, and
`PrintsWhatItReads` strings that would have to be escaped again ("TODO handle \n
and other \chars", `sexp.c:130`).

### LinkedList, ListObject, Deque

LinkedList has the functions of `list.c` as operators on a list's record and its
nodes; a freed node loses its contents and is the first to be handed out again.
ListObject calls them in any order, and `reply` holds what the last call
answered, so that SequenceList fixes the answers and not only the state. The
cursor is part of it: `list_next` starts over when the value under the cursor
was removed. Deque puts push, pop and is-empty under the spinlock's load,
exchange and store; a list function reads the list in one step and writes it in
another, and AtomicDeque says that a call takes effect at one moment.

### SpscQueue

One step is one load or store of shared memory. A load of the other thread's
cursor may return any value the cursor has had since this thread's last load
of it: C11 promises no more for relaxed and acquire loads. What acquire and
release add is that the values behind an acquired cursor are visible, which is
why the plain accesses are required not to meet (`NoRace`). `queue_get` is used
below the values acquired; it checks no more than that there is one, so an
index beyond them reads a slot that may be written meanwhile. `queue_destroy`
runs after both threads have been waited for.

### HashTable

A bucket is the sequence of its entries, the top first. A client may only go on
with `hash_next` while the table was not changed, but for the deletion of the
entry it was just given: this is what the cursor allows, and the model's
`iterating` says when it holds. `used_indexes_size` is kept as the code keeps it:
it falls behind when the first of several entries of a bucket is deleted, and
wraps below zero; the next insertion then grows the table for nothing. The map
is right all the same.

### Utf8

A string is a sequence of bytes, read into a text and written back one
character per step, then read again.

### Memory model

Steps interleave (sequential consistency). The deques, mutexes and
compare-and-swaps of the code order what the models rely on: a task is read
after its deque was locked, a node's ports after its mutex was. The shared
counter is read with acquire and written with release operations; the models
use only its own modification order. SpscQueue is the exception: its threads
share no lock, and its loads are late.

## 3. The runs

| run | instance | states | shows |
|---|---|---|---|
| `scheduler` | 3 workers, 2 tasks dealt, 2 found | 37 k | safety of the counter and the deques, refinement of TaskPool, `run` comes back, every victim is probed |
| `inet` | 2 workers, one of `zero add1 zero add zero add`, `zero add1 zero mul`, `zero add1 1 add`, `1 zero add`, two lists and two difference lists of numbers appended | 199 k | the ends of every wire, complete nodes, standing tasks, disciplined programs fail no assertion, unique result, termination, inspection finds all |
| `inet_two_principals` | `zero zero both` with a constructor of two principal ports | violation | see Findings |
| `interpreter` | 3 files, 3 paths on the command line; every definition of up to 3 out of 10 phrases, 3 out of 10 phrases at the top level, 3 out of 11 on nodes and rules, all words on 7 numbers and the booleans | 192 k | frames have one owner, tail calls are proper, a program means what it says, and comes to its end, fails or stays at a string, the first rule is found |
| `sexp` | every s-expression text of up to 5 pieces out of 11, every program text of up to 4 out of 12, tokens of 3 characters | 1.1 M | tokens cover the text and are where they say; printing and reading again |
| `allocator` | 2 workers and the loader, cache 2, batch 1, 9 nodes, 1 run | 1.3 M | every node in one place, hoards, growth |
| `deque` | 2 threads, up to 3 values | 29 k | the lock excludes and is released, calls are atomic |
| `list` | 3 nodes, 2 values | 3 k | links, ends, length, cursor; a sequence with a cursor |
| `queue` | 2 places, cursors of 8 values | 40 k | FIFO, no race, caches on the safe side, answers that come true |
| `hash` | 4 keys, sizes 5, 11, 23 | 78 k | a map, its load, iterations |
| `utf8` | texts of 2 characters out of 14 | 2 k | what is written is read as what it was |
| `utf8_writes_back` | texts of one character | violation | see Findings |

### Bounds and why they are enough

Scheduler: of three workers one pushes and counts, one steals and one leaves at
the same time, and three are the fewest for which the order of victims matters;
two found tasks let one be stolen while the other is uncounted. InetRuntime: the
heap is what the programs need, and an allocation that found nothing would show
as non-termination under `Terminates`. The programs are those of
`examples/datatypes/`, cut to the smallest inputs at which two interactions
overlap. Two numbers are there to be told apart as elements of lists, and one
meets a wire, a principal port (`1 zero add`, the only program that fails) and the end
of a chain of `add1` (`zero add1 1 add`, which is not disciplined and does not fail).
The run asserts which programs are disciplined, so that the property is not about none
of them. `CHECK_DEADLOCK FALSE` is
there because a finished run stops. NodeAllocator: with a cache of two
nodes a refill may find less than that, a give-back leaves some, and nine nodes
are one more than the bound of growth for one node in use; MaxNodes stops
batches, MaxRuns runs, and workers are symmetric. Deque counts pushes under way against the nodes
there are (`Room`); ListObject and HashTable are finite by their nodes and keys,
and HashTable inserts only while there is a next size. Three keys of one
bucket overload the smallest table by length, two buckets by used indexes, and
the deletions of three colliding keys wrap `used_indexes_size`; 5, 11 and 23
stand for the 13, 31, 61 of `hash_primes.h`, which need more keys for the same.
Interpreter:
the phrases bind names once and twice, use them bound and unbound, call
functions in the middle and at the end of a body and from other files, and cut
definitions and imports short; five frames are more than calls of this depth
use, and a program that needed more would violate
`HaltsUnlessAtString`. The three files are at
different depths, so that `..` is taken in the middle, at the beginning and twice;
one is imported by two others and named by the command line, and one path of
the command line names a file again. Three programs have a circle of imports, of a
file with itself, with the one that imports it, and of three. Three constructors allow
a rule for two, a rule for one with itself, and two rules for the same pair in
either order. A word of 11 bits leaves eight for numbers, and the numbers are
at both ends of them. That run finds no
deadlock: a state where nothing can be done is one where the program is over. Three
phrases at the top level are strings, after words that take them and after words that
do not.
Sexp: five pieces are what two words in parentheses take; a token of four
characters is too long.
SpscQueue needs no bound: its cursors wrap, after four rounds of the ring, where
the code's wrap after 2^62; what matters is that the ring's size divides
their number, which is why `queue_new` asserts a power of two. The code points
of Utf8 are the first and last of each length and some in between.
`CHECK_DEADLOCK FALSE` in SpscQueue and Utf8: a destroyed queue and a finished
conversion stop.

### Fairness

The operating system keeps running every thread: weak fairness of every
worker's next step and of the calling thread's. Nothing else is assumed; in
particular a worker waiting for a mutex is only assumed to proceed when the
mutex stays free, and no thief is assumed to find anything. In Scheduler the
fairness is a premise of `RunReturns` and not part of `Spec`: a thief that probes
for ever exists only where some other thread has stopped, and
`EveryVictimProbed` is about it. In Deque each thread
that has called goes on; that a particular thread gets the lock is not assumed
and not promised. The interpreter is one thread, which goes on while it can;
its `Fairness` is weak fairness of `Next` with the enabling condition
(`CanGoOn`) written out, and the absence of deadlock shows that the condition
is right. At a string where a word is expected nothing can change, so that the fairness
says nothing there, and such a program stays for ever: `HaltsUnlessAtString` names it as
the only kind that does.

### Findings

`define-node` accepts a node with two principal ports, although "Each node has
one and only one principal port"
(`docs/articles/programming-with-interaction-nets.md:191`). When each is
connected to a node it has a rule with, `worker_reconnect_node` finds two tasks
and its `assert(!found_task)` fails. Run `inet_two_principals` shows it with
three words.

`utf8_encode_into` writes continuation bytes with their two high bits: the shifts
in `(uint8_t) code_point << 2 >> 2` are made in `int`. `test_utf8.c:74` asserts
that a decoded and encoded character is the same string, and is right for the
character it uses; U+00E9 is written as C3 E9. Run `utf8_writes_back` shows it;
run `utf8` shows that the program's own decoder, which masks, reads such strings
as intended.

Read in the code, without a run of their own:

* `docs/articles/programming-with-interaction-nets.md:275` comments lines with
  `--`; `lex_code` (`core/worker.c:9`) knows `//`.
* `string_is_xint` does not know the prefix `0b` that `string_parse_xint` parses
  (`string.c:293`): `0b1` is a word.
* `float-to-int` converts through `uint64_t` (`value/xfloat.c:64`), which is
  undefined for negative numbers.
* `define-node` does not compare the number of ports with `NODE_MAX_ARITY`; the
  assertion is the one of `node_set_value`, when the first node is made.
* `connect` prints "impossible case!" (`connect.c:73`) before it fails; `1 zero add` gets
  there. Run `inet` has the program, and NetKinds what makes the case impossible.
* A string where a word is expected makes `execute_all` print its message for ever
  (`execute.c:57-61`); everything else that is no word ends the program.
* `inspect-run` with a number on top of the stack uses an uninitialized pointer
  (`prelude/net.c:38`).
* A second rule for a pair is accepted and never applied (`FirstRuleIsFound`).

## 4. The proofs

A run shows a property on an instance; these theorems show it for every value
of the constants that the named assumption of the module allows.

| module | theorem | property | for every |
|---|---|---|---|
| SchedulerProofs | `TypeCorrect` | `TypeOK` | number of workers, finite set of tasks and initial deal (`WorkerCountAssumption`, `TaskAssumption`) |
| | `TasksAreHandledOnce` | `HandledOnce` | |
| | `CounterIsSafe` | `ZeroMeansNothingQueued` | |
| | `CounterIsExact` | `CountAccounting` | |
| | `ReturnedWorkersAreDrained` | `ReturnedIsDrained` | |
| | `DestroyIsSafe` | `DestroyedIsQuiet` | |
| | `ImplementsTaskPool` | `PoolSpec` | |
| NodeAllocatorProofs | `TypeCorrect` | `TypeOK` | finite set of workers, size of caches and of batches, number of nodes and runs (`AllocatorAssumption`) |
| | `NodesAreInOnePlace` | `EachNodeInOnePlace` | |
| | `HoardIsBounded` | `HoardBound` | |
| | `GrowthIsBounded` | `GrowthBound` | if there is a worker |
| SpscQueueProofs | `CachesLag` | `CachesLagSafely` | size of the ring, and width of the cursors that is a multiple of it (`QueueAssumption`) |
| | `AccessesDoNotRace` | `NoRace` | |
| | `TheToldIsTrue` | `ToldIsTrue` | |
| | `RingIsAQueue` | `FifoSpec` | |
| ListProofs | `ListIsWellFormed` | `WellFormed` | finite set of nodes and threads, and any values (`ListAssumption`, `ThreadAssumption`) |
| | `ListAnswersAsSequence` | `ListIsSequence` | |
| | `LockExcludes` | `OneInside` | |
| | `NoChangeIsOverwritten` | `WritersAreUpToDate` | |
| | `DequeRefinesAtomic` | `DequeIsAtomic` | |
| InetRuntimeProofs | `InetTypes` | `TypeOK` | number of workers, constructors, rules, size of the heap (`HeapAssumption`, `NumberAssumption`, `CtorAssumption`, `BodyAssumption`), and every program, if `LinearBodies` and `OnePrincipalPort` |
| | `WiresHaveTheirEnds` | `WireEnds` | |
| | `UnlockedNodesAreWhole` | `UnlockedNodeIsWhole` | |
| | `TasksStayStanding` | `TasksStand` | |
| | `AssertionsHold` | `DisciplinedProgramsDoNotFail` | the same and set of numbers (`NumberAssumption`), choice of ports and variables for numbers (`KindAssumption`), and no premise but those in the property |
| InterpreterProofs | `InterpreterInvariant` | | text of every file, with any words, numbers and strings (`TextAssumption`), set of files, command line, and finite set of frames (`FrameAssumption`) |
| | `FramesHaveOneOwner` | `FramesAreOwned` | |
| | `TailCallsStayProper` | `TailCallsAreProper` | |
| | `RulesAreSymmetric` | `SameRuleEitherWay`, a conjunct of `FirstRuleIsFound` | |
| | `FirstRulesStay` | `FirstRuleStays` | |
| HashTableProofs | `LoadStaysBounded` | `LoadIsBounded` | finite set of keys, any values, width of a word, and sizes that grow by two at least (`HashAssumption`) |
| | `TableIsAMap` | `HashIsMap` | |
| TextProofs | `TextsAreRead` | `ReadsWhatIsThere` | set of code points from 1 to 0x10FFFF, which is all that `utf8_encode_into` takes and a NUL does not end, and length of text (`CodePointAssumption`) |
| | `TokensCover` | `TokensCoverTheText` | text that is a string of C's, mark of comments within a line, delimiters and length of tokens (`LexerAssumption`) |

### Scheduler

That zero means empty deques is not inductive: whether a
decrement to zero is right depends on which tasks are outstanding. The
inductive invariant `IInv` therefore says exactly what the counter is
(`CountAccounting`: outstanding tasks less the workers between push and count),
where the outstanding tasks are (`NoneLost`, `HandledOnce`), what the main
thread's phase says of the workers (`Phases`), that undealt tasks are not
created or done twice (`UndealtOnce`), and that a returned worker's deque is
empty (`ReturnedIsDrained`). From it: an uncounted worker still holds the task
it handles, so the tasks in deques and the tasks in hands are disjoint and the
counter is at least the number of queued tasks; zero leaves none queued.
A worker's deque is only pushed to by itself, so when it returns after a read of
zero its deque stays empty; when all have returned nothing is queued, and nobody
handles anything, so every task is done. The lemmas compute `Queued`, `Running`
and the cardinalities for each kind of step (`QuietStep`, `PopStep`,
`PrepareStep`, `PushStep`, `CountStep`, `FinishStep`); invariance has one step
per action.

### Net reduction

`WireEnds` counts: the places where a value is needed -- stacks, variables that
are still awaited, the two arguments of `connect`, ports, wires -- are as many as
the value's state says (`Need`: two for a wire that nothing was fused into and for
a principal wire that has not met another, one after that, none when it is free).
The first part of InetRuntimeProofs takes this sum apart. Places are tagged, so they never coincide, and
a step of one worker changes its own hand, the ports and the wires while `Rest`,
all other hands, stays: a step keeps the count of a value when what it takes from
one place it puts into another (`Balance`, `PlacesCount`). A step of `fuze` reads a
wire and writes it in the same moment, so the worker that finds a value there holds
the last reference and may free the wire.

The sum alone is not inductive. A worker that disconnects a node frees its
principal wires, so nobody else may need them: `ClaimsAreApart` says that the
principal wires of tasks in the pool and in the hands of workers are all
different, and `ClaimsHaveMet` that each has its opposite and hence one reference,
its own port. `HasItsPort` ties a principal wire to that port, and with one principal
port per node different principal wires belong to different nodes: without
`OnePrincipalPort` two tasks could be about one node, and `inet_two_principals`
shows that it happens. `Reconnects` says how far a node under its mutex has been
filled, and that a task found by its worker comes from the principal port behind;
from there follow `UnlockedNodeIsWhole` and that a second task is never found.
Without `LinearBodies` the count fails at the first name that is used twice.

Its second part has `IInv`, its consequences, what other workers keep (`ClaimsStay`,
`OthersReconnect`) and the steps that concern their worker alone; InetRuntimeProofs
has the ports (`ReconnectInput`, `ReconnectOutput`, `Unlock`), the three outcomes of
`connect` (fuse the first, fuse the second, a pair) and the two disconnections. A number
needs no reference and is counted nowhere; `ConnectFails` changes nothing that is
counted.

`AssertionsHold` has two halves. That a node finds one task is `Reconnects`. That
`connect` meets no number where it must not is a second invariant on top of the first,
`KInv`: no wire holds a number (`WiresAreKinded`), ports and set variables hold
numbers just where these are meant for them (`PortsAreKinded`, `VariablesAreKinded`),
the two values in the hands of `connect` are values of the net (`PairIsOfNet`), and the
stack of each worker is one on which the rest of its code can run (`StackIsKinded`).
The last is the heart: what is still to be run depends on where the worker is, before
the next word (`Executes`), amid the inputs of a node (`Feeds`) or its outputs
(`Yields`), or between the two nodes of a task, where what the second will push is
still missing (`Splits`). A body runs the same whatever is deeper on the stack
(`ReplacesAbove`), so a rule may begin on a stack that others have left full. When two
nodes are disconnected the values of their ordinary ports come in the order of the
ports, which is what the rule was kinded for; this needs that the task's two nodes are
still what they were when it was found (`TasksStand`) and have no port unfilled
(`UnlockedNodeIsWhole`), so `KInv` rests on all of `IInv`.

### Interpreter

`FramesAreOwned` is not inductive: which frame an opcode pushes or frees, and
whether the variable it reads was set, depends on what the compiler made of a
text that may be anything. The invariant has four parts.

* What functions are (`FunctionsFit`). The opcodes of a function are `Compiled`: the
  opcode before a call is the constant that it calls, constants are values a word can
  have, and a variable is read only behind an opcode that sets it. Compiling
  one token keeps this, whatever the token is (`BindFits`, `GenericFits`, `OneFits`),
  because the local names of a compilation are those that its opcodes set, and
  the loop over a text keeps what each turn keeps (`FunctionFits`).
* What a worker's frames are (`WorkerFits`). A frame runs on a function that is
  there, with every variable set whose opcode is behind its cursor. All frames
  below the top of a return stack have an opcode left, which is not a call; the
  top one may be between a constant and its call, and then there is a value on the
  value stack. The function of a
  single token (`Scratch`) is used by no frame when `EndGeneric` destroys it, since
  the return stack is empty then, nothing else can hold a frame of it, and no value
  is that function: it cannot be called.
* Whose frames they are (`Ownership`). The frames of different workers are different,
  and a frame that is not free has a holder: its worker's return stack, or the
  import for which it was kept. A step of one worker changes its own frames only;
  what it frees it held, and a new frame was free, so the others keep theirs.
* Who waits for whom (`LoadsFit`). No file is being loaded twice, and a worker that
  waits for an import is on the stack of loads below the last. So the worker that
  runs does not wait itself, and an import that it starts overwrites no frame that is
  kept for another.

`NamesFit` and `NodesFit` say that names mean values a word can have. There is one
lemma for each action. `IInv` says of stacks that they are sequences over some set,
which TLC cannot enumerate; the run checks what follows from it.

`SameRuleEitherWay` and `FirstRuleStays` need a second invariant beside that one.
`connect_active_pair` takes the first match in the rules of the left node, then in
those of the right one, so the sides agree if the first rule for two constructors is
the first in both arrays (`RulesAgree`). `define-rule` appends to both or to neither of
two constructors that the rule is for, which keeps that (`RuleIsLast`); a new
constructor begins with no rules, which keeps it only if no rule is for that
constructor yet. So `RulesFit` says that rules are for constructors that are there,
and `NodesAreThere` that every constructor with a name is, which an import must keep,
since it carries names from one module to another (`ImportedAreThere`). `RInv` is the
three together. That the first rule stays follows since arrays only grow at the end
(`FirstStay`), and RulesAgree makes it the one that is found.

### Node allocator

`IInv` is `TypeOK`, `EachNodeInOnePlace`, `HoardBound` and two facts: the private
stacks of workers that do not live are empty, and `peak` is a maximum. A step
moves a set of nodes from one place to another, so each place is disjoint from
the others after it if it was before; a refill meets an empty stack and brings at
most a cache's worth, a recycled node is put on a stack that is not full.
Growth needs more: a batch is made by a worker that found nothing, later, and
other workers may have recycled meanwhile. `BatchesAreWanted` therefore counts
the batches of all looping workers in advance. When one finds nothing, every
node there is is in use, stranded or hoarded by the others (`NoneMeansHoarded`),
which bounds `node_count` by the peak at that moment (`UnionBound`,
`UnionCounts`).

### Single-producer single-consumer queue

Everything is said with distances (`Minus`, modulo `Wrap`) rather than with the
order of cursors, which wrap. `CachesLagSafely` orders what a thread
has cached, has seen and what is: front, the consumer's cached back, what it has
seen, and back itself are within `Size` of each other in this order, and
likewise for the producer. `PushHasRoom` and `PopHasValue` carry the checks of
push and pop to their stores, `ToldOfSeen` the answers of `is_full` and
`is_empty`. Because `Size` divides `Wrap`, cursors less than `Size` apart have
different slots (`CloseRemaindersDiffer`, `SlotsApart`), and the slot of the cursor
`Size` on is the same slot again: `NoRace` follows. For the refinement
the line is the values of the slots from `front` to `back` (`LineIs`); a store of
`back_cursor` appends one (`PublishJoins`), a store of `front_cursor` removes the
first (`FrontLeaves`), every other step leaves the line as it is.

### List

The invariant is that there is a sequence of nodes with which everything agrees
(`Linked`): it names the allocated nodes once each, in the order of their links in
both directions, its ends are `first` and `last`, its length is `length`, and the
cursor is NULL or on it. The functions of `list.c` are then functions on that
sequence: `list_push` appends the fresh node (`PushLinks`), `list_unshift` puts it in
front (`UnshiftLinks`), `list_unlink`, in its cases of an end, both ends or the middle,
leaves the sequence without one place (`UnlinkLinks`). What an observer reads by following links
is that sequence (`SeenAs`): following `next` i times reaches place i (`Chained`), by
the smallest number for which it would not (`Induct`). Each word of the list then
answers and moves the cursor as the one of SequenceList (`InsertPromise`,
`TakeEndPromise`, `SearchPromise`, `WalkPromise`, `RestPromise`).

### Deque

The lock is held exactly while one thread is inside (`LockSaysWhoIsInside`); a
thread about to write a list holds what the list still is, since nobody else
is inside. The refinement maps the deque to the values of its list: the write is where a call
takes effect (`WriteTakesEffect`), every other step inside is a stutter. For the
list's lemmas a push needs a node that is left; `ListHasRoom` counts
the pushes under way with the nodes in the list, as `Room` does when a call begins.

### Hash table

The load bound is inductive with the type of the index and of the
length: a table below three quarters may take one more entry, and one that has
got there grows, by two at least, before it takes one (`GrowthMakesRoom`).

For the refinement the chains are read as a set of entries (`EntriesOf`). The invariant
`MapInv` says that every entry hangs in the bucket of its key, no key twice
(`TableFits`), that `length` counts the keys, and that an iteration's cursor is in its
bucket and past the key it returned last (`IterationFits`). Used indexes do not occur
in it, so whatever they have come to be, a table grows at worst too early. A new entry
is one more in the set (`OneMore`), a deleted one is one less (`WithoutOne`), and
`hash_rehash` keeps the set: the entries of all chains one after the other are each
there once (`AllEntries`), and moving the first i of them fills the new table with
just these, for each i up to the last (`Growth`, by `Induct`). What is unread is the
keys of later buckets and the rest of the cursor's chain (`UnreadOf`, `From`):
`hash_next` skips empty buckets only (`GetsTo`), and passes over one key
(`PassedOver`); the deletion of a key that is no longer unread
leaves what is unread as it is (`DeleteIsDelete`).

### Utf8

First one character: the standard's bytes for a code point are read as that code
point and are as many as the first of them says (`StandardEncodes`); so are those
of `utf8_encode_into`, since `utf8_decode` cuts the bits that it should have cut
(`ContinuationIs`, `EncodeEncodes`). Reading looks at no byte further
(`SameBytes`), so what follows a character does not matter, and a string laid out as
some characters and one more is laid out as all of them (`Grows`). `Laid` names
the place where each character begins; the cursor of the reader is at one of them
(`Reads`), the writer's is at the end of what is written (`Writes`). `ReadsWhatIsThere` alone is
not inductive: it does not say what the string is that the cursor stands in. The
string of the beginning is laid out by induction over its characters
(`StandardIsLaid`). That the writer gives back the same bytes is false, see Findings.

### Lexer

`TokensCover` is about `LexerSpec`, the steps of `lexer_run` from any text, and so
about the text Sexp is given as about the one it prints. `TokensCoverTheText` speaks of
the end; the inductive invariant `LexInv` says the same of the part that is read:
the tokens so far are what the text has up to the last of them (`Covered`), only blanks
follow it up to the cursor, and the cursor's line is the one its index has
(`Here`). Every step either goes over blanks (`GoesOverBlanks`: spaces, and a comment,
whose mark has no newline, with the newline that ends it) or over one token that ends
where the cursor goes (`GoesOverToken`). For a string that is `CollectedIs`: collecting
character by character takes the characters up to the first quote after the cursor's,
as many as its length says, and no NUL cuts it short (`CStringIs`), so that the start
which is reckoned back from the end is right. With a backslash it is not, which is why
the theorem leaves those texts out. `postprocess_int` and `postprocess_float`
change words into numbers and nothing else (`KindChanges`). `PlaceAtIs`,
`CollectedIs` and their kind are inductions along a text, by the least character at
which they fail (`Induct`, `StepsAreTaken`).

### Only model-checked

* Liveness (`RunReturns`, `EveryVictimProbed`, `Terminates`, `LockIsReleased`,
  `HaltsUnlessAtString`), which the prover does not handle.
* That the result of a program is unique and that inspection finds all of it
  (`UniqueResult`, `InspectsTheComponent`): the one is about particular nets, the other
  about reachability in a graph, for which induction over paths is needed.
* What is said of recursive definitions: what a program means (`MeansWhatItSays`, and
  `FirstRuleIsFound` as far as it compares rules with that meaning; that the first rule
  is found from both sides and stays is proved), and that s-expressions that are printed are read as what they
  were (`PrintsWhatItReads`). The prover has no induction over data.

## 5. Not modelled

* Sequential work (`worker_work_sequentially.c`): chosen by
  `single_threaded_flag` (`flags.c:3`), which nothing sets.
* One processor: `worker_count` is 0 and `scheduler_prepare` divides by it;
  the models assume at least one worker.
* What comes after a file was imported by itself, or by way of others, while it was
  being loaded (`overflow`): that is the end of a program in the model.
* Connecting a wire with itself (`core/connect.c:68`), which fuses it into itself: it
  stays allocated and nothing can reach it. `WiresHaveTheirEnds` allows it; the wire
  is its own one end then.
* Debug options of `flags.c` and the logging they switch on.
* Floats, which go the way of integers in the interpreter and the compiler; what
  they compute is the C library's.
* Files, and all printing but that of s-expressions. `path_relative` only serves
  messages.
* Paths above the root: `/..` keeps its segment, and a file may have two paths
  then; the texts have none. Files with symbolic links.
* What destroy functions do to the values of lists and hash tables.
* Parts marked `not_modelled` or `partly` in PROJECT.json, with reasons.

## 6. Plan

In order of importance:

1. done: TaskPool, Scheduler and their proofs; InetRuntime and Inspection;
   NodeAllocator; the queue, the list, the deque, the hash table, UTF-8;
   Interpreter with constructors, rules, paths and integers; Lexer and Sexp.
2. A nested `run` inside a rule's body, as an extension of Scheduler.
3. done: proofs for NodeAllocator, Deque, SpscQueue, HashTable, Utf8 and Lexer.
   InetRuntime: types, ends of wires, whole nodes, standing tasks, and that disciplined
   programs fail no assertion.
   The list and the deque implement a sequence and atomic calls. Interpreter: its
   frames, its tail calls and which rule is found. HashTable implements a map. Left: that inspection finds
   the component.
4. Sets and arrays, on top of HashTable and as sequences.
