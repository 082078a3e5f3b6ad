--------------------------- MODULE NodeAllocator ---------------------------
(***************************************************************************)
(* The node allocator (net/node_allocator.c, allocator/allocator.c): one   *)
(* shared stack of free nodes under a mutex, a private stack of free nodes *)
(* in every worker, and batches of new nodes when both are empty.          *)
(*                                                                         *)
(* A worker goes to the shared stack only to move cache_size nodes at a    *)
(* time.  Workers of a scheduler live for one `run`; worker_destroy frees  *)
(* their private stacks with the nodes still in them, which stay in the    *)
(* allocator's node_array but can never be allocated again.                *)
(*                                                                         *)
(* Stacks are sets here: which free node comes first makes no difference,  *)
(* so a pop takes any.  A critical section of the mutex is one step.       *)
(***************************************************************************)
EXTENDS Integers, FiniteSets, FiniteSetsExt

CONSTANTS
    Worker,         \* the workers of the scheduler of the current `run`
    Loader,         \* the worker that executes the top-level words
    cache_size,     \* NODE_ALLOCATOR_CACHE_SIZE
    batch_size,     \* NODE_ALLOCATOR_BATCH_SIZE
    MaxNodes,       \* bound of node_count
    MaxRuns         \* bound of runs

ASSUME AllocatorAssumption ==
    /\ cache_size \in Nat \ {0}
    /\ batch_size \in Nat \ {0}
    /\ MaxNodes \in Nat
    /\ MaxRuns \in Nat
    /\ Loader \notin Worker
    /\ IsFiniteSet(Worker)

VARIABLES
    node_count,     \* the id of the last node made; node_array holds 1 .. node_count
    shared,         \* the shared stack
    free_node_stack,\* worker -> its private stack
    in_use,         \* nodes that were allocated and not recycled
    stranded,       \* nodes in the private stacks of destroyed workers
    looping,        \* workers whose allocation found no node: about to make a batch
    running,        \* whether the loader waits for a `run`
    runs,           \* how many times `run` has come back
    peak            \* history: the most nodes that were in use at once

vars == <<node_count, shared, free_node_stack, in_use, stranded, looping, running, runs,
          peak>>

Thread == Worker \union {Loader}

\* The threads that may allocate: the loader waits while its workers run.
Active == IF running THEN Worker ELSE {Loader}

Node == Nat \ {0}

\* Fault: the id is incremented after it was given.
Batch_FromZero(count) == count .. count + batch_size - 1

\* The ids of a new batch.
Batch(count) == count + 1 .. count + batch_size

\* node_allocator_new makes the first batch.
Init ==
    /\ node_count = batch_size
    /\ shared = Batch(0)
    /\ free_node_stack = [w \in Thread |-> {}]
    /\ in_use = {}
    /\ stranded = {}
    /\ looping = {}
    /\ running = FALSE
    /\ runs = 0
    /\ peak = 0

\* The nodes that go from the shared stack to an empty private one:
\* cache_size of them, or all there are.
Refill(refill) ==
    /\ refill \subseteq shared
    /\ \/ Cardinality(refill) = cache_size
       \/ refill = shared /\ Cardinality(shared) < cache_size

Use(w, n, available) ==
    /\ n \in available
    /\ free_node_stack' = [free_node_stack EXCEPT ![w] = available \ {n}]
    /\ in_use' = in_use \union {n}
    /\ peak' = IF Cardinality(in_use) + 1 > peak THEN Cardinality(in_use) + 1 ELSE peak

\* allocator_maybe_allocate with a node in the private stack.
AllocatePrivate(w, n) ==
    /\ w \in Active \ looping
    /\ Use(w, n, free_node_stack[w])
    /\ UNCHANGED <<node_count, shared, stranded, looping, running, runs>>

\* Faults: the refilled nodes stay in the shared stack; all nodes leave it.
Without_Copies(refill) == shared
Without_All(refill) == {}

Without(refill) == shared \ refill

\* allocator_maybe_allocate with an empty private stack: refill, then pop.
AllocateShared(w, n) ==
    /\ w \in Active \ looping
    /\ free_node_stack[w] = {}
    /\ \E refill \in SUBSET shared :
        /\ Refill(refill)
        /\ shared' = Without(refill)
        /\ Use(w, n, refill)
    /\ UNCHANGED <<node_count, stranded, looping, running, runs>>

\* Fault: the shared stack is not looked at.
NothingShared_Blind == TRUE

NothingShared == shared = {}

\* allocator_maybe_allocate returns NULL.
AllocateNone(w) ==
    /\ w \in Active \ looping
    /\ free_node_stack[w] = {}
    /\ NothingShared
    /\ looping' = looping \union {w}
    /\ UNCHANGED <<node_count, shared, free_node_stack, in_use, stranded, running, runs, peak>>

\* prepare_one_batch_of_nodes, on behalf of a worker that has found no node;
\* by now another worker may have made a batch, and may take this one before
\* the worker comes back for it.
PrepareBatch(w) ==
    /\ w \in looping
    /\ node_count + batch_size <= MaxNodes
    /\ node_count' = node_count + batch_size
    /\ shared' = shared \union Batch(node_count)
    /\ looping' = looping \ {w}
    /\ UNCHANGED <<free_node_stack, in_use, stranded, running, runs, peak>>

\* Fault: one node too many before any are given back.
Full_OffByOne(w) == Cardinality(free_node_stack[w]) > 2 * cache_size

Full(w) == Cardinality(free_node_stack[w]) >= 2 * cache_size

\* allocator_free: a private stack that has reached twice cache_size first
\* gives cache_size nodes back.  Only the workers of a scheduler handle tasks,
\* and so recycle.
Recycle(w, n) ==
    /\ running
    /\ w \in Worker \ looping
    /\ n \in in_use
    /\ in_use' = in_use \ {n}
    /\ \/ /\ ~Full(w)
          /\ free_node_stack' = [free_node_stack EXCEPT ![w] = @ \union {n}]
          /\ UNCHANGED shared
       \/ /\ Full(w)
          /\ \E back \in kSubset(cache_size, free_node_stack[w]) :
                /\ free_node_stack' = [free_node_stack EXCEPT ![w] = (@ \ back) \union {n}]
                /\ shared' = shared \union back
    /\ UNCHANGED <<node_count, stranded, looping, running, runs, peak>>

\* The word `run`: a scheduler with new workers, whose private stacks are empty.
Run ==
    /\ ~running
    /\ Loader \notin looping
    /\ runs < MaxRuns
    /\ running' = TRUE
    /\ UNCHANGED <<node_count, shared, free_node_stack, in_use, stranded, looping, runs, peak>>

\* `run` comes back: scheduler_destroy destroys the workers.
DestroyWorkers ==
    /\ running
    /\ looping = {}
    /\ running' = FALSE
    /\ runs' = runs + 1
    /\ stranded' = stranded \union UNION {free_node_stack[w] : w \in Worker}
    /\ free_node_stack' = [w \in Thread |->
                            IF w \in Worker THEN {} ELSE free_node_stack[w]]
    /\ UNCHANGED <<node_count, shared, in_use, looping, peak>>

Next ==
    \/ \E w \in Thread :
        \/ AllocateNone(w) \/ PrepareBatch(w)
        \/ \E n \in 1 .. node_count :
            AllocatePrivate(w, n) \/ AllocateShared(w, n) \/ Recycle(w, n)
    \/ Run \/ DestroyWorkers

Spec == Init /\ [][Next]_vars

-----------------------------------------------------------------------------
(* Properties.                                                             *)

Private == UNION {free_node_stack[w] : w \in Thread}

TypeOK ==
    /\ node_count \in Nat
    /\ shared \subseteq Node
    /\ free_node_stack \in [Thread -> SUBSET Node]
    /\ in_use \subseteq Node
    /\ stranded \subseteq Node
    /\ looping \subseteq Active
    /\ running \in BOOLEAN
    /\ runs \in Nat
    /\ peak \in Nat

\* Every node of node_array is in exactly one place.  One in two places, in use
\* while it is free or free for two workers, would be allocated twice, and two
\* constructors put into it; one in none could never be allocated again.
EachNodeInOnePlace ==
    /\ shared \union Private \union in_use \union stranded = 1 .. node_count
    /\ in_use \intersect (shared \union Private \union stranded) = {}
    /\ shared \intersect (Private \union stranded) = {}
    /\ Private \intersect stranded = {}
    /\ \A v, w \in Thread :
        v # w => free_node_stack[v] \intersect free_node_stack[w] = {}

\* What a worker hoards: at most twice cache_size nodes, and the loader, which
\* never recycles, less than cache_size.  This is also what the runs strand.
HoardBound ==
    /\ \A w \in Worker : Cardinality(free_node_stack[w]) <= 2 * cache_size
    /\ Cardinality(free_node_stack[Loader]) < cache_size
    /\ Cardinality(stranded) <= runs * Cardinality(Worker) * 2 * cache_size

\* Batches are only made for want of nodes: the allocator never owns more than
\* the most nodes the nets have needed at once, the stranded nodes, the private
\* stacks at their fullest of the loader and of all workers but the one that
\* finds no node, and one batch for every worker that has found both stacks
\* empty before a batch of another arrived.
GrowthBound ==
    node_count <= peak + Cardinality(stranded) + cache_size - 1
                  + (Cardinality(Worker) - 1) * 2 * cache_size
                  + Cardinality(Worker) * batch_size
=============================================================================
