------------------------------ MODULE TaskPool ------------------------------
(***************************************************************************)
(* What the parallel `run` promises, without deques, counters or threads.  *)
(*                                                                         *)
(* A task is an active pair of nodes.  Handling one may create others.     *)
(* Every task is handled exactly once, and `run` comes back only when no   *)
(* task waits and no task is being handled.  Scheduler implements this     *)
(* module, and InetRuntime, which needs no more of the scheduler than      *)
(* this, is built on it.                                                   *)
(***************************************************************************)
CONSTANTS
    Task,           \* identities of the tasks one run may create
    InitialTask     \* the tasks that wait when `run` is called

VARIABLES
    fresh,          \* tasks not created yet
    pool,           \* tasks that wait to be handled
    running,        \* tasks some worker is handling
    done,           \* tasks that were handled
    concluded       \* whether `run` has come back

vars == <<fresh, pool, running, done, concluded>>

Init ==
    /\ fresh = Task \ InitialTask
    /\ pool = InitialTask
    /\ running = {}
    /\ done = {}
    /\ concluded = FALSE

\* A task that is being handled creates another.
Spawn(t) ==
    /\ running # {}
    /\ t \in fresh
    /\ fresh' = fresh \ {t}
    /\ pool' = pool \union {t}
    /\ UNCHANGED <<running, done, concluded>>

Start(t) ==
    /\ t \in pool
    /\ pool' = pool \ {t}
    /\ running' = running \union {t}
    /\ UNCHANGED <<fresh, done, concluded>>

Finish(t) ==
    /\ t \in running
    /\ running' = running \ {t}
    /\ done' = done \union {t}
    /\ UNCHANGED <<fresh, pool, concluded>>

Conclude ==
    /\ ~concluded
    /\ pool = {}
    /\ running = {}
    /\ concluded' = TRUE
    /\ UNCHANGED <<fresh, pool, running, done>>

Next ==
    \/ \E t \in Task : Spawn(t) \/ Start(t) \/ Finish(t)
    \/ Conclude

Spec == Init /\ [][Next]_vars
=============================================================================
