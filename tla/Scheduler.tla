----------------------------- MODULE Scheduler ------------------------------
(***************************************************************************)
(* The work-stealing scheduler behind the word `run`                       *)
(* (core/worker_work_parallelly.c, core/scheduler.c,                       *)
(* core/worker_add_task.c).                                                *)
(*                                                                         *)
(* The calling thread deals its tasks to the deques of WorkerCount         *)
(* workers, starts one thread per worker, waits for all of them and frees  *)
(* the scheduler.  A worker pops its own deque and, when that is empty,    *)
(* steals from the others, for as long as the shared counter               *)
(* atomic_task_count is positive.  The counter is not updated together     *)
(* with the deques: a task is pushed first and counted after, and it is    *)
(* uncounted only when its handler is over.                                *)
(*                                                                         *)
(* A task is an identity here: what handling it does to the net is the     *)
(* business of InetRuntime; here it may push further tasks, then ends.     *)
(* One deque operation is one step: it runs under the deque's spinlock.    *)
(***************************************************************************)
EXTENDS Integers, Sequences, FiniteSets, Functions

CONSTANTS
    WorkerCount,    \* sysconf(_SC_NPROCESSORS_ONLN) - 1
    Task,           \* identities of the tasks one run may create
    InitialTasks,   \* the calling worker's deque when `run` is called
    NoTask          \* the NULL task

ASSUME WorkerCountAssumption == WorkerCount \in Nat \ {0}

ASSUME TaskAssumption ==
    /\ IsFiniteSet(Task)
    /\ NoTask \notin Task
    /\ InitialTasks \in Seq(Task)
    /\ IsInjective(InitialTasks)

VARIABLES
    init_task_deque,    \* the deque of the worker that called `run`
    task_deque,         \* worker -> its deque, front first
    atomic_task_count,  \* the counter shared by all workers
    victim_cursor,      \* worker -> the cursor it steals with, modulo WorkerCount
    pc,                 \* worker -> where its thread is
    task,               \* worker -> the task in its hands
    main,               \* where the calling thread is
    cursor,             \* the calling thread's loop counter
    fresh,              \* history: tasks not created yet
    done                \* history: tasks whose handler is over

main_vars == <<init_task_deque, main, cursor>>
history_vars == <<fresh, done>>
vars == <<main_vars, task_deque, atomic_task_count, victim_cursor, pc, task,
          history_vars>>

Worker == 0 .. WorkerCount - 1

InitialTask == Range(InitialTasks)

\* worker_thread_fn is at its loop condition ("check"), at the pop of its own
\* deque ("pop"), at the loop condition of worker_steal_task ("steal"), at the
\* pop of the victim's deque ("probe"), inside worker_handle_task ("handle"),
\* there between the push of a found task and its counting ("count"), or over
\* ("returned").
PC == {"unstarted", "check", "pop", "steal", "probe", "handle", "count",
       "returned"}

Main == {"prepare", "start", "wait", "destroyed"}

-----------------------------------------------------------------------------
\* scheduler_new: empty deques, counter 0, no thread.
Init ==
    /\ init_task_deque = InitialTasks
    /\ task_deque = [w \in Worker |-> <<>>]
    /\ atomic_task_count = 0
    /\ victim_cursor = [w \in Worker |-> 0]
    /\ pc = [w \in Worker |-> "unstarted"]
    /\ task = [w \in Worker |-> NoTask]
    /\ main = "prepare"
    /\ cursor = 0
    /\ fresh = Task \ InitialTask
    /\ done = {}

-----------------------------------------------------------------------------
(* The calling thread.                                                     *)

\* One turn of scheduler_prepare's loop: deal the next task round robin.  No
\* worker thread exists yet.
PrepareTask ==
    /\ main = "prepare"
    /\ init_task_deque # <<>>
    /\ init_task_deque' = Tail(init_task_deque)
    /\ task_deque' = [task_deque EXCEPT ![cursor] =
                        Append(@, Head(init_task_deque))]
    /\ atomic_task_count' = atomic_task_count + 1
    /\ cursor' = (cursor + 1) % WorkerCount
    /\ UNCHANGED <<main, victim_cursor, pc, task, history_vars>>

PrepareEnd ==
    /\ main = "prepare"
    /\ init_task_deque = <<>>
    /\ main' = "start"
    /\ cursor' = 0
    /\ UNCHANGED <<init_task_deque, task_deque, atomic_task_count,
                   victim_cursor, pc, task, history_vars>>

\* Fault: the loop ends one worker early.
Turn_EndsEarly(next) ==
    IF cursor + 2 >= WorkerCount
    THEN main' = next /\ cursor' = 0
    ELSE main' = main /\ cursor' = cursor + 1

\* The loop of scheduler_start or scheduler_wait goes on to the next worker,
\* or is over.
Turn(next) ==
    IF cursor + 1 = WorkerCount
    THEN main' = next /\ cursor' = 0
    ELSE main' = main /\ cursor' = cursor + 1

\* One turn of scheduler_start's loop; a worker runs as soon as it is started.
StartWorker ==
    /\ main = "start"
    /\ pc' = [pc EXCEPT ![cursor] = "check"]
    /\ Turn("wait")
    /\ UNCHANGED <<init_task_deque, task_deque, atomic_task_count,
                   victim_cursor, task, history_vars>>

\* One turn of scheduler_wait's loop; after the last, the deques are freed.
WaitWorker ==
    /\ main = "wait"
    /\ pc[cursor] = "returned"
    /\ Turn("destroyed")
    /\ UNCHANGED <<init_task_deque, task_deque, atomic_task_count,
                   victim_cursor, pc, task, history_vars>>

MainStep == PrepareTask \/ PrepareEnd \/ StartWorker \/ WaitWorker

-----------------------------------------------------------------------------
(* A worker thread.                                                        *)

Goto(w, label) == pc' = [pc EXCEPT ![w] = label]

\* Faults: the last task is left to the others; a worker never leaves.
TasksLeft_OffByOne == atomic_task_count > 1
TasksLeft_AtZero == atomic_task_count >= 0

\* The loop condition of worker_thread_fn and of worker_steal_task.
TasksLeft == atomic_task_count > 0

CheckCount(w) ==
    /\ pc[w] = "check"
    /\ Goto(w, IF TasksLeft THEN "pop" ELSE "returned")
    /\ UNCHANGED <<main_vars, task_deque, atomic_task_count, victim_cursor,
                   task, history_vars>>

\* Fault: the front is read but not removed.
PopFront_Peeks(w, v, otherwise) ==
    \/ /\ task_deque[v] # <<>>
       /\ task' = [task EXCEPT ![w] = Head(task_deque[v])]
       /\ Goto(w, "handle")
       /\ UNCHANGED task_deque
    \/ /\ task_deque[v] = <<>>
       /\ Goto(w, otherwise)
       /\ UNCHANGED <<task, task_deque>>

\* deque_pop_front on the deque of v, by w: with a task w goes on to handle
\* it, without one it goes to `otherwise`.
PopFront(w, v, otherwise) ==
    \/ /\ task_deque[v] # <<>>
       /\ task' = [task EXCEPT ![w] = Head(task_deque[v])]
       /\ task_deque' = [task_deque EXCEPT ![v] = Tail(@)]
       /\ Goto(w, "handle")
    \/ /\ task_deque[v] = <<>>
       /\ Goto(w, otherwise)
       /\ UNCHANGED <<task, task_deque>>

PopOwn(w) ==
    /\ pc[w] = "pop"
    /\ PopFront(w, w, "steal")
    /\ UNCHANGED <<main_vars, atomic_task_count, victim_cursor, history_vars>>

\* Faults: the remainder is taken of one too many; the cursor starts afresh each
\* time.
Bump_OffByOne(c) == (c + 1) % (WorkerCount + 1)
NextVictim_Forgets(w) == IF w = 1 THEN 2 ELSE 1

Bump(c) == (c + 1) % WorkerCount

\* ++victim_cursor, once more when that is the worker itself.
NextVictim(w) ==
    LET first == Bump(victim_cursor[w])
    IN  IF first = w THEN Bump(first) ELSE first

\* The loop condition of worker_steal_task and the choice of the victim.  Out
\* of the loop worker_steal_task returns NULL and the thread function returns.
StealCheck(w) ==
    /\ pc[w] = "steal"
    /\ \/ /\ TasksLeft
          /\ victim_cursor' = [victim_cursor EXCEPT ![w] = NextVictim(w)]
          /\ Goto(w, "probe")
       \/ /\ ~TasksLeft
          /\ Goto(w, "returned")
          /\ UNCHANGED victim_cursor
    /\ UNCHANGED <<main_vars, task_deque, atomic_task_count, task,
                   history_vars>>

\* Fault: the loop condition is tested again before the stolen task is returned.
StealProbe_Drops(w) ==
    /\ pc[w] = "probe"
    /\ LET v == victim_cursor[w]
       IN  task_deque' = [task_deque EXCEPT ![v] =
                            IF @ = <<>> THEN <<>> ELSE Tail(@)]
    /\ Goto(w, "steal")
    /\ UNCHANGED <<main_vars, atomic_task_count, victim_cursor, task, history_vars>>

StealProbe(w) ==
    /\ pc[w] = "probe"
    /\ PopFront(w, victim_cursor[w], "steal")
    /\ UNCHANGED <<main_vars, atomic_task_count, victim_cursor, history_vars>>

\* worker_add_task, first half: the found task is visible to thieves at once.
PushTask(w) ==
    /\ pc[w] = "handle"
    /\ \E t \in fresh :
        /\ fresh' = fresh \ {t}
        /\ task_deque' = [task_deque EXCEPT ![w] = Append(@, t)]
    /\ Goto(w, "count")
    /\ UNCHANGED <<main_vars, atomic_task_count, victim_cursor, task, done>>

\* Fault: a found task is not counted.
CountTask_Forgets(w) ==
    /\ pc[w] = "count"
    /\ Goto(w, "handle")
    /\ UNCHANGED <<main_vars, task_deque, atomic_task_count, victim_cursor,
                   task, history_vars>>

\* worker_add_task, second half.
CountTask(w) ==
    /\ pc[w] = "count"
    /\ atomic_task_count' = atomic_task_count + 1
    /\ Goto(w, "handle")
    /\ UNCHANGED <<main_vars, task_deque, victim_cursor, task, history_vars>>

\* worker_handle_task is over: uncount its task.
FinishTask(w) ==
    /\ pc[w] = "handle"
    /\ atomic_task_count' = atomic_task_count - 1
    /\ done' = done \union {task[w]}
    /\ task' = [task EXCEPT ![w] = NoTask]
    /\ Goto(w, "check")
    /\ UNCHANGED <<main_vars, task_deque, victim_cursor, fresh>>

WorkerStep(w) ==
    \/ CheckCount(w) \/ PopOwn(w) \/ StealCheck(w) \/ StealProbe(w)
    \/ PushTask(w) \/ CountTask(w) \/ FinishTask(w)

-----------------------------------------------------------------------------
Next == MainStep \/ \E w \in Worker : WorkerStep(w)

Spec == Init /\ [][Next]_vars

\* The operating system keeps running every thread.
Fairness == WF_vars(MainStep) /\ \A w \in Worker : WF_vars(WorkerStep(w))

-----------------------------------------------------------------------------
(* Properties.                                                             *)

Queued == UNION {Range(task_deque[w]) : w \in Worker}

Undealt == Range(init_task_deque)

Handling == {w \in Worker : pc[w] \in {"handle", "count"}}

Running == {task[w] : w \in Handling}

\* Workers between the push of a task and its counting.
Uncounted == {w \in Worker : pc[w] = "count"}

\* Tasks dealt or pushed whose handler is not over.
Outstanding == Task \ (fresh \union done \union Undealt)

TypeOK ==
    /\ init_task_deque \in Seq(Task)
    /\ task_deque \in [Worker -> Seq(Task)]
    /\ atomic_task_count \in Int
    /\ victim_cursor \in [Worker -> Worker]
    /\ pc \in [Worker -> PC]
    /\ task \in [Worker -> Task \union {NoTask}]
    /\ \A w \in Handling : task[w] \in Task
    /\ main \in Main
    /\ cursor \in Worker
    /\ fresh \in SUBSET Task
    /\ done \in SUBSET Task

\* A task is never in two places: no two deque slots hold it, no two workers
\* handle it, and none that waits is being handled, was handled or is yet to
\* be created.  A task handled twice would free its two nodes twice.
HandledOnce ==
    /\ \A w \in Worker : IsInjective(task_deque[w])
    /\ \A v, w \in Worker :
        v # w => Range(task_deque[v]) \intersect Range(task_deque[w]) = {}
    /\ \A v, w \in Handling : task[v] = task[w] => v = w
    /\ Queued \intersect Running = {}
    /\ Queued \union Running \subseteq Outstanding

\* No task is lost on its way between the deques and the workers' hands.
NoneLost == Outstanding \subseteq Queued \union Running

\* What the shared counter means although it lags behind the deques: it is the
\* number of outstanding tasks, less one for every worker that has pushed a
\* task and not counted it yet (even when a thief has finished that task).
CountAccounting ==
    atomic_task_count = Cardinality(Outstanding) - Cardinality(Uncounted)

\* The test every worker leaves by (`atomic_task_count > 0` fails) is only ever
\* passed when no deque holds a task, and the size_t counter never wraps below
\* zero.
ZeroMeansNothingQueued ==
    /\ atomic_task_count >= 0
    /\ atomic_task_count = 0 => Queued = {}

\* A worker that has returned left nothing in its deque, and nobody puts a task
\* there later: only its owner pushes to a deque once the threads run.
ReturnedIsDrained ==
    \A w \in Worker : pc[w] = "returned" => task_deque[w] = <<>>

\* When scheduler_destroy frees the deques, no worker is running and every task
\* that was ever created has been handled.
DestroyedIsQuiet ==
    main = "destroyed" =>
        /\ \A w \in Worker : pc[w] = "returned"
        /\ Queued = {}
        /\ done = Task \ fresh
        /\ atomic_task_count = 0

\* A thief that keeps probing comes by every other worker again and again: no
\* deque is out of a thief's reach.
EveryVictimProbed ==
    \A w, v \in Worker :
        w # v =>
            ([]<><<StealProbe(w)>>_vars =>
                []<>(pc[w] = "probe" /\ victim_cursor[w] = v))

\* `run` comes back, if every thread keeps running.
RunReturns == Fairness => <>(main = "destroyed")

\* The scheduler keeps the promise of TaskPool: a task is made by a task that
\* is being handled, is handled once, and `run` concludes when none is left.
\* That the pool's steps do not cease before that is RunReturns.
Pool == INSTANCE TaskPool WITH
    pool <- Undealt \union Queued,
    running <- Running,
    concluded <- (main = "destroyed")

PoolSpec == Pool!Spec
=============================================================================
