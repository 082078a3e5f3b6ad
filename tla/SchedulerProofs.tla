-------------------------- MODULE SchedulerProofs --------------------------
(***************************************************************************)
(* Theorems about Scheduler, for every number of workers and tasks.        *)
(*                                                                         *)
(* The invariants of Scheduler are not inductive one by one.  IInv is      *)
(* their conjunction with what the phases of the calling thread say of     *)
(* the workers.                                                            *)
(***************************************************************************)
EXTENDS Scheduler, FiniteSetTheorems, SequenceTheorems, TLAPS

\* Where the calling thread and the workers are.
Phases ==
    /\ main # "prepare" => init_task_deque = <<>>
    /\ main = "prepare" => \A w \in Worker : pc[w] = "unstarted"
    /\ main = "start" => \A w \in Worker : w >= cursor => pc[w] = "unstarted"
    /\ main = "wait" => \A w \in Worker : w < cursor => pc[w] = "returned"
    /\ main = "destroyed" => \A w \in Worker : pc[w] = "returned"

\* The tasks still in the hands of the calling thread.
UndealtOnce ==
    /\ IsInjective(init_task_deque)
    /\ Undealt \intersect fresh = {}
    /\ Undealt \intersect done = {}
    /\ fresh \intersect done = {}

IInv ==
    /\ TypeOK
    /\ Phases
    /\ UndealtOnce
    /\ HandledOnce
    /\ NoneLost
    /\ CountAccounting
    /\ ReturnedIsDrained

-----------------------------------------------------------------------------
(* Sequences.                                                              *)

\* What Append does to the range of a sequence without repetition.
LEMMA AppendRange ==
    ASSUME NEW S, NEW s \in Seq(S), NEW t \in S
    PROVE  /\ Append(s, t) \in Seq(S)
           /\ Range(Append(s, t)) = Range(s) \union {t}
           /\ IsInjective(s) /\ t \notin Range(s) => IsInjective(Append(s, t))
<1>1. /\ Append(s, t) \in Seq(S)
      /\ Len(Append(s, t)) = Len(s) + 1
      /\ \A i \in 1 .. Len(s) : Append(s, t)[i] = s[i]
      /\ Append(s, t)[Len(s) + 1] = t
      /\ Len(s) \in Nat
    OBVIOUS
<1>2. /\ DOMAIN Append(s, t) = 1 .. Len(s) + 1
      /\ DOMAIN s = 1 .. Len(s)
    BY <1>1
<1>3. Range(Append(s, t)) = Range(s) \union {t}
    BY <1>1, <1>2 DEF Range
<1>4. IsInjective(s) /\ t \notin Range(s) => IsInjective(Append(s, t))
    BY <1>1, <1>2 DEF Range, IsInjective
<1> QED
    BY <1>1, <1>3, <1>4

\* What Head and Tail do to it.
LEMMA TailRange ==
    ASSUME NEW S, NEW s \in Seq(S), s # <<>>
    PROVE  /\ Head(s) \in S
           /\ Tail(s) \in Seq(S)
           /\ Range(s) = Range(Tail(s)) \union {Head(s)}
           /\ IsInjective(s) => IsInjective(Tail(s)) /\ Head(s) \notin Range(Tail(s))
<1>1. /\ Head(s) = s[1] /\ Head(s) \in S
      /\ Tail(s) \in Seq(S)
      /\ Len(Tail(s)) = Len(s) - 1
      /\ \A i \in 1 .. Len(Tail(s)) : Tail(s)[i] = s[i + 1]
      /\ Len(s) \in Nat \ {0}
    BY HeadTailProperties, EmptySeq
<1>2. /\ DOMAIN Tail(s) = 1 .. Len(s) - 1
      /\ DOMAIN s = 1 .. Len(s)
    BY <1>1
<1>3. Range(s) = Range(Tail(s)) \union {Head(s)}
  <2>1. ASSUME NEW x \in Range(s) PROVE x \in Range(Tail(s)) \union {Head(s)}
    <3>1. PICK i \in 1 .. Len(s) : x = s[i]
        BY <1>2 DEF Range
    <3>2. CASE i = 1
        BY <1>1, <3>1, <3>2
    <3>3. CASE i # 1
      <4>1. i - 1 \in 1 .. Len(s) - 1 /\ Tail(s)[i - 1] = s[i]
          BY <1>1, <3>3
      <4> QED
          BY <1>2, <3>1, <4>1 DEF Range
    <3> QED
        BY <3>2, <3>3
  <2>2. ASSUME NEW x \in Range(Tail(s)) PROVE x \in Range(s)
      BY <1>1, <1>2 DEF Range
  <2>3. Head(s) \in Range(s)
      BY <1>1, <1>2 DEF Range
  <2> QED
      BY <2>1, <2>2, <2>3
<1>4. IsInjective(s) => IsInjective(Tail(s)) /\ Head(s) \notin Range(Tail(s))
    BY <1>1, <1>2 DEF Range, IsInjective
<1> QED
    BY <1>1, <1>3, <1>4

-----------------------------------------------------------------------------
(* The state stays well-typed.                                             *)

LEMMA WorkerFacts ==
    /\ 0 \in Worker
    /\ \A c \in Worker : (c + 1) % WorkerCount \in Worker
    /\ \A c \in Worker : c + 1 # WorkerCount => c + 1 \in Worker
    /\ \A c \in Worker : c \in Int
BY WorkerCountAssumption DEF Worker

LEMMA NextVictimType ==
    ASSUME TypeOK, NEW w \in Worker
    PROVE  NextVictim(w) \in Worker
<1> DEFINE first == (victim_cursor[w] + 1) % WorkerCount
<1>1. first \in Worker
    BY WorkerFacts DEF TypeOK
<1>2. (first + 1) % WorkerCount \in Worker
    BY <1>1, WorkerFacts
<1> QED
    BY <1>1, <1>2 DEF NextVictim, Bump

LEMMA PopFrontType ==
    ASSUME TypeOK, NEW w \in Worker, NEW v \in Worker, NEW otherwise \in PC,
           PopFront(w, v, otherwise)
    PROVE  /\ task_deque' \in [Worker -> Seq(Task)]
           /\ task' \in [Worker -> Task \union {NoTask}]
           /\ pc' \in [Worker -> PC]
           /\ otherwise \notin {"handle", "count"} => \A u \in Handling' : task'[u] \in Task
<1>1. CASE task_deque[v] # <<>>
  <2>1. task_deque[v] \in Seq(Task)
      BY DEF TypeOK
  <2>2. Head(task_deque[v]) \in Task /\ Tail(task_deque[v]) \in Seq(Task)
      BY <1>1, <2>1, TailRange
  <2>3. /\ task_deque' = [task_deque EXCEPT ![v] = Tail(@)]
        /\ task' = [task EXCEPT ![w] = Head(task_deque[v])]
        /\ pc' = [pc EXCEPT ![w] = "handle"]
      BY <1>1 DEF PopFront, Goto
  <2> QED
      BY <2>2, <2>3 DEF TypeOK, PC, Handling
<1>2. CASE task_deque[v] = <<>>
  <2>1. /\ UNCHANGED <<task, task_deque>>
        /\ pc' = [pc EXCEPT ![w] = otherwise]
      BY <1>2 DEF PopFront, Goto
  <2> QED
      BY <2>1 DEF TypeOK, Handling
<1> QED
    BY <1>1, <1>2

LEMMA TypeStep == TypeOK /\ [Next]_vars => TypeOK'
<1> SUFFICES ASSUME TypeOK, [Next]_vars
             PROVE  TypeOK'
    OBVIOUS
<1> USE DEF main_vars, history_vars, Handling
<1>1. CASE PrepareTask
  <2>1. Head(init_task_deque) \in Task /\ Tail(init_task_deque) \in Seq(Task)
      BY <1>1, TailRange DEF PrepareTask, TypeOK
  <2>2. task_deque' \in [Worker -> Seq(Task)]
      BY <1>1, <2>1 DEF PrepareTask, TypeOK
  <2>3. cursor' \in Worker
      BY <1>1, WorkerFacts DEF PrepareTask, TypeOK
  <2> QED
      BY <1>1, <2>1, <2>2, <2>3 DEF PrepareTask, TypeOK
<1>2. CASE PrepareEnd
    BY <1>2, WorkerFacts DEF PrepareEnd, TypeOK, Main
<1>3. CASE StartWorker
    BY <1>3, WorkerFacts DEF StartWorker, Turn, TypeOK, Main, PC
<1>4. CASE WaitWorker
    BY <1>4, WorkerFacts DEF WaitWorker, Turn, TypeOK, Main
<1>5. ASSUME NEW w \in Worker, WorkerStep(w)
      PROVE  TypeOK'
  <2>1. CASE CheckCount(w)
      BY <2>1 DEF CheckCount, Goto, TypeOK, PC
  <2>2. CASE PopOwn(w)
      BY <2>2, PopFrontType DEF PopOwn, TypeOK, PC
  <2>3. CASE StealCheck(w)
    <3>1. victim_cursor' \in [Worker -> Worker]
        BY <2>3, NextVictimType DEF StealCheck, TypeOK
    <3> QED
        BY <2>3, <3>1 DEF StealCheck, Goto, TypeOK, PC
  <2>4. CASE StealProbe(w)
    <3>1. victim_cursor[w] \in Worker /\ "steal" \in PC
        BY DEF TypeOK, PC
    <3>2. PopFront(w, victim_cursor[w], "steal")
        BY <2>4 DEF StealProbe
    <3>3. /\ task_deque' \in [Worker -> Seq(Task)]
          /\ task' \in [Worker -> Task \union {NoTask}]
          /\ pc' \in [Worker -> PC]
          /\ \A u \in Handling' : task'[u] \in Task
      <4> HIDE DEF Handling
      <4> QED
          BY <3>1, <3>2, PopFrontType
    <3> QED
        BY <2>4, <3>3 DEF StealProbe, TypeOK
  <2>5. CASE PushTask(w)
    <3>1. PICK t \in fresh : /\ fresh' = fresh \ {t}
                             /\ task_deque' = [task_deque EXCEPT ![w] = Append(@, t)]
        BY <2>5 DEF PushTask
    <3>2. Append(task_deque[w], t) \in Seq(Task)
        BY <3>1 DEF TypeOK
    <3> QED
        BY <2>5, <3>1, <3>2 DEF PushTask, Goto, TypeOK, PC
  <2>6. CASE CountTask(w)
      BY <2>6 DEF CountTask, Goto, TypeOK, PC
  <2>7. CASE FinishTask(w)
    <3>1. done' \in SUBSET Task
        BY <2>7 DEF FinishTask, TypeOK, Handling
    <3> QED
        BY <2>7, <3>1 DEF FinishTask, Goto, TypeOK, PC
  <2> QED
      BY <1>5, <2>1, <2>2, <2>3, <2>4, <2>5, <2>6, <2>7 DEF WorkerStep
<1>6. CASE UNCHANGED vars
    BY <1>6 DEF vars, TypeOK
<1> QED
    BY <1>1, <1>2, <1>3, <1>4, <1>5, <1>6 DEF Next, MainStep

-----------------------------------------------------------------------------
(* Where the tasks are, and what the counter says.                         *)

Places == UndealtOnce /\ HandledOnce /\ NoneLost /\ CountAccounting

LEMMA Finite == IsFiniteSet(Outstanding) /\ IsFiniteSet(Uncounted)
<1>1. IsFiniteSet(Outstanding)
    BY TaskAssumption, FS_Subset DEF Outstanding
<1>2. IsFiniteSet(Worker)
    BY WorkerCountAssumption, FS_Interval DEF Worker
<1>3. Uncounted \in SUBSET Worker
    BY DEF Uncounted
<1> QED
    BY <1>1, <1>2, <1>3, FS_Subset

\* A step that moves no task and does not count.
LEMMA QuietStep ==
    ASSUME Places, Handling' = Handling, Uncounted' = Uncounted,
           UNCHANGED <<init_task_deque, task_deque, atomic_task_count, task,
                       fresh, done>>
    PROVE  Places' /\ UNCHANGED <<Undealt, Queued, Running>>
BY DEF Places, UndealtOnce, HandledOnce, NoneLost, CountAccounting, Outstanding,
       Undealt, Queued, Running

\* A pop, whether from a worker's own deque or from a victim's.
LEMMA PopStep ==
    ASSUME TypeOK, Places, NEW w \in Worker, NEW v \in Worker,
           NEW otherwise \in PC \ {"handle", "count"}, w \notin Handling,
           PopFront(w, v, otherwise),
           UNCHANGED <<init_task_deque, atomic_task_count, fresh, done>>
    PROVE  /\ Places'
           /\ UNCHANGED Undealt
           /\ \/ UNCHANGED <<Queued, Running>>
              \/ \E t \in Queued : Queued' = Queued \ {t} /\ Running' = Running \union {t}
<1>1. CASE task_deque[v] = <<>>
  <2>1. UNCHANGED <<task, task_deque>> /\ pc' = [pc EXCEPT ![w] = otherwise]
      BY <1>1 DEF PopFront, Goto
  <2>2. Handling' = Handling /\ Uncounted' = Uncounted
      BY <2>1 DEF Handling, Uncounted, TypeOK
  <2> QED
      BY <2>1, <2>2, QuietStep
<1>2. CASE task_deque[v] # <<>>
  <2> DEFINE h == Head(task_deque[v])
  <2>1. /\ task_deque' = [task_deque EXCEPT ![v] = Tail(@)]
        /\ task' = [task EXCEPT ![w] = h]
        /\ pc' = [pc EXCEPT ![w] = "handle"]
      BY <1>2 DEF PopFront, Goto
  <2>2. task_deque[v] \in Seq(Task) /\ IsInjective(task_deque[v])
      BY DEF TypeOK, Places, HandledOnce
  <2>3. /\ h \in Task
        /\ Range(task_deque[v]) = Range(Tail(task_deque[v])) \union {h}
        /\ h \notin Range(Tail(task_deque[v]))
        /\ IsInjective(Tail(task_deque[v]))
      BY <1>2, <2>2, TailRange
  <2>4. \A u \in Worker : task_deque'[u] = IF u = v THEN Tail(task_deque[v]) ELSE task_deque[u]
      BY <2>1 DEF TypeOK
  <2>5. \A u \in Worker : Range(task_deque'[u]) = Range(task_deque[u]) \ {h}
    <3> SUFFICES ASSUME NEW u \in Worker
                 PROVE  Range(task_deque'[u]) = Range(task_deque[u]) \ {h}
        OBVIOUS
    <3>1. CASE u = v
        BY <3>1, <2>3, <2>4
    <3>2. CASE u # v
      <4>1. Range(task_deque[u]) \intersect Range(task_deque[v]) = {}
          BY <3>2 DEF Places, HandledOnce
      <4> QED
          BY <3>2, <4>1, <2>3, <2>4
    <3> QED
        BY <3>1, <3>2
  <2>6. Queued' = Queued \ {h} /\ h \in Queued
      BY <2>3, <2>5 DEF Queued
  <2>7. Handling' = Handling \union {w} /\ Uncounted' = Uncounted
      BY <2>1 DEF Handling, Uncounted, TypeOK
  <2>8. \A u \in Handling : task'[u] = task[u] /\ u \in Worker
      BY <2>1 DEF Handling, TypeOK
  <2>9. task'[w] = h
      BY <2>1 DEF TypeOK
  <2>10. Running' = Running \union {h}
      BY <2>7, <2>8, <2>9 DEF Running
  <2>11. Outstanding' = Outstanding /\ Undealt' = Undealt
      BY DEF Outstanding, Undealt
  <2>12. HandledOnce'
    <3>1. \A u \in Worker : IsInjective(task_deque'[u])
        BY <2>3, <2>4 DEF Places, HandledOnce
    <3>2. \A x, y \in Worker :
            x # y => Range(task_deque'[x]) \intersect Range(task_deque'[y]) = {}
        BY <2>5 DEF Places, HandledOnce
    <3>3. h \notin Running
        BY <2>6 DEF Places, HandledOnce
    <3>4. \A x, y \in Handling' : task'[x] = task'[y] => x = y
        BY <2>7, <2>8, <2>9, <3>3 DEF Places, HandledOnce, Running
    <3>5. Queued' \intersect Running' = {} /\ Queued' \union Running' \subseteq Outstanding'
        BY <2>6, <2>10, <2>11 DEF Places, HandledOnce
    <3> QED
        BY <3>1, <3>2, <3>4, <3>5 DEF HandledOnce
  <2>13. NoneLost'
      BY <2>6, <2>10, <2>11 DEF Places, NoneLost
  <2>14. UndealtOnce' /\ CountAccounting'
      BY <2>7, <2>11 DEF Places, UndealtOnce, CountAccounting
  <2> QED
      BY <2>6, <2>10, <2>11, <2>12, <2>13, <2>14 DEF Places
<1> QED
    BY <1>1, <1>2

\* What pushing a task that is in no deque does to the deques.
LEMMA Enqueue ==
    ASSUME TypeOK, HandledOnce, NEW w \in Worker, NEW t \in Task, t \notin Queued,
           task_deque' = [task_deque EXCEPT ![w] = Append(@, t)]
    PROVE  /\ Queued' = Queued \union {t}
           /\ \A u \in Worker : IsInjective(task_deque'[u])
           /\ \A x, y \in Worker :
                x # y => Range(task_deque'[x]) \intersect Range(task_deque'[y]) = {}
<1>1. task_deque[w] \in Seq(Task) /\ IsInjective(task_deque[w]) /\ t \notin Range(task_deque[w])
    BY DEF TypeOK, HandledOnce, Queued
<1>2. /\ Range(Append(task_deque[w], t)) = Range(task_deque[w]) \union {t}
      /\ IsInjective(Append(task_deque[w], t))
    BY <1>1, AppendRange
<1>3. /\ task_deque'[w] = Append(task_deque[w], t)
      /\ \A u \in Worker : u # w => task_deque'[u] = task_deque[u]
    BY DEF TypeOK
<1>4. /\ Range(task_deque'[w]) = Range(task_deque[w]) \union {t}
      /\ \A u \in Worker : u # w => Range(task_deque'[u]) = Range(task_deque[u])
    BY <1>2, <1>3
<1>5. Queued' = Queued \union {t}
  <2>1. ASSUME NEW q \in Queued'
        PROVE  q \in Queued \union {t}
    <3>1. PICK u \in Worker : q \in Range(task_deque'[u])
        BY DEF Queued
    <3> QED
        BY <1>4, <3>1 DEF Queued
  <2>2. ASSUME NEW q \in Queued
        PROVE  q \in Queued'
    <3>1. PICK u \in Worker : q \in Range(task_deque[u])
        BY DEF Queued
    <3> QED
        BY <1>4, <3>1 DEF Queued
  <2>3. t \in Queued'
      BY <1>4 DEF Queued
  <2> QED
      BY <2>1, <2>2, <2>3
<1>6. \A u \in Worker : IsInjective(task_deque'[u])
  <2> SUFFICES ASSUME NEW u \in Worker PROVE IsInjective(task_deque'[u])
      OBVIOUS
  <2>1. CASE u = w
      BY <1>2, <1>3, <2>1
  <2>2. CASE u # w
      BY <1>3, <2>2 DEF HandledOnce
  <2> QED
      BY <2>1, <2>2
<1>7. \A x, y \in Worker :
        x # y => Range(task_deque'[x]) \intersect Range(task_deque'[y]) = {}
  <2> SUFFICES ASSUME NEW x \in Worker, NEW y \in Worker, x # y
               PROVE  Range(task_deque'[x]) \intersect Range(task_deque'[y]) = {}
      OBVIOUS
  <2>1. t \notin Range(task_deque[x]) /\ t \notin Range(task_deque[y])
      BY DEF Queued
  <2>2. Range(task_deque[x]) \intersect Range(task_deque[y]) = {}
      BY DEF HandledOnce
  <2>3. CASE x = w
      BY <1>4, <2>1, <2>2, <2>3
  <2>4. CASE y = w
      BY <1>4, <2>1, <2>2, <2>4
  <2>5. CASE x # w /\ y # w
      BY <1>4, <2>2, <2>5
  <2> QED
      BY <2>3, <2>4, <2>5
<1> QED
    BY <1>5, <1>6, <1>7

LEMMA PrepareStep ==
    ASSUME TypeOK, Places, PrepareTask
    PROVE  /\ Places'
           /\ UNCHANGED Running
           /\ \E t \in Undealt : Undealt' = Undealt \ {t} /\ Queued' = Queued \union {t}
<1> DEFINE h == Head(init_task_deque)
<1>1. /\ h \in Task
      /\ Undealt = Range(Tail(init_task_deque)) \union {h}
      /\ h \notin Range(Tail(init_task_deque))
      /\ IsInjective(Tail(init_task_deque))
    BY TailRange DEF PrepareTask, TypeOK, Places, UndealtOnce, Undealt
<1>2. Undealt' = Undealt \ {h} /\ h \in Undealt
    BY <1>1 DEF PrepareTask, Undealt
<1>3. h \notin Outstanding /\ h \notin fresh /\ h \notin done
    BY <1>2 DEF Outstanding, Places, UndealtOnce
<1>4. h \notin Queued /\ h \notin Running
    BY <1>3 DEF Places, HandledOnce
<1>5. /\ Queued' = Queued \union {h}
      /\ \A u \in Worker : IsInjective(task_deque'[u])
      /\ \A x, y \in Worker :
            x # y => Range(task_deque'[x]) \intersect Range(task_deque'[y]) = {}
  <2>1. cursor \in Worker /\ task_deque' = [task_deque EXCEPT ![cursor] = Append(@, h)]
      BY DEF PrepareTask, TypeOK
  <2> HIDE DEF h
  <2> QED
      BY <1>1, <1>4, <2>1, Enqueue DEF Places
<1>6. UNCHANGED <<fresh, done, task, pc>>
    BY DEF PrepareTask, history_vars
<1>7. Outstanding' = Outstanding \union {h}
    BY <1>1, <1>2, <1>3, <1>6 DEF Outstanding
<1>8. Handling' = Handling /\ Uncounted' = Uncounted /\ Running' = Running
    BY <1>6 DEF Handling, Uncounted, Running
<1>9. UndealtOnce'
    BY <1>1, <1>2, <1>6 DEF PrepareTask, Places, UndealtOnce
<1>10. HandledOnce'
    BY <1>4, <1>5, <1>6, <1>7, <1>8 DEF Places, HandledOnce
<1>11. NoneLost'
    BY <1>5, <1>7, <1>8 DEF Places, NoneLost
<1>12. CountAccounting'
  <2>1. Cardinality(Outstanding') = Cardinality(Outstanding) + 1
      BY <1>3, <1>7, Finite, FS_AddElement
  <2>2. Cardinality(Outstanding) \in Nat /\ Cardinality(Uncounted) \in Nat
      BY Finite, FS_CardinalityType
  <2> QED
      BY <1>8, <2>1, <2>2 DEF PrepareTask, Places, CountAccounting
<1> QED
    BY <1>2, <1>5, <1>8, <1>9, <1>10, <1>11, <1>12 DEF Places

LEMMA PushStep ==
    ASSUME TypeOK, Places, NEW w \in Worker, PushTask(w)
    PROVE  /\ Places'
           /\ UNCHANGED <<Undealt, Running>> /\ Running # {}
           /\ \E t \in fresh : fresh' = fresh \ {t} /\ Queued' = Queued \union {t}
<1>1. PICK t \in fresh : /\ fresh' = fresh \ {t}
                         /\ task_deque' = [task_deque EXCEPT ![w] = Append(@, t)]
    BY DEF PushTask
<1>2. /\ t \in Task /\ t \notin Outstanding /\ t \notin Undealt /\ t \notin done
    BY <1>1 DEF TypeOK, Outstanding, Places, UndealtOnce
<1>3. t \notin Queued /\ t \notin Running
    BY <1>2 DEF Places, HandledOnce
<1>4. /\ Queued' = Queued \union {t}
      /\ \A u \in Worker : IsInjective(task_deque'[u])
      /\ \A x, y \in Worker :
            x # y => Range(task_deque'[x]) \intersect Range(task_deque'[y]) = {}
    BY <1>1, <1>2, <1>3, Enqueue DEF Places
<1>5. /\ UNCHANGED <<done, task, init_task_deque, atomic_task_count>>
      /\ pc[w] = "handle" /\ pc' = [pc EXCEPT ![w] = "count"]
    BY DEF PushTask, Goto, main_vars
<1>6. Outstanding' = Outstanding \union {t} /\ Undealt' = Undealt
    BY <1>1, <1>2, <1>5 DEF Outstanding, Undealt
<1>7. Handling' = Handling /\ Running' = Running
    BY <1>5 DEF Handling, Running, TypeOK
<1>8. Uncounted' = Uncounted \union {w} /\ w \notin Uncounted
    BY <1>5 DEF Uncounted, TypeOK
<1>9. UndealtOnce'
    BY <1>1, <1>5, <1>6 DEF Places, UndealtOnce
<1>10. HandledOnce'
    BY <1>2, <1>3, <1>4, <1>5, <1>6, <1>7 DEF Places, HandledOnce
<1>11. NoneLost'
    BY <1>4, <1>6, <1>7 DEF Places, NoneLost
<1>12. CountAccounting'
  <2>1. /\ Cardinality(Outstanding') = Cardinality(Outstanding) + 1
        /\ Cardinality(Uncounted') = Cardinality(Uncounted) + 1
      BY <1>2, <1>6, <1>8, Finite, FS_AddElement
  <2>2. Cardinality(Outstanding) \in Nat /\ Cardinality(Uncounted) \in Nat
      BY Finite, FS_CardinalityType
  <2> QED
      BY <1>5, <2>1, <2>2 DEF Places, CountAccounting
<1>13. Running # {}
    BY <1>5 DEF Running, Handling
<1> QED
    BY <1>1, <1>4, <1>5, <1>6, <1>7, <1>13, <1>9, <1>10, <1>11, <1>12 DEF Places

LEMMA CountStep ==
    ASSUME TypeOK, Places, NEW w \in Worker, CountTask(w)
    PROVE  Places' /\ UNCHANGED <<Undealt, Queued, Running>>
<1>1. /\ UNCHANGED <<init_task_deque, task_deque, task, fresh, done>>
      /\ atomic_task_count' = atomic_task_count + 1
      /\ pc[w] = "count" /\ pc' = [pc EXCEPT ![w] = "handle"]
    BY DEF CountTask, Goto, main_vars, history_vars
<1>2. Handling' = Handling /\ Running' = Running
    BY <1>1 DEF Handling, Running, TypeOK
<1>3. Uncounted' = Uncounted \ {w} /\ w \in Uncounted
    BY <1>1 DEF Uncounted, TypeOK
<1>4. Outstanding' = Outstanding /\ Undealt' = Undealt /\ Queued' = Queued
    BY <1>1 DEF Outstanding, Undealt, Queued
<1>5. UndealtOnce' /\ HandledOnce' /\ NoneLost'
    BY <1>1, <1>2, <1>4 DEF Places, UndealtOnce, HandledOnce, NoneLost
<1>6. CountAccounting'
  <2>1. Cardinality(Uncounted') = Cardinality(Uncounted) - 1
      BY <1>3, Finite, FS_RemoveElement
  <2>2. Cardinality(Outstanding) \in Nat /\ Cardinality(Uncounted) \in Nat
      BY Finite, FS_CardinalityType
  <2> QED
      BY <1>1, <1>4, <2>1, <2>2 DEF Places, CountAccounting
<1> QED
    BY <1>2, <1>4, <1>5, <1>6 DEF Places

LEMMA FinishStep ==
    ASSUME TypeOK, Places, NEW w \in Worker, FinishTask(w)
    PROVE  /\ Places'
           /\ UNCHANGED <<Undealt, Queued>>
           /\ \E t \in Running : Running' = Running \ {t} /\ done' = done \union {t}
<1>1. /\ UNCHANGED <<init_task_deque, task_deque, fresh>>
      /\ atomic_task_count' = atomic_task_count - 1
      /\ done' = done \union {task[w]}
      /\ task' = [task EXCEPT ![w] = NoTask]
      /\ pc[w] = "handle" /\ pc' = [pc EXCEPT ![w] = "check"]
    BY DEF FinishTask, Goto, main_vars
<1>2. Handling' = Handling \ {w} /\ w \in Handling /\ Uncounted' = Uncounted
    BY <1>1 DEF Handling, Uncounted, TypeOK
<1>3. \A u \in Handling' : task'[u] = task[u]
    BY <1>1, <1>2 DEF Handling, TypeOK
<1>4. \A u \in Handling' : task[u] # task[w]
    BY <1>2 DEF Places, HandledOnce
<1>5. Running' = Running \ {task[w]} /\ task[w] \in Running
    BY <1>2, <1>3, <1>4 DEF Running
<1>6. task[w] \in Outstanding /\ task[w] \notin Queued
    BY <1>5 DEF Places, HandledOnce
<1>7. /\ Outstanding' = Outstanding \ {task[w]}
      /\ Undealt' = Undealt /\ Queued' = Queued
    BY <1>1 DEF Outstanding, Undealt, Queued
<1>8. UndealtOnce'
  <2>1. task[w] \notin fresh /\ task[w] \notin Undealt
      BY <1>6 DEF Outstanding
  <2> QED
      BY <1>1, <1>7, <2>1 DEF Places, UndealtOnce
<1>9. HandledOnce'
  <2>1. \A x, y \in Handling' : task'[x] = task'[y] => x = y
      BY <1>2, <1>3 DEF Places, HandledOnce
  <2>2. Queued' \intersect Running' = {} /\ Queued' \union Running' \subseteq Outstanding'
      BY <1>5, <1>6, <1>7 DEF Places, HandledOnce
  <2> QED
      BY <1>1, <2>1, <2>2 DEF Places, HandledOnce
<1>10. NoneLost'
    BY <1>5, <1>7 DEF Places, NoneLost
<1>11. CountAccounting'
  <2>1. Cardinality(Outstanding') = Cardinality(Outstanding) - 1
      BY <1>6, <1>7, Finite, FS_RemoveElement
  <2>2. Cardinality(Outstanding) \in Nat /\ Cardinality(Uncounted) \in Nat
      BY Finite, FS_CardinalityType
  <2> QED
      BY <1>1, <1>2, <2>1, <2>2 DEF Places, CountAccounting
<1> QED
    BY <1>1, <1>5, <1>7, <1>8, <1>9, <1>10, <1>11 DEF Places

-----------------------------------------------------------------------------
(* What the counter is worth to a worker that reads it.                    *)

\* Every uncounted push is matched by a task in the pusher's own hands, so the
\* counter is at least the number of queued tasks.
LEMMA CounterCoversQueues ==
    ASSUME TypeOK, Places
    PROVE  ZeroMeansNothingQueued
<1> DEFINE f == [w \in Uncounted |-> task[w]]
<1>1. Uncounted \subseteq Handling
    BY DEF Uncounted, Handling
<1>2. \A v, w \in Uncounted : f[v] = f[w] => v = w
    BY <1>1 DEF Places, HandledOnce
<1>3. \A w \in Uncounted : f[w] \in Outstanding \ Queued
    BY <1>1 DEF Places, HandledOnce, Running
<1>4. /\ IsFiniteSet(Outstanding) /\ IsFiniteSet(Uncounted)
      /\ Cardinality(Outstanding) \in Nat /\ Cardinality(Uncounted) \in Nat
    BY Finite, FS_CardinalityType
<1>5. atomic_task_count = Cardinality(Outstanding) - Cardinality(Uncounted)
    BY DEF Places, CountAccounting
<1>6. Cardinality(Uncounted) <= Cardinality(Outstanding)
  <2>1. f \in [Uncounted -> Outstanding]
      BY <1>3
  <2>2. ~(Cardinality(Outstanding) < Cardinality(Uncounted))
    <3> HIDE DEF f
    <3> QED
        BY <1>2, <1>4, <2>1, FS_PigeonHole
  <2> QED
      BY <1>4, <2>2
<1>7. ASSUME NEW q \in Queued
      PROVE  Cardinality(Uncounted) < Cardinality(Outstanding)
  <2> DEFINE rest == Outstanding \ {q}
  <2>1. q \in Outstanding
      BY DEF Places, HandledOnce
  <2>2. IsFiniteSet(rest) /\ Cardinality(rest) = Cardinality(Outstanding) - 1
      BY <1>4, <2>1, FS_RemoveElement
  <2>3. f \in [Uncounted -> rest]
      BY <1>3
  <2>4. ~(Cardinality(rest) < Cardinality(Uncounted))
    <3> HIDE DEF f, rest
    <3> QED
        BY <1>2, <1>4, <2>2, <2>3, FS_PigeonHole
  <2> QED
      BY <1>4, <2>2, <2>4
<1>8. atomic_task_count >= 0
    BY <1>4, <1>5, <1>6
<1>9. atomic_task_count = 0 => Queued = {}
    BY <1>4, <1>5, <1>7
<1> QED
    BY <1>8, <1>9 DEF ZeroMeansNothingQueued

LEMMA EmptyDeque ==
    ASSUME TypeOK, NEW w \in Worker, Queued = {}
    PROVE  task_deque[w] = <<>>
<1>1. task_deque[w] \in Seq(Task)
    BY DEF TypeOK
<1>2. \A q \in Range(task_deque[w]) : q \in Queued
    BY DEF Queued
<1>3. task_deque[w] # <<>> => Head(task_deque[w]) \in Range(task_deque[w])
    BY <1>1, TailRange
<1> QED
    BY <1>2, <1>3

-----------------------------------------------------------------------------
(* The inductive invariant.                                                *)

LEMMA InitInv == Init => IInv
<1> SUFFICES ASSUME Init PROVE IInv
    OBVIOUS
<1>1. \A w \in Worker : task_deque[w] = <<>> /\ pc[w] = "unstarted"
    BY DEF Init
<1>2. Range(<<>>) = {} /\ IsInjective(<<>>) /\ <<>> \in Seq(Task)
    BY DEF Range, IsInjective
<1>3. Queued = {} /\ Handling = {} /\ Running = {} /\ Uncounted = {}
    BY <1>1, <1>2 DEF Queued, Handling, Running, Uncounted
<1>4. Undealt = InitialTask /\ InitialTask \subseteq Task
  <2>1. \A i \in DOMAIN InitialTasks : InitialTasks[i] \in Task
      BY TaskAssumption
  <2> QED
      BY <2>1 DEF Init, Undealt, InitialTask, Range
<1>5. Outstanding = {}
    BY <1>4 DEF Outstanding, Init
<1>6. TypeOK
  <2>1. /\ init_task_deque \in Seq(Task)
        /\ task_deque \in [Worker -> Seq(Task)]
        /\ atomic_task_count \in Int
      BY <1>2, TaskAssumption DEF Init
  <2>2. /\ victim_cursor \in [Worker -> Worker]
        /\ pc \in [Worker -> PC]
        /\ task \in [Worker -> Task \union {NoTask}]
      BY WorkerFacts DEF Init, PC
  <2>3. main \in Main /\ cursor \in Worker /\ fresh \in SUBSET Task /\ done \in SUBSET Task
      BY WorkerFacts DEF Init, Main
  <2> QED
      BY <1>3, <2>1, <2>2, <2>3 DEF TypeOK
<1>7. Phases
  <2>1. main = "prepare"
      BY DEF Init
  <2> QED
      BY <1>1, <2>1 DEF Phases
<1>8. UndealtOnce
    BY <1>4, TaskAssumption DEF Init, UndealtOnce
<1>9. HandledOnce
    BY <1>1, <1>2, <1>3, <1>5 DEF HandledOnce
<1>10. NoneLost
    BY <1>5 DEF NoneLost
<1>11. CountAccounting
    BY <1>3, <1>5, FS_EmptySet DEF Init, CountAccounting
<1>12. ReturnedIsDrained
    BY <1>1 DEF ReturnedIsDrained
<1> QED
    BY <1>6, <1>7, <1>8, <1>9, <1>10, <1>11, <1>12 DEF IInv

LEMMA PlacesStep ==
    ASSUME IInv, [Next]_vars
    PROVE  Places'
<1> USE DEF main_vars, history_vars
<1>0. TypeOK /\ Places /\ Phases
    BY DEF IInv, Places
<1>1. CASE PrepareTask
    BY <1>0, <1>1, PrepareStep
<1>2. CASE PrepareEnd
  <2>1. Handling' = Handling /\ Uncounted' = Uncounted
      BY <1>2 DEF PrepareEnd, Handling, Uncounted
  <2> QED
      BY <1>0, <1>2, <2>1, QuietStep DEF PrepareEnd
<1>3. CASE StartWorker
  <2>1. pc[cursor] = "unstarted" /\ pc' = [pc EXCEPT ![cursor] = "check"]
      BY <1>0, <1>3, WorkerFacts DEF StartWorker, Phases, TypeOK
  <2>2. Handling' = Handling /\ Uncounted' = Uncounted
      BY <1>0, <2>1 DEF Handling, Uncounted, TypeOK
  <2> QED
      BY <1>0, <1>3, <2>2, QuietStep DEF StartWorker
<1>4. CASE WaitWorker
  <2>1. Handling' = Handling /\ Uncounted' = Uncounted
      BY <1>4 DEF WaitWorker, Handling, Uncounted
  <2> QED
      BY <1>0, <1>4, <2>1, QuietStep DEF WaitWorker
<1>5. ASSUME NEW w \in Worker, WorkerStep(w)
      PROVE  Places'
  <2>1. CASE CheckCount(w)
    <3>1. Handling' = Handling /\ Uncounted' = Uncounted
        BY <1>0, <2>1 DEF CheckCount, Goto, Handling, Uncounted, TypeOK
    <3> QED
        BY <1>0, <2>1, <3>1, QuietStep DEF CheckCount
  <2>2. CASE PopOwn(w)
    <3>1. w \notin Handling /\ "steal" \in PC \ {"handle", "count"}
        BY <2>2 DEF PopOwn, Handling, PC
    <3> QED
        BY <1>0, <2>2, <3>1, PopStep DEF PopOwn
  <2>3. CASE StealCheck(w)
    <3>1. Handling' = Handling /\ Uncounted' = Uncounted
        BY <1>0, <2>3 DEF StealCheck, Goto, Handling, Uncounted, TypeOK
    <3> QED
        BY <1>0, <2>3, <3>1, QuietStep DEF StealCheck
  <2>4. CASE StealProbe(w)
    <3>1. w \notin Handling /\ "steal" \in PC \ {"handle", "count"}
        BY <2>4 DEF StealProbe, Handling, PC
    <3>2. victim_cursor[w] \in Worker
        BY <1>0 DEF TypeOK
    <3>3. PopFront(w, victim_cursor[w], "steal")
        BY <2>4 DEF StealProbe
    <3>4. UNCHANGED <<init_task_deque, atomic_task_count, fresh, done>>
        BY <2>4 DEF StealProbe
    <3> QED
        BY <1>0, <3>1, <3>2, <3>3, <3>4, PopStep
  <2>5. CASE PushTask(w)
      BY <1>0, <2>5, PushStep
  <2>6. CASE CountTask(w)
      BY <1>0, <2>6, CountStep
  <2>7. CASE FinishTask(w)
      BY <1>0, <2>7, FinishStep
  <2> QED
      BY <1>5, <2>1, <2>2, <2>3, <2>4, <2>5, <2>6, <2>7 DEF WorkerStep
<1>6. CASE UNCHANGED vars
  <2>1. Handling' = Handling /\ Uncounted' = Uncounted
      BY <1>6 DEF vars, Handling, Uncounted
  <2> QED
      BY <1>0, <1>6, <2>1, QuietStep DEF vars
<1> QED
    BY <1>1, <1>2, <1>3, <1>4, <1>5, <1>6 DEF Next, MainStep

LEMMA PhasesStep ==
    ASSUME TypeOK, Phases, [Next]_vars
    PROVE  Phases'
<1> USE DEF main_vars, history_vars
<1>0. /\ pc \in [Worker -> PC] /\ cursor \in Worker
      /\ \A w \in Worker : w \in Int /\ 0 <= w /\ w < WorkerCount
      /\ WorkerCount \in Nat \ {0}
    BY WorkerCountAssumption, SMTT(30) DEF TypeOK, Worker
<1>1. CASE PrepareTask
    BY <1>1 DEF PrepareTask, Phases
<1>2. CASE PrepareEnd
    BY <1>0, <1>2 DEF PrepareEnd, Phases
<1>3. CASE StartWorker
  <2>1. \A w \in Worker : w # cursor => pc'[w] = pc[w]
      BY <1>0, <1>3 DEF StartWorker
  <2>2. CASE cursor + 1 = WorkerCount
      BY <1>0, <1>3, <2>1, <2>2 DEF StartWorker, Turn, Phases
  <2>3. CASE cursor + 1 # WorkerCount
      BY <1>0, <1>3, <2>1, <2>3 DEF StartWorker, Turn, Phases
  <2> QED
      BY <2>2, <2>3
<1>4. CASE WaitWorker
  <2>1. CASE cursor + 1 = WorkerCount
    <3>1. \A w \in Worker : w < cursor \/ w = cursor
        BY <1>0, <2>1
    <3> QED
        BY <1>0, <1>4, <2>1, <3>1 DEF WaitWorker, Turn, Phases
  <2>2. CASE cursor + 1 # WorkerCount
    <3>1. \A w \in Worker : w < cursor + 1 => w < cursor \/ w = cursor
        BY <1>0
    <3> QED
        BY <1>0, <1>4, <2>2, <3>1 DEF WaitWorker, Turn, Phases
  <2> QED
      BY <2>1, <2>2
<1>5. ASSUME NEW w \in Worker, WorkerStep(w)
      PROVE  Phases'
  <2>1. /\ pc[w] \notin {"unstarted", "returned"}
        /\ \E label \in PC : pc' = [pc EXCEPT ![w] = label]
        /\ UNCHANGED <<init_task_deque, main, cursor>>
      BY <1>5 DEF WorkerStep, CheckCount, PopOwn, StealCheck, StealProbe, PushTask,
                  CountTask, FinishTask, PopFront, Goto, PC
  <2>2. \A u \in Worker : pc[u] \in {"unstarted", "returned"} => pc'[u] = pc[u]
      BY <1>0, <2>1
  <2> QED
      BY <2>1, <2>2 DEF Phases
<1>6. CASE UNCHANGED vars
    BY <1>6 DEF vars, Phases
<1> QED
    BY <1>1, <1>2, <1>3, <1>4, <1>5, <1>6 DEF Next, MainStep

LEMMA DrainedStep ==
    ASSUME IInv, [Next]_vars
    PROVE  ReturnedIsDrained'
<1> USE DEF main_vars, history_vars
<1>0. TypeOK /\ Places /\ Phases /\ ReturnedIsDrained
    BY DEF IInv, Places
<1>1. CASE PrepareTask
  <2>1. \A u \in Worker : pc'[u] = "unstarted"
      BY <1>0, <1>1 DEF PrepareTask, Phases
  <2> QED
      BY <2>1 DEF ReturnedIsDrained
<1>2. CASE PrepareEnd
    BY <1>0, <1>2 DEF PrepareEnd, ReturnedIsDrained
<1>3. CASE StartWorker
    BY <1>0, <1>3 DEF StartWorker, ReturnedIsDrained, TypeOK
<1>4. CASE WaitWorker
    BY <1>0, <1>4 DEF WaitWorker, ReturnedIsDrained
<1>5. ASSUME NEW w \in Worker, WorkerStep(w)
      PROVE  ReturnedIsDrained'
  <2>0. atomic_task_count \in Int /\ (~(atomic_task_count > 0) => task_deque[w] = <<>>)
    <3>1. ZeroMeansNothingQueued /\ atomic_task_count \in Int
        BY <1>0, CounterCoversQueues DEF TypeOK
    <3>2. ~(atomic_task_count > 0) => Queued = {}
        BY <3>1 DEF ZeroMeansNothingQueued
    <3> QED
        BY <1>0, <3>1, <3>2, EmptyDeque
  <2>1. CASE CheckCount(w)
      BY <1>0, <2>0, <2>1 DEF CheckCount, TasksLeft, Goto, ReturnedIsDrained, TypeOK
  <2>2. CASE PopOwn(w)
      BY <1>0, <2>2 DEF PopOwn, PopFront, Goto, ReturnedIsDrained, TypeOK
  <2>3. CASE StealCheck(w)
      BY <1>0, <2>0, <2>3 DEF StealCheck, TasksLeft, Goto, ReturnedIsDrained, TypeOK
  <2>4. CASE StealProbe(w)
      BY <1>0, <2>4 DEF StealProbe, PopFront, Goto, ReturnedIsDrained, TypeOK
  <2>5. CASE PushTask(w)
    <3>1. PICK t \in fresh : task_deque' = [task_deque EXCEPT ![w] = Append(@, t)]
        BY <2>5 DEF PushTask
    <3> QED
        BY <1>0, <2>5, <3>1 DEF PushTask, Goto, ReturnedIsDrained, TypeOK
  <2>6. CASE CountTask(w)
      BY <1>0, <2>6 DEF CountTask, Goto, ReturnedIsDrained, TypeOK
  <2>7. CASE FinishTask(w)
      BY <1>0, <2>7 DEF FinishTask, Goto, ReturnedIsDrained, TypeOK
  <2> QED
      BY <1>5, <2>1, <2>2, <2>3, <2>4, <2>5, <2>6, <2>7 DEF WorkerStep
<1>6. CASE UNCHANGED vars
    BY <1>0, <1>6 DEF vars, ReturnedIsDrained
<1> QED
    BY <1>1, <1>2, <1>3, <1>4, <1>5, <1>6 DEF Next, MainStep

LEMMA InvStep == IInv /\ [Next]_vars => IInv'
<1> SUFFICES ASSUME IInv, [Next]_vars PROVE IInv'
    OBVIOUS
<1>1. TypeOK'
    BY TypeStep DEF IInv
<1>2. Places'
    BY PlacesStep
<1>3. Phases'
    BY PhasesStep DEF IInv
<1>4. ReturnedIsDrained'
    BY DrainedStep
<1> QED
    BY <1>1, <1>2, <1>3, <1>4 DEF IInv, Places

LEMMA Invariance == Spec => []IInv
<1>1. Init => IInv
    BY InitInv
<1>2. IInv /\ [Next]_vars => IInv'
    BY InvStep
<1> QED
    BY <1>1, <1>2, PTL DEF Spec

-----------------------------------------------------------------------------
(* The theorems.                                                           *)

\* The state is well-typed: cursors stay in range whatever the number of
\* workers, and a worker inside worker_handle_task holds a task.
THEOREM TypeCorrect == Spec => []TypeOK
<1>1. IInv => TypeOK
    BY DEF IInv
<1> QED
    BY <1>1, Invariance, PTL

\* No task is handled twice and none is lost, whatever the interleaving of
\* pushes, pops and steals.
THEOREM TasksAreHandledOnce == Spec => [](HandledOnce /\ NoneLost)
<1>1. IInv => HandledOnce /\ NoneLost
    BY DEF IInv
<1> QED
    BY <1>1, Invariance, PTL

\* The counter never falls below zero, and when a worker reads zero no deque
\* holds a task: the workers never walk away from work.
THEOREM CounterIsSafe == Spec => []ZeroMeansNothingQueued
<1>1. IInv => ZeroMeansNothingQueued
    BY CounterCoversQueues DEF IInv, Places
<1> QED
    BY <1>1, Invariance, PTL

\* The counter is exact up to the pushes that are being counted.
THEOREM CounterIsExact == Spec => []CountAccounting
<1>1. IInv => CountAccounting
    BY DEF IInv
<1> QED
    BY <1>1, Invariance, PTL

\* A worker that has returned leaves an empty deque behind, for ever.
THEOREM ReturnedWorkersAreDrained == Spec => []ReturnedIsDrained
<1>1. IInv => ReturnedIsDrained
    BY DEF IInv
<1> QED
    BY <1>1, Invariance, PTL

LEMMA QuietAtTheEnd ==
    ASSUME IInv
    PROVE  DestroyedIsQuiet
<1> SUFFICES ASSUME main = "destroyed"
             PROVE  /\ \A w \in Worker : pc[w] = "returned"
                    /\ Queued = {}
                    /\ done = Task \ fresh
                    /\ atomic_task_count = 0
    BY DEF DestroyedIsQuiet
<1>1. \A w \in Worker : pc[w] = "returned"
    BY DEF IInv, Phases
<1>2. \A w \in Worker : task_deque[w] = <<>>
    BY <1>1 DEF IInv, ReturnedIsDrained
<1>3. Range(<<>>) = {}
    BY DEF Range
<1>4. Queued = {} /\ Running = {} /\ Uncounted = {} /\ Undealt = {}
    BY <1>1, <1>2, <1>3
    DEF Queued, Running, Handling, Uncounted, Undealt, IInv, Phases
<1>5. Outstanding = {}
    BY <1>4 DEF IInv, NoneLost
<1>6. done = Task \ fresh
    BY <1>4, <1>5 DEF Outstanding, IInv, TypeOK, UndealtOnce
<1>7. atomic_task_count = 0
    BY <1>4, <1>5, FS_EmptySet DEF IInv, CountAccounting
<1> QED
    BY <1>1, <1>4, <1>6, <1>7

\* scheduler_destroy frees the deques when every worker is out and every task
\* that was created has been handled.
THEOREM DestroyIsSafe == Spec => []DestroyedIsQuiet
<1>1. IInv => DestroyedIsQuiet
    BY QuietAtTheEnd
<1> QED
    BY <1>1, Invariance, PTL

-----------------------------------------------------------------------------
(* The scheduler implements TaskPool.                                      *)

LEMMA PoolInit == Init => Pool!Init
<1> SUFFICES ASSUME Init PROVE Pool!Init
    OBVIOUS
<1>1. Queued = {} /\ Running = {}
    BY DEF Init, Queued, Running, Handling, Range
<1> QED
    BY <1>1 DEF Init, Pool!Init, Undealt, InitialTask

LEMMA PoolStep == IInv /\ IInv' /\ [Next]_vars => [Pool!Next]_(Pool!vars)
<1> SUFFICES ASSUME IInv, IInv', [Next]_vars
             PROVE  [Pool!Next]_(Pool!vars)
    OBVIOUS
<1> USE DEF main_vars, history_vars
<1>0. /\ TypeOK /\ Places /\ Phases
      /\ fresh \subseteq Task /\ Queued \subseteq Task /\ Running \subseteq Task
      /\ Queued \intersect Undealt = {}
    BY DEF IInv, Places, HandledOnce, Outstanding, TypeOK
<1>a. ASSUME UNCHANGED <<Undealt, Queued, Running, fresh, done>>,
             (main = "destroyed")' = (main = "destroyed")
      PROVE  [Pool!Next]_(Pool!vars)
    BY <1>a DEF Pool!vars
<1>1. CASE PrepareTask
  <2>1. UNCHANGED <<fresh, done, main, Running>> /\ Undealt' \union Queued' = Undealt \union Queued
      BY <1>0, <1>1, PrepareStep DEF PrepareTask
  <2> QED
      BY <2>1 DEF Pool!vars
<1>2. CASE PrepareEnd
  <2>1. Handling' = Handling /\ Uncounted' = Uncounted
      BY <1>2 DEF PrepareEnd, Handling, Uncounted
  <2>2. UNCHANGED <<Undealt, Queued, Running>>
      BY <1>0, <1>2, <2>1, QuietStep DEF PrepareEnd
  <2>3. UNCHANGED <<fresh, done>> /\ (main = "destroyed")' = (main = "destroyed")
      BY <1>2 DEF PrepareEnd
  <2> QED
      BY <1>a, <2>2, <2>3
<1>3. CASE StartWorker
  <2>1. pc[cursor] = "unstarted" /\ pc' = [pc EXCEPT ![cursor] = "check"]
      BY <1>0, <1>3, WorkerFacts DEF StartWorker, Phases, TypeOK
  <2>2. Handling' = Handling /\ Uncounted' = Uncounted
      BY <1>0, <2>1 DEF Handling, Uncounted, TypeOK
  <2>3. UNCHANGED <<Undealt, Queued, Running>>
      BY <1>0, <1>3, <2>2, QuietStep DEF StartWorker
  <2>4. UNCHANGED <<fresh, done>> /\ (main = "destroyed")' = (main = "destroyed")
      BY <1>3 DEF StartWorker, Turn
  <2> QED
      BY <1>a, <2>3, <2>4
<1>4. CASE WaitWorker
  <2>1. Handling' = Handling /\ Uncounted' = Uncounted
      BY <1>4 DEF WaitWorker, Handling, Uncounted
  <2>2. UNCHANGED <<Undealt, Queued, Running>>
      BY <1>0, <1>4, <2>1, QuietStep DEF WaitWorker
  <2>3. UNCHANGED <<fresh, done>> /\ main = "wait"
      BY <1>4 DEF WaitWorker
  <2>4. CASE main' = "destroyed"
    <3>1. Queued' = {} /\ Running' = {} /\ Undealt' = {}
      <4>1. Queued' = {} /\ \A w \in Worker : pc'[w] = "returned"
        <5>1. \A w \in Worker : pc'[w] = "returned"
            BY <2>4 DEF IInv, Phases
        <5>2. \A w \in Worker : task_deque'[w] = <<>>
            BY <5>1 DEF IInv, ReturnedIsDrained
        <5> QED
            BY <5>1, <5>2 DEF Queued, Range
      <4>2. Handling' = {}
          BY <4>1 DEF Handling
      <4>3. init_task_deque' = <<>>
          BY <2>4 DEF IInv, Phases
      <4> QED
          BY <4>1, <4>2, <4>3 DEF Running, Undealt, Range
    <3> QED
        BY <2>2, <2>3, <2>4, <3>1 DEF Pool!Next, Pool!Conclude
  <2>5. CASE main' # "destroyed"
      BY <1>a, <2>2, <2>3, <2>5
  <2> QED
      BY <2>4, <2>5
<1>5. ASSUME NEW w \in Worker, WorkerStep(w)
      PROVE  [Pool!Next]_(Pool!vars)
  <2>0. UNCHANGED main
      BY <1>5 DEF WorkerStep, CheckCount, PopOwn, StealCheck, StealProbe, PushTask,
                  CountTask, FinishTask
  <2>p. ASSUME NEW v \in Worker, w \notin Handling, PopFront(w, v, "steal"),
               UNCHANGED <<init_task_deque, atomic_task_count, fresh, done>>
        PROVE  [Pool!Next]_(Pool!vars)
    <3>1. "steal" \in PC \ {"handle", "count"}
        BY DEF PC
    <3>2. /\ UNCHANGED Undealt
          /\ \/ UNCHANGED <<Queued, Running>>
             \/ \E t \in Queued : Queued' = Queued \ {t} /\ Running' = Running \union {t}
        BY <1>0, <2>p, <3>1, PopStep
    <3>3. CASE UNCHANGED <<Queued, Running>>
        BY <1>a, <2>0, <2>p, <3>2, <3>3
    <3>4. ASSUME NEW t \in Queued, Queued' = Queued \ {t}, Running' = Running \union {t}
          PROVE  [Pool!Next]_(Pool!vars)
      <4>1. Undealt' \union Queued' = (Undealt \union Queued) \ {t}
          BY <1>0, <3>2, <3>4
      <4>2. Pool!Start(t)
          BY <2>0, <2>p, <3>4, <4>1 DEF Pool!Start
      <4> QED
          BY <1>0, <4>2 DEF Pool!Next
    <3> QED
        BY <3>2, <3>3, <3>4
  <2>1. CASE CheckCount(w)
    <3>1. Handling' = Handling /\ Uncounted' = Uncounted
        BY <1>0, <2>1 DEF CheckCount, Goto, Handling, Uncounted, TypeOK
    <3>2. UNCHANGED <<Undealt, Queued, Running, fresh, done>>
        BY <1>0, <2>1, <3>1, QuietStep DEF CheckCount
    <3> QED
        BY <1>a, <2>0, <3>2
  <2>2. CASE PopOwn(w)
    <3>1. w \notin Handling
        BY <2>2 DEF PopOwn, Handling
    <3> QED
        BY <2>2, <2>p, <3>1 DEF PopOwn
  <2>3. CASE StealCheck(w)
    <3>1. Handling' = Handling /\ Uncounted' = Uncounted
        BY <1>0, <2>3 DEF StealCheck, Goto, Handling, Uncounted, TypeOK
    <3>2. UNCHANGED <<Undealt, Queued, Running, fresh, done>>
        BY <1>0, <2>3, <3>1, QuietStep DEF StealCheck
    <3> QED
        BY <1>a, <2>0, <3>2
  <2>4. CASE StealProbe(w)
    <3>1. w \notin Handling /\ victim_cursor[w] \in Worker
        BY <1>0, <2>4 DEF StealProbe, Handling, TypeOK
    <3>2. /\ PopFront(w, victim_cursor[w], "steal")
          /\ UNCHANGED <<init_task_deque, atomic_task_count, fresh, done>>
        BY <2>4 DEF StealProbe
    <3> QED
        BY <2>p, <3>1, <3>2
  <2>5. CASE PushTask(w)
    <3>1. PICK t \in fresh : fresh' = fresh \ {t} /\ Queued' = Queued \union {t}
        BY <1>0, <2>5, PushStep
    <3>2. UNCHANGED <<Undealt, Running, done>> /\ Running # {}
        BY <1>0, <2>5, PushStep DEF PushTask
    <3>3. Undealt' \union Queued' = (Undealt \union Queued) \union {t}
        BY <3>1, <3>2
    <3>4. Pool!Spawn(t)
        BY <2>0, <3>1, <3>2, <3>3 DEF Pool!Spawn
    <3> QED
        BY <1>0, <3>4 DEF Pool!Next
  <2>6. CASE CountTask(w)
    <3>1. UNCHANGED <<Undealt, Queued, Running, fresh, done>>
        BY <1>0, <2>6, CountStep DEF CountTask
    <3> QED
        BY <1>a, <2>0, <3>1
  <2>7. CASE FinishTask(w)
    <3>1. PICK t \in Running : Running' = Running \ {t} /\ done' = done \union {t}
        BY <1>0, <2>7, FinishStep
    <3>2. UNCHANGED <<Undealt, Queued, fresh>>
        BY <1>0, <2>7, FinishStep DEF FinishTask
    <3>3. Pool!Finish(t)
        BY <2>0, <3>1, <3>2 DEF Pool!Finish
    <3> QED
        BY <1>0, <3>3 DEF Pool!Next
  <2> QED
      BY <1>5, <2>1, <2>2, <2>3, <2>4, <2>5, <2>6, <2>7 DEF WorkerStep
<1>6. CASE UNCHANGED vars
  <2>1. UNCHANGED <<Undealt, Queued, Running, fresh, done, main>>
      BY <1>6 DEF vars, Undealt, Queued, Running, Handling
  <2> QED
      BY <1>a, <2>1
<1> QED
    BY <1>1, <1>2, <1>3, <1>4, <1>5, <1>6 DEF Next, MainStep

\* Work stealing behind a lagging counter is a task pool: every behaviour of
\* the scheduler is one in which tasks wait in one pool, are taken once each,
\* and `run` comes back only when the pool is empty and nobody is at work.
THEOREM ImplementsTaskPool == Spec => PoolSpec
<1>1. Init => Pool!Init
    BY PoolInit
<1>2. IInv /\ IInv' /\ [Next]_vars => [Pool!Next]_(Pool!vars)
    BY PoolStep
<1> QED
    BY <1>1, <1>2, Invariance, PTL DEF Spec, PoolSpec, Pool!Spec
=============================================================================
