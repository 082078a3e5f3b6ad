-------------------------------- MODULE Deque --------------------------------
(***************************************************************************)
(* The shared deque of packages/std/deque/deque.c: a linked list and a     *)
(* spinlock that is read before it is exchanged (thread/fast_spinlock.c).  *)
(* A list function reads the list and writes it in two steps, so that two  *)
(* threads inside at once would lose each other's work.                    *)
(***************************************************************************)
EXTENDS LinkedList

CONSTANT Thread

ASSUME ThreadAssumption == IsFiniteSet(Thread)

VARIABLES
    list,                 \* the list
    atomic_is_locked,     \* the lock
    pc,                   \* pc[t]: "out", at "load", "exchange", "read" (the
                          \* lock is held), "write" or "unlock"
    seen,                 \* seen[t]: the list as t's list function read it
    call                  \* call[t]: [op, value, done]

vars == <<list, atomic_is_locked, pc, seen, call>>

NoCall == [op |-> "none", value |-> "NULL", done |-> FALSE]
Operations == {[op |-> o, value |-> v, done |-> FALSE] :
                   o \in {"push_front", "push_back"}, v \in Value}
              \cup {[op |-> o, value |-> "NULL", done |-> FALSE] :
                   o \in {"pop_front", "pop_back", "is_empty"}}

Init ==
    /\ list = list_new
    /\ atomic_is_locked = FALSE
    /\ pc = [t \in Thread |-> "out"]
    /\ seen = [t \in Thread |-> list_new]
    /\ call = [t \in Thread |-> NoCall]

Goto(t, there) == pc' = [pc EXCEPT ![t] = there]

\* Room bounds the lengths of the list: pushes under way are counted.
Room == Cardinality(Allocated(list))
        + Cardinality({t \in Thread : call[t].op \in {"push_front", "push_back"}})
        < Cardinality(NodeId)

Enter(t) ==
    /\ pc[t] = "out"
    /\ \E o \in Operations :
        /\ o.op \in {"push_front", "push_back"} => Room
        /\ call' = [call EXCEPT ![t] = o]
    /\ Goto(t, "load")
    /\ UNCHANGED <<list, atomic_is_locked, seen>>

\* The loop of fast_spinlock_lock: first a load; locked, the thread sleeps and
\* looks again.
LoadLock(t) ==
    /\ pc[t] = "load"
    /\ Goto(t, IF atomic_is_locked THEN "load" ELSE "exchange")
    /\ UNCHANGED <<list, atomic_is_locked, seen, call>>

\* Fault: the thread that read the lock free takes it.
ExchangeLock_Trusts(t) ==
    /\ pc[t] = "exchange"
    /\ atomic_is_locked' = TRUE
    /\ Goto(t, "read")
    /\ UNCHANGED <<list, seen, call>>

\* The exchange: only the thread that exchanged a FALSE has the lock.
ExchangeLock(t) ==
    /\ pc[t] = "exchange"
    /\ atomic_is_locked' = TRUE
    /\ Goto(t, IF atomic_is_locked THEN "load" ELSE "read")
    /\ UNCHANGED <<list, seen, call>>

ReadList(t) ==
    /\ pc[t] = "read"
    /\ seen' = [seen EXCEPT ![t] = list]
    /\ Goto(t, "write")
    /\ UNCHANGED <<list, atomic_is_locked, call>>

\* deque_push_front, deque_push_back, deque_pop_front, deque_pop_back,
\* deque_is_empty: the list function and the value it returns.
Changed(op, v, l) ==
    CASE op = "push_front" -> list_unshift(l, v)
      [] op = "push_back" -> list_push(l, v)
      [] op = "pop_front" -> list_shift(l)
      [] op = "pop_back" -> list_pop(l)
      [] op = "is_empty" -> l

Answered(op, l) ==
    CASE op = "pop_front" -> ValueAt(l, l.first)
      [] op = "pop_back" -> ValueAt(l, l.last)
      [] op = "is_empty" -> IF l.length = 0 THEN "yes" ELSE "no"
      [] OTHER -> "NULL"

WriteList(t) ==
    /\ pc[t] = "write"
    /\ list' = Changed(call[t].op, call[t].value, seen[t])
    /\ call' = [call EXCEPT ![t].done = TRUE, ![t].value = Answered(call[t].op, seen[t])]
    /\ seen' = [seen EXCEPT ![t] = list_new]
    /\ Goto(t, "unlock")
    /\ UNCHANGED atomic_is_locked

\* Fault: an empty pop returns without unlocking.
Unlocked_NotWhenEmpty(t) == call[t].op = "pop_front" /\ call[t].value = "NULL"
Unlocked(t) == FALSE

\* fast_spinlock_unlock and the return of the call.
Unlock(t) ==
    /\ pc[t] = "unlock"
    /\ atomic_is_locked' = Unlocked(t)
    /\ call' = [call EXCEPT ![t] = NoCall]
    /\ Goto(t, "out")
    /\ UNCHANGED <<list, seen>>

Step(t) == LoadLock(t) \/ ExchangeLock(t) \/ ReadList(t) \/ WriteList(t) \/ Unlock(t)

Next == \E t \in Thread : Enter(t) \/ Step(t)

Fairness == \A t \in Thread : WF_vars(Step(t))

Spec == Init /\ [][Next]_vars /\ Fairness

-----------------------------------------------------------------------------
\* At most one thread is between lock and unlock, and the lock says so.
Inside == {t \in Thread : pc[t] \in {"read", "write", "unlock"}}

\* The lock excludes: test-and-exchange lets no two threads in, also when both
\* have read it free.
OneInside == Cardinality(Inside) = IF atomic_is_locked THEN 1 ELSE 0

\* The calls of all threads take effect one at a time, each between its
\* beginning and its return: no push is lost, no value popped twice.
Atomic == INSTANCE AtomicDeque WITH line <- Values(list), MaxLength <- Cardinality(NodeId)
DequeIsAtomic == Atomic!DequeSpec

\* A thread inside leaves: calls keep returning, though none of them in
\* particular is promised its turn.
LockIsReleased == []<>~atomic_is_locked
=============================================================================
