------------------------------ MODULE SpscQueue ------------------------------
(***************************************************************************)
(* The circular queue of packages/std/queue/queue.c between one producer   *)
(* thread and one consumer thread, down to its loads and stores.           *)
(*                                                                         *)
(* Each thread owns one cursor and sees the other's late: a load, relaxed  *)
(* or acquire, may return any value the cursor has had since the one this  *)
(* thread saw last (coherence forbids an older one).  Cursors only move    *)
(* forward, so these values are an interval.  Cursors are unsigned and     *)
(* wrap around at Wrap, 2^64 in the code.                                  *)
(***************************************************************************)
EXTENDS Naturals, Sequences

CONSTANTS Size,    \* places in the ring, a power of two greater than one
          Wrap,    \* number of values of a cursor
          Value,   \* what is queued
          None     \* NULL

ASSUME QueueAssumption ==
    /\ Size \in Nat /\ Size > 1
    /\ Wrap \in Nat /\ \E k \in 2 .. Wrap : Wrap = k * Size
    /\ None \notin Value

VARIABLES
    values,      \* values[s], the ring
    front,       \* front_cursor, stored by the consumer only
    back,        \* back_cursor, stored by the producer only
    producer,    \* [pc, cached, seen, value, room]: cached_front_cursor, the
                 \* latest front it loaded, the value it pushes, and whether
                 \* it was told that there is room
    consumer,    \* [pc, cached, seen, index, value, some]: cached_back_cursor,
                 \* the latest back it loaded, the index it reads at, the
                 \* value it took, and whether it was told there is something
    received,    \* the value the last pop returned
    answer,      \* the last answer of queue_length, to either thread
    phase        \* "threads", "purge" (both have been joined), "destroyed"

vars == <<values, front, back, producer, consumer, received, answer, phase>>

Cursor == 0 .. Wrap - 1

Minus(a, b) == (Wrap + a - b) % Wrap

After(c) == (c + 1) % Wrap

Slot(c) == c % Size

\* Faults: one place too many; a queue that always has something.
is_full_OffByOne(f, b) == Minus(b, f) > Size
is_full(f, b) == Minus(b, f) = Size

is_empty_Never(f, b) == FALSE
is_empty(f, b) == b = f

\* The values a load may return to a thread that has seen a cursor at seen.
Loadable(seen, cursor) == {c \in Cursor : Minus(c, seen) <= Minus(cursor, seen)}

Init ==
    /\ values = [s \in 0 .. Size - 1 |-> None]
    /\ front = 0 /\ back = 0
    /\ producer = [pc |-> "ready", cached |-> 0, seen |-> 0, value |-> None, room |-> FALSE]
    /\ consumer = [pc |-> "ready", cached |-> 0, seen |-> 0, index |-> 0, value |-> None, some |-> FALSE]
    /\ received = None
    /\ answer = 0
    /\ phase = "threads"

-----------------------------------------------------------------------------
\* The producer.

\* queue_is_full(queue) loads its own cursor and the front.
AskFull ==
    /\ phase = "threads" /\ producer.pc = "ready"
    /\ \E f \in Loadable(producer.seen, front) :
         producer' = [producer EXCEPT !.seen = f, !.room = ~is_full(f, back)]
    /\ UNCHANGED <<values, front, back, consumer, received, answer, phase>>

\* Fault: the loaded cursor is looked at but not kept.
Reload_KeepsCache(p, c) == [p EXCEPT !.seen = c]

\* The acquire load of the other thread's cursor into this thread's cache.
Reload(p, c) == [p EXCEPT !.cached = c, !.seen = c]

\* queue_push_back up to its return of false or its store of the value: the
\* front is only loaded when the cached one says that there is no room.
Push(v) ==
    /\ phase = "threads" /\ producer.pc = "ready"
    /\ \E f \in Loadable(producer.seen, front) :
         LET p == IF is_full(producer.cached, back) THEN Reload(producer, f) ELSE producer
         IN  producer' = IF is_full(p.cached, back)
                         THEN [p EXCEPT !.pc = "refused"]
                         ELSE [p EXCEPT !.pc = "write", !.value = v]
    /\ UNCHANGED <<values, front, back, consumer, received, answer, phase>>

\* The producer learns that its push was refused.
SeeRefusal ==
    /\ producer.pc = "refused"
    /\ producer' = [producer EXCEPT !.pc = "ready"]
    /\ UNCHANGED <<values, front, back, consumer, received, answer, phase>>

WriteSlot ==
    /\ producer.pc = "write"
    /\ values' = [values EXCEPT ![Slot(back)] = producer.value]
    /\ producer' = [producer EXCEPT !.pc = "publish", !.value = None]
    /\ UNCHANGED <<front, back, consumer, received, answer, phase>>

PublishBack ==
    /\ producer.pc = "publish"
    /\ back' = After(back)
    /\ producer' = [producer EXCEPT !.pc = "ready", !.room = FALSE]
    /\ UNCHANGED <<values, front, consumer, received, answer, phase>>

-----------------------------------------------------------------------------
\* The consumer.

\* queue_is_empty(queue)
AskEmpty ==
    /\ phase = "threads" /\ consumer.pc = "ready"
    /\ \E b \in Loadable(consumer.seen, back) :
         consumer' = [consumer EXCEPT !.seen = b, !.some = ~is_empty(front, b)]
    /\ UNCHANGED <<values, front, back, producer, received, answer, phase>>

\* queue_length(queue), asked by either thread.
AskLength ==
    /\ phase = "threads"
    /\ \/ /\ consumer.pc = "ready"
          /\ \E b \in Loadable(consumer.seen, back) :
               consumer' = [consumer EXCEPT !.seen = b] /\ answer' = Minus(b, front)
          /\ UNCHANGED producer
       \/ /\ producer.pc = "ready"
          /\ \E f \in Loadable(producer.seen, front) :
               producer' = [producer EXCEPT !.seen = f] /\ answer' = Minus(back, f)
          /\ UNCHANGED consumer
    /\ UNCHANGED <<values, front, back, received, phase>>

\* What queue_pop_front and queue_get go on to read when the consumer knows of
\* the values up to c.cached: the front, or the value at an index.  That index
\* is the caller's business; here it stays below the values acquired, as get
\* itself only checks that there is one.
Reading(c) ==
    {[c EXCEPT !.pc = "read"]} \cup
    {[c EXCEPT !.pc = "look", !.index = i] : i \in 0 .. Minus(c.cached, front) - 1}

Take ==
    /\ phase = "threads" /\ consumer.pc = "ready"
    /\ \E b \in Loadable(consumer.seen, back) :
         LET c == IF is_empty(front, consumer.cached) THEN Reload(consumer, b) ELSE consumer
         IN  IF is_empty(front, c.cached)
             THEN consumer' = [c EXCEPT !.pc = "refused"]
             ELSE consumer' \in Reading(c)
    /\ UNCHANGED <<values, front, back, producer, received, answer, phase>>

\* The consumer learns that there was nothing.
SeeNothing ==
    /\ consumer.pc = "refused"
    /\ consumer' = [consumer EXCEPT !.pc = "ready"]
    /\ UNCHANGED <<values, front, back, producer, received, answer, phase>>

ReadSlot ==
    /\ consumer.pc = "read"
    /\ consumer' = [consumer EXCEPT !.pc = "release", !.value = values[Slot(front)]]
    /\ UNCHANGED <<values, front, back, producer, received, answer, phase>>

\* queue_get returns what it read and moves no cursor.
LookAtSlot ==
    /\ consumer.pc = "look"
    /\ consumer' = [consumer EXCEPT !.pc = "ready", !.index = 0]
    /\ UNCHANGED <<values, front, back, producer, received, answer, phase>>

ReleaseFront ==
    /\ consumer.pc = "release"
    /\ front' = After(front)
    /\ received' = consumer.value
    /\ consumer' = [consumer EXCEPT !.pc = "ready", !.value = None, !.some = FALSE]
    /\ UNCHANGED <<values, back, producer, answer, phase>>

-----------------------------------------------------------------------------
\* queue_destroy, once both threads have been waited for.

JoinThreads ==
    /\ phase = "threads" /\ producer.pc = "ready" /\ consumer.pc = "ready"
    /\ phase' = "purge"
    /\ UNCHANGED <<values, front, back, producer, consumer, received, answer>>

\* One round of queue_purge: queue_is_empty is false and queue_pop_front,
\* which now sees every store, returns the value to destroy.
PurgeOne ==
    /\ phase = "purge" /\ ~is_empty(front, back)
    /\ received' = values[Slot(front)]
    /\ front' = After(front)
    /\ consumer' = IF is_empty(front, consumer.cached) THEN Reload(consumer, back) ELSE consumer
    /\ UNCHANGED <<values, back, producer, answer, phase>>

FreeRing ==
    /\ phase = "purge" /\ is_empty(front, back)
    /\ phase' = "destroyed"
    /\ UNCHANGED <<values, front, back, producer, consumer, received, answer>>

-----------------------------------------------------------------------------

Next ==
    \/ AskFull \/ (\E v \in Value : Push(v)) \/ SeeRefusal \/ WriteSlot \/ PublishBack
    \/ AskEmpty \/ AskLength \/ Take \/ SeeNothing
    \/ ReadSlot \/ LookAtSlot \/ ReleaseFront
    \/ JoinThreads \/ PurgeOne \/ FreeRing

Spec == Init /\ [][Next]_vars

-----------------------------------------------------------------------------
\* The queue between the cursors, in order.
Line == [i \in 1 .. Minus(back, front) |-> values[Slot(front + i - 1)]]

BQ == INSTANCE BoundedQueue WITH line <- Line

\* The ring is a bounded first-in first-out queue: a push takes effect at the
\* store of back_cursor, a pop at the store of front_cursor.
FifoSpec == BQ!LineSpec

\* The producer never writes the slot that the consumer is about to read, by a
\* pop or by queue_get: the plain accesses of set_value and get_value do not
\* race.
NoRace ==
    producer.pc = "write" /\ consumer.pc \in {"read", "look"} =>
        Slot(back) # Slot(front + consumer.index)

\* The cursors lag behind in the safe direction only: what a thread knows of
\* the other lies between the other's past and present, so that the producer
\* sees at most too little room and the consumer at most too few values, also
\* across the wrap of the cursors; and the length that either is told, from a
\* late load, is at most Size: the unsigned difference never wraps.
CachesLagSafely ==
    /\ Minus(back, front) <= Minus(back, producer.seen)
    /\ Minus(back, producer.seen) <= Minus(back, producer.cached)
    /\ Minus(back, producer.cached) <= Size
    /\ Minus(consumer.cached, front) <= Minus(consumer.seen, front)
    /\ Minus(consumer.seen, front) <= Minus(back, front)
    /\ answer <= Size

\* test_queue_multi_thread.c:12-14 asserts that a push succeeds after
\* queue_is_full has answered false, and :26-28 that a pop answers the next
\* value after queue_is_empty has answered false, whatever loads are late.
ToldIsTrue ==
    /\ producer.pc = "refused" => ~producer.room
    /\ consumer.pc = "refused" => ~consumer.some
=============================================================================
