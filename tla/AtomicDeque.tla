----------------------------- MODULE AtomicDeque -----------------------------
(***************************************************************************)
(* What a deque shared by threads promises: each call takes effect at one  *)
(* moment between its beginning and its return.  This is the deque that    *)
(* Scheduler and InetRuntime work with.                                    *)
(***************************************************************************)
EXTENDS Naturals, SequencesExt

CONSTANTS Thread, Value, MaxLength

VARIABLES line,   \* the values, front first
          call    \* call[t]: [op, value, done], value is what is pushed, then
                  \* the answer

dequeVars == <<line, call>>

NoCall == [op |-> "none", value |-> "NULL", done |-> FALSE]
Operations == {[op |-> o, value |-> v, done |-> FALSE] :
                   o \in {"push_front", "push_back"}, v \in Value}
              \cup {[op |-> o, value |-> "NULL", done |-> FALSE] :
                   o \in {"pop_front", "pop_back", "is_empty"}}

DequeInit == line = <<>> /\ call = [t \in Thread |-> NoCall]

Invoke(t) ==
    /\ call[t] = NoCall
    /\ \E o \in Operations : call' = [call EXCEPT ![t] = o]
    /\ UNCHANGED line

Answer(t, v) == call' = [call EXCEPT ![t].done = TRUE, ![t].value = v]
Popped(t, s, v) == line' = s /\ Answer(t, v)

TakeEffect(t) ==
    /\ ~call[t].done
    /\ \/ call[t].op = "push_front" /\ line' = <<call[t].value>> \o line /\ Answer(t, "NULL")
       \/ call[t].op = "push_back" /\ line' = Append(line, call[t].value) /\ Answer(t, "NULL")
       \/ call[t].op = "pop_front" /\ line # <<>> /\ Popped(t, Tail(line), Head(line))
       \/ call[t].op = "pop_back" /\ line # <<>> /\ Popped(t, Front(line), Last(line))
       \/ call[t].op \in {"pop_front", "pop_back"} /\ line = <<>> /\ Popped(t, line, "NULL")
       \/ call[t].op = "is_empty" /\ Popped(t, line, IF line = <<>> THEN "yes" ELSE "no")

Return(t) == call[t].done /\ call' = [call EXCEPT ![t] = NoCall] /\ UNCHANGED line

DequeNext == \E t \in Thread : Invoke(t) \/ TakeEffect(t) \/ Return(t)

DequeSpec == DequeInit /\ [][DequeNext]_dequeVars
=============================================================================
