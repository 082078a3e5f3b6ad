---------------------------- MODULE BoundedQueue ----------------------------
(***************************************************************************)
(* What the circular queue of packages/std/queue promises, whatever its    *)
(* cursors do: "just like people waiting in a line", at most Size of them. *)
(* A push may be refused; a pop of an empty queue answers nothing.         *)
(***************************************************************************)
EXTENDS Naturals, Sequences

CONSTANTS Size, Value, None

VARIABLES line,      \* the values that wait, the next to leave first
          received   \* the value the last pop returned, or None

lineVars == <<line, received>>

LineInit == line = <<>> /\ received = None

Join(v) == Len(line) < Size /\ line' = Append(line, v) /\ UNCHANGED received

Leave == line # <<>> /\ line' = Tail(line) /\ received' = Head(line)

LineNext == Leave \/ \E v \in Value : Join(v)

LineSpec == LineInit /\ [][LineNext]_lineVars
=============================================================================
