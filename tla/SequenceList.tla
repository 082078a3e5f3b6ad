---------------------------- MODULE SequenceList ----------------------------
(***************************************************************************)
(* What packages/std/list promises: a sequence of values with a cursor at  *)
(* one of them, or at none.  reply is the last call with its answer.       *)
(***************************************************************************)
EXTENDS Naturals, SequencesExt

CONSTANTS Value, MaxLength

VARIABLES values,   \* the sequence
          at,       \* index of the value under the cursor, or 0
          reply

seqVars == <<values, at, reply>>

Nothing == "NULL"
At(s, i) == IF i \in DOMAIN s THEN s[i] ELSE Nothing
Where(v) == {i \in DOMAIN values : values[i] = v}
First(v) == CHOOSE i \in Where(v) : \A j \in Where(v) : i <= j

SeqInit == values = <<>> /\ at = 0 /\ reply = <<"list_new", Nothing>>

Insert(op, s, shift) ==
    /\ Len(values) < MaxLength
    /\ values' = s
    /\ at' = IF at = 0 THEN 0 ELSE at + shift
    /\ reply' = <<op, Nothing>>

\* A cursor on the removed value is lost, one behind it stays with its value.
Take(op, i, answer) ==
    /\ values' = IF i \in DOMAIN values THEN RemoveAt(values, i) ELSE values
    /\ at' = IF at = i THEN 0 ELSE IF at > i THEN at - 1 ELSE at
    /\ reply' = <<op, answer>>

Move(op, i) ==
    /\ at' = i
    /\ reply' = <<op, At(values, i)>>
    /\ UNCHANGED values

Ask(op, answer) == reply' = <<op, answer>> /\ UNCHANGED <<values, at>>

SeqNext ==
    \/ \E v \in Value :
        \/ Insert("list_push", Append(values, v), 0)
        \/ Insert("list_unshift", <<v>> \o values, 1)
        \/ Where(v) # {} /\ Take("list_remove", First(v), TRUE)
        \/ Where(v) = {} /\ Ask("list_remove", FALSE)
        \/ Where(v) # {} /\ Move("list_find", First(v))
        \/ Where(v) = {} /\ at' = (IF values = <<>> THEN 0 ELSE 1)
                         /\ reply' = <<"list_find", Nothing>> /\ UNCHANGED values
        \/ Ask("list_has", Where(v) # {})
    \/ values # <<>> /\ Take("list_pop", Len(values), Last(values))
    \/ values # <<>> /\ Take("list_shift", 1, Head(values))
    \/ values = <<>> /\ (Ask("list_pop", Nothing) \/ Ask("list_shift", Nothing))
    \/ Move("list_first", IF values = <<>> THEN 0 ELSE 1)
    \/ Move("list_last", Len(values))
    \/ Move("list_next", (at + 1) % (Len(values) + 1))
    \/ Move("list_prev", IF at = 0 THEN Len(values) ELSE at - 1)
    \/ at' = 0 /\ reply' = <<"list_copy", values>> /\ UNCHANGED values
    \/ \E i \in 1 .. MaxLength : Ask("list_get", At(values, i))
    \/ Ask("list_length", Len(values))
    \/ Ask("list_cursor_is_end", at = Len(values))
    \/ values' = <<>> /\ at' = 0 /\ reply' = <<"list_purge", Nothing>>

SeqSpec == SeqInit /\ [][SeqNext]_seqVars
=============================================================================
