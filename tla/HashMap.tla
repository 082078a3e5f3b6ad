------------------------------- MODULE HashMap -------------------------------
(***************************************************************************)
(* What packages/std/hash promises: a map, and iterations that come by     *)
(* every key once, in no particular order, as long as the table is left    *)
(* alone but for the deletion of the entry that the iteration has just     *)
(* returned.  reply is the last call with its answer.                      *)
(***************************************************************************)
EXTENDS Naturals, FiniteSets, Functions

CONSTANTS Key, Value, MaxLength, NoKey

VARIABLES map,          \* the values by their keys
          unread,       \* the keys the iteration has still to come by
          cursor_key,   \* the key the iteration returned last, or NoKey
          iterating,    \* the iteration may go on
          reply

mapVars == <<map, unread, cursor_key, iterating, reply>>
iteration == <<unread, cursor_key, iterating>>

Has(k) == k \in DOMAIN map
Get(k) == IF Has(k) THEN map[k] ELSE "NULL"

MapInit ==
    /\ map = [k \in {} |-> "NULL"]
    /\ unread = {} /\ cursor_key = NoKey /\ iterating = FALSE
    /\ reply = <<"hash_new">>

Bind(k, v) == map' = [x \in DOMAIN map \cup {k} |-> IF x = k THEN v ELSE map[x]]
Stop == iterating' = FALSE /\ unread' = {} /\ UNCHANGED cursor_key
Return(op, answer) == reply' = <<op, answer>>

Set(k, v) ==
    /\ Return("hash_set", ~Has(k)) /\ Stop
    /\ IF Has(k) THEN UNCHANGED map ELSE Cardinality(DOMAIN map) < MaxLength /\ Bind(k, v)

Put(k, v) ==
    /\ Return("hash_put", TRUE) /\ Bind(k, v)
    /\ IF Has(k) THEN UNCHANGED iteration ELSE Cardinality(DOMAIN map) < MaxLength /\ Stop

Delete(k) ==
    /\ Return("hash_delete", Has(k))
    /\ map' = Restrict(map, DOMAIN map \ {k})
    /\ IF Has(k) /\ ~(iterating /\ cursor_key = k /\ k \notin unread)
       THEN Stop ELSE UNCHANGED iteration

Purge ==
    /\ Return("hash_purge", TRUE) /\ map' = Restrict(map, {}) /\ Stop

Ask ==
    /\ \/ \E k \in Key : Return("hash_get", Get(k))
       \/ Return("hash_length", Cardinality(DOMAIN map))
    /\ UNCHANGED <<map, iteration>>

ComeBy(op, from) ==
    /\ \/ /\ from = {}
          /\ Return(op, "NULL")
          /\ unread' = {} /\ UNCHANGED cursor_key
       \/ \E k \in from :
          /\ Return(op, map[k])
          /\ unread' = from \ {k} /\ cursor_key' = k
    /\ iterating' = TRUE
    /\ UNCHANGED map

MapNext ==
    \/ \E k \in Key : Delete(k) \/ \E v \in Value : Set(k, v) \/ Put(k, v)
    \/ Purge \/ Ask
    \/ ComeBy("hash_first", DOMAIN map)
    \/ iterating /\ ComeBy("hash_next", unread)

MapSpec == MapInit /\ [][MapNext]_mapVars
=============================================================================
