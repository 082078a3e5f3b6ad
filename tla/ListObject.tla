------------------------------ MODULE ListObject ------------------------------
(***************************************************************************)
(* A list in use: any calls of packages/std/list/list.c, in any order, on  *)
(* one list.                                                               *)
(***************************************************************************)
EXTENDS LinkedList, Functions

VARIABLES object,  \* the list's record and nodes
          reply    \* the last call and its answer

listVars == <<object, reply>>

ListInit == object = list_new /\ reply = <<"list_new", "NULL">>

Call(op, l, answer) == object' = l /\ reply' = <<op, answer>>

Insert ==
    /\ NodeId \ Allocated(object) # {}
    /\ \E v \in Value : \/ Call("list_push", list_push(object, v), "NULL")
                        \/ Call("list_unshift", list_unshift(object, v), "NULL")

TakeEnd ==
    \/ Call("list_pop", list_pop(object), ValueAt(object, object.last))
    \/ Call("list_shift", list_shift(object), ValueAt(object, object.first))

Search ==
    \E v \in Value :
        \/ Call("list_remove", list_remove(object, v), list_has(object, v))
        \/ Call("list_find", list_find(object, v), IF list_has(object, v) THEN v ELSE "NULL")
        \/ Call("list_has", object, list_has(object, v))

Walk ==
    \/ Call("list_first", list_first(object), list_current(list_first(object)))
    \/ Call("list_last", list_last(object), list_current(list_last(object)))
    \/ Call("list_next", list_next(object), list_current(list_next(object)))
    \/ Call("list_prev", list_prev(object), list_current(list_prev(object)))
    \/ Call("list_copy", list_copy(object), Values(object))

Ask ==
    \/ \E i \in 0 .. Cardinality(NodeId) - 1 : Call("list_get", object, list_get(object, i))
    \/ Call("list_length", object, object.length)
    \/ Call("list_cursor_is_end", object, object.cursor = object.last)

Purge == Call("list_purge", list_purge(object), "NULL")

ListNext == Insert \/ TakeEnd \/ Search \/ Walk \/ Ask \/ Purge

ListSpec == ListInit /\ [][ListNext]_listVars

-----------------------------------------------------------------------------
ListTypeOK ==
    /\ object \in [first : NodeId \cup {NULL}, last : NodeId \cup {NULL},
                 cursor : NodeId \cup {NULL}, length : 0 .. Cardinality(NodeId),
                 node : [NodeId -> [prev : NodeId \cup {NULL}, next : NodeId \cup {NULL},
                                    value : Value \cup {"free"}]]]

\* Forwards and backwards the list has the same nodes, just those that are
\* allocated, length of them: no node leaks, none is reached after it is freed,
\* and the cursor is never left at one that was freed under it.
WellFormed ==
    LET nodes == Nodes(object)
    IN  /\ ListTypeOK
        /\ Range(nodes) = Allocated(object)
        /\ Len(nodes) = object.length /\ IsInjective(nodes)
        /\ object.last = IF nodes = <<>> THEN NULL ELSE nodes[Len(nodes)]
        /\ \A i \in DOMAIN nodes :
               object.node[nodes[i]].prev = IF i = 1 THEN NULL ELSE nodes[i - 1]
        /\ object.cursor \in Allocated(object) \cup {NULL}

Index(l, n) == IF n \in Range(Nodes(l)) THEN CHOOSE i \in DOMAIN Nodes(l) : Nodes(l)[i] = n
               ELSE 0

Sequence == INSTANCE SequenceList
    WITH values <- Values(object), at <- Index(object, object.cursor),
         MaxLength <- Cardinality(NodeId)

\* Whatever is called, the list answers as a sequence with a cursor would:
\* an iteration by list_first and list_next goes on with the right value after
\* insertions and removals, and starts over when its value is removed.
ListIsSequence == Sequence!SeqSpec
=============================================================================
