----------------------------- MODULE LinkedList -----------------------------
(***************************************************************************)
(* The doubly linked list of packages/std/list/list.c: what each function  *)
(* makes of the list's record and of the nodes it points to.  Freed nodes  *)
(* keep no contents, and malloc hands out a freed node again first.        *)
(***************************************************************************)
EXTENDS Naturals, Sequences, FiniteSets

CONSTANTS NodeId,   \* addresses of list nodes, numbers above 0
          Value     \* what is listed; equal_fn is equality

ASSUME ListAssumption ==
    /\ NodeId \subseteq Nat \ {0} /\ IsFiniteSet(NodeId)
    /\ "free" \notin Value

NULL == 0
FreeNode == [prev |-> NULL, next |-> NULL, value |-> "free"]

list_new ==
    [first |-> NULL, last |-> NULL, cursor |-> NULL, length |-> 0,
     node |-> [n \in NodeId |-> FreeNode]]

Allocated(l) == {n \in NodeId : l.node[n].value # "free"}
FreshNode(l) == CHOOSE n \in NodeId \ Allocated(l) :
                    \A m \in NodeId \ Allocated(l) : n <= m

\* Fault: only the forward link is set.
Link_Forward(node, a, b) ==
    [m \in NodeId |-> [node[m] EXCEPT !.next = IF m = a THEN b ELSE @]]

\* a and b become neighbours; either may be NULL.
Link(node, a, b) ==
    [m \in NodeId |-> [node[m] EXCEPT !.next = IF m = a THEN b ELSE @,
                                      !.prev = IF m = b THEN a ELSE @]]

CursorWithout(l, n) == IF l.cursor = n THEN NULL ELSE l.cursor

\* Takes node n out of the list and frees it.
Unlink(l, n) ==
    LET p == l.node[n].prev
        q == l.node[n].next
    IN  [node   |-> [Link(l.node, p, q) EXCEPT ![n] = FreeNode],
         first  |-> IF l.first = n THEN q ELSE l.first,
         last   |-> IF l.last = n THEN p ELSE l.last,
         cursor |-> CursorWithout(l, n),
         length |-> l.length - 1]

list_push(l, v) ==
    LET n == FreshNode(l)
        node == [l.node EXCEPT ![n].value = v]
    IN  [l EXCEPT !.node = Link(node, l.last, n), !.last = n, !.length = @ + 1,
                  !.first = IF l.last = NULL THEN n ELSE @]

list_unshift(l, v) ==
    LET n == FreshNode(l)
        node == [l.node EXCEPT ![n].value = v]
    IN  [l EXCEPT !.node = Link(node, n, l.first), !.first = n, !.length = @ + 1,
                  !.last = IF l.first = NULL THEN n ELSE @]

list_pop(l) == IF l.last = NULL THEN [l EXCEPT !.cursor = NULL] ELSE Unlink(l, l.last)
list_shift(l) == IF l.first = NULL THEN [l EXCEPT !.cursor = NULL] ELSE Unlink(l, l.first)

\* The loops over the list: the nodes that are met from node n on.
Chain(l, n) ==
    LET met[i \in 0 .. l.length] ==
            IF i = 0 THEN n
            ELSE IF met[i - 1] = NULL THEN NULL ELSE l.node[met[i - 1]].next
    IN  [i \in {j \in 1 .. l.length : met[j - 1] # NULL} |-> met[i - 1]]

Nodes(l) == Chain(l, l.first)
Values(l) == [i \in DOMAIN Nodes(l) |-> l.node[Nodes(l)[i]].value]

Places(l, v) == {i \in DOMAIN Values(l) : Values(l)[i] = v}
FirstPlace(l, v) == CHOOSE i \in Places(l, v) : \A j \in Places(l, v) : i <= j

list_has(l, v) == Places(l, v) # {}

list_remove(l, v) ==
    IF list_has(l, v) THEN Unlink(l, Nodes(l)[FirstPlace(l, v)]) ELSE l

\* The cursor is left at the value found, or else at the first.
list_find(l, v) ==
    [l EXCEPT !.cursor = IF list_has(l, v) THEN Nodes(l)[FirstPlace(l, v)] ELSE l.first]

list_first(l) == [l EXCEPT !.cursor = l.first]
list_last(l) == [l EXCEPT !.cursor = l.last]

\* Fault: after the end the walk stays there.
list_next_Stays(l) == [l EXCEPT !.cursor = IF @ = NULL THEN NULL ELSE l.node[@].next]

\* Past either end the cursor is NULL, and from NULL it starts over.
list_next(l) == [l EXCEPT !.cursor = IF @ = NULL THEN l.first ELSE l.node[@].next]
list_prev(l) == [l EXCEPT !.cursor = IF @ = NULL THEN l.last ELSE l.node[@].prev]

ValueAt(l, n) == IF n = NULL THEN "NULL" ELSE l.node[n].value
list_current(l) == ValueAt(l, l.cursor)
list_get(l, i) == IF i + 1 \in DOMAIN Values(l) THEN Values(l)[i + 1] ELSE "NULL"

\* The source's cursor walks to the end of what is copied.
list_copy(l) == [l EXCEPT !.cursor = NULL]

list_purge(l) == list_new
=============================================================================
