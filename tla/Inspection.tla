----------------------------- MODULE Inspection -----------------------------
(***************************************************************************)
(* What `inspect-run` shows of a net, before and after it runs it: from    *)
(* the value on top of the stack to a node, and from node to node along    *)
(* the wires (prelude/net.c, net/wire.c, net/node_adjacency.c,             *)
(* net/allocated_node_iter.c, net/connected_node_iter.c, core/worker.c).   *)
(* Nobody else touches the net then, so inspection is operators on the     *)
(* state.                                                                  *)
(***************************************************************************)
EXTENDS InetRuntime, SequencesExt

\* Along the wires that were fused, from v on.
walk[v \in Value] ==
    IF is_wire(v) /\ wire[v] # NULL THEN walk[wire[v]] ELSE v

is_fuzed(x, y) == walk[x] = walk[y]

\* Fault: nodes whose principal ports meet are not connected.
is_connected_Wired(x, y) == walk[x] = walk[y]

is_connected(x, y) ==
    \/ walk[x] = walk[y]
    \/ /\ is_principal_wire(walk[x]) /\ is_principal_wire(walk[y])
       /\ principal_wire[walk[x]].oppsite = walk[y]
       /\ principal_wire[walk[y]].oppsite = walk[x]

\* allocated_node_array, in the order the nodes were made.
AllocatedNodes == SetToSortSeq(Node \ FreeNodes, <)

\* node_adjacency_new_maybe; through which ports is left to the printer.
adjacent(n, m) ==
    /\ n # m
    /\ \E i \in Port(node[n].ctor), j \in Port(node[m].ctor) :
        is_connected(node[n].values[i], node[m].values[j])

\* build_node_adjacency_hash, one entry.
node_adjacency_array(n) == SelectSeq(AllocatedNodes, LAMBDA m : adjacent(n, m))

\* take_node: `occurred` keeps the order, and `remaining` is a list.
take_node(iter, n) ==
    [occurred |-> Append(iter.occurred, n),
     remaining |-> iter.remaining \o node_adjacency_array(n)]

\* connected_node_iter_next, until it answers NULL.
RECURSIVE TakeAll(_)
TakeAll(iter) ==
    IF iter.remaining = <<>> THEN iter.occurred
    ELSE LET n == Last(iter.remaining)
             rest == [iter EXCEPT !.remaining = Front(@)]
         IN  TakeAll(IF Contains(iter.occurred, n) THEN rest ELSE take_node(rest, n))

connected_node_array(root) == TakeAll(take_node([occurred |-> <<>>, remaining |-> <<>>], root))

\* The first node with a port where the wire leads to, or NULL.
worker_lookup_node_by_wire(x) ==
    LET has(n) == \E i \in Port(node[n].ctor) : is_fuzed(node[n].values[i], x)
        nodes == SelectSeq(AllocatedNodes, has)
    IN  IF nodes = <<>> THEN NULL ELSE Head(nodes)

\* value_print_connected: where inspection starts.
RootOf(v) == IF is_wire(v) THEN worker_lookup_node_by_wire(v) ELSE principal_wire[v].node

\* `inspect-run` might be the Loader's next word, or has just run the net, and
\* the value on top is one of the net.
Inspectable ==
    /\ \/ phase = "load" /\ At(Loader, "execute")
       \/ phase = "done"
    /\ worker[Loader].stack # <<>>
    /\ Last(worker[Loader].stack) \notin Number

-----------------------------------------------------------------------------
(* What there is to see, without walking in any direction: ports, wires and  *)
(* principal wires as the edges of a graph.  A number is no edge: two nodes    *)
(* that hold equal ones would pass for connected, so a program's numbers are   *)
(* distinct here.                                                              *)

ANode(n) == <<"node", n>>
AValue(v) == <<"value", v>>

Edges ==
    {{ANode(n), AValue(node[n].values[i])} : <<n, i>> \in
        {e \in (Node \ FreeNodes) \X Index :
            e[2] \in Port(node[e[1]].ctor) /\ node[e[1]].values[e[2]] \notin Number}}
    \union {{AValue(x), AValue(wire[x])} : x \in {y \in Wire : wire[y] \in End}}
    \union {{AValue(p), AValue(principal_wire[p].oppsite)} :
                p \in {q \in PrincipalWire : principal_wire[q].oppsite # NULL}}

RECURSIVE Reachable(_, _)
Reachable(from, edges) ==
    LET more == UNION {e \in edges : e \intersect from # {}}
    IN  IF more \subseteq from THEN from ELSE Reachable(from \union more, edges)

Component(v) == {n \in Node : ANode(n) \in Reachable({AValue(v)}, Edges)}

\* Inspection comes by every node of the net that hangs on the value on top,
\* once, and by no other node; it finds no node to start from only when there
\* is none, and then its assertion fails (prelude/net.c:50).
InspectsTheComponent ==
    Inspectable =>
        LET v == Last(worker[Loader].stack)
            component == Component(v)
            root == RootOf(v)
            nodes == connected_node_array(root)
        IN  IF component = {} THEN root = NULL
            ELSE root # NULL /\ IsInjective(nodes) /\ Range(nodes) = component
=============================================================================
