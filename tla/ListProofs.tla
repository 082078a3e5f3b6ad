----------------------------- MODULE ListProofs -----------------------------
(***************************************************************************)
(* Theorems about the doubly linked list (list.c, module ListObject) and   *)
(* the deque built on it (deque.c, module Deque), for any finite set of    *)
(* nodes, any values and any finite set of threads.                        *)
(*                                                                         *)
(* The invariant of the list is Linked(l, s, k): some sequence s names the *)
(* k allocated nodes in order and every link agrees with it.  Push,        *)
(* unshift and unlink each map s to the sequence they should.  The deque   *)
(* inherits it: its list is linked, and has a node left for every push     *)
(* that is under way.                                                      *)
(***************************************************************************)
EXTENDS ListObject, Deque, Integers, FiniteSetTheorems, SequenceTheorems, WellFoundedInduction, TLAPS

\* A node of list.c: a value, and links that may be NULL.
NodeRecord == [prev : NodeId \cup {NULL}, next : NodeId \cup {NULL}, value : Value \cup {"free"}]
ListRecord == [first : NodeId \cup {NULL}, last : NodeId \cup {NULL},
               cursor : NodeId \cup {NULL}, length : Nat, node : [NodeId -> NodeRecord]]

\* s lists the k nodes of l in order
Linked(l, s, k) ==
    /\ l \in ListRecord
    /\ k \in Nat /\ s \in [1 .. k -> NodeId]
    /\ \A i, j \in 1 .. k : s[i] = s[j] => i = j
    /\ \A n \in NodeId : (\A i \in 1 .. k : s[i] # n) => l.node[n] = FreeNode
    /\ \A i \in 1 .. k : /\ l.node[s[i]].value # "free"
                         /\ l.node[s[i]].next = IF i = k THEN NULL ELSE s[i + 1]
                         /\ l.node[s[i]].prev = IF i = 1 THEN NULL ELSE s[i - 1]
    /\ l.length = k
    /\ l.first = IF k = 0 THEN NULL ELSE s[1]
    /\ l.last = IF k = 0 THEN NULL ELSE s[k]
    /\ l.cursor # NULL => \E i \in 1 .. k : l.cursor = s[i]

\* A property of 0 that goes from each number below k to the next holds up to k.
LEMMA Induct ==
    ASSUME NEW k \in Nat, NEW S, 0 \in S, \A i \in 0 .. k - 1 : i \in S => i + 1 \in S
    PROVE  0 .. k \subseteq S
<1> DEFINE T == {i \in 0 .. k : i \notin S}
<1> SUFFICES ASSUME T # {} PROVE FALSE
    OBVIOUS
<1>1. \E x \in T : \A y \in T : <<y, x>> \notin OpToRel(<, Nat)
    <2>1. T \subseteq Nat
        OBVIOUS
    <2> HIDE DEF T
    <2> QED
        BY <2>1, WFMin, NatLessThanWellFounded, Zenon
<1>2. PICK x \in T : \A y \in T : ~(y < x)
    <2>1. \A y \in T : y \in Nat
        OBVIOUS
    <2> HIDE DEF T
    <2> QED
        BY <1>1, <2>1, Zenon DEF OpToRel
<1>3. x - 1 \in 0 .. k - 1 /\ x - 1 \in S
    BY <1>2
<1> QED
    BY <1>2, <1>3

\* A set of naturals with a member has a least one.
LEMMA LeastOf ==
    ASSUME NEW T, T \subseteq Nat, T # {}
    PROVE  \E x \in T : \A y \in T : x <= y
<1>1. \E x \in T : \A y \in T : <<y, x>> \notin OpToRel(<, Nat)
    BY WFMin, NatLessThanWellFounded, Zenon
<1>2. PICK x \in T : \A y \in T : ~(y < x)
    <2>1. \A y \in T : y \in Nat
        OBVIOUS
    <2> QED
        BY <1>1, <2>1, Zenon DEF OpToRel
<1> QED
    BY <1>2

\* Following next from the first node of a list reaches its nodes in order.
LEMMA Chained ==
    ASSUME NEW l, NEW s, NEW k, Linked(l, s, k)
    PROVE  Nodes(l) = s
<1> DEFINE Met(f) == [i \in 0 .. l.length |-> 
                  IF i = 0 THEN l.first ELSE IF f[i - 1] = NULL THEN NULL ELSE l.node[f[i - 1]].next]
           met == CHOOSE f : f = Met(f)
           w == [i \in 0 .. k |-> IF i = k THEN NULL ELSE s[i + 1]]
<1>0. k \in Nat /\ s \in [1 .. k -> NodeId] /\ l.length = k /\ l.first = IF k = 0 THEN NULL ELSE s[1]
    BY DEF Linked
<1>1. \A i \in 1 .. k : s[i] # NULL /\ l.node[s[i]].next = IF i = k THEN NULL ELSE s[i + 1]
    BY ListAssumption DEF Linked, NULL
<1>2. w = Met(w)
  <2>1. ASSUME NEW i \in 0 .. k
        PROVE w[i] = Met(w)[i]
    <3>1. CASE i = 0
        BY <1>0, <3>1
    <3>2. CASE i # 0
        <4>1. i - 1 \in 0 .. k /\ w[i - 1] = s[i] /\ i \in 1 .. k
            BY <1>0, <3>2
        <4> QED
        BY <1>0, <1>1, <3>2, <4>1
    <3> QED BY <3>1, <3>2
  <2> QED
    BY <2>1, <1>0
<1>3. met = Met(met)
    <2> HIDE DEF Met, w
    <2> QED
    BY <1>2, Zenon
<1>4. 0 .. k \subseteq {i \in 0 .. k : met[i] = w[i]}
    <2> HIDE DEF met
    <2> DEFINE S == {i \in 0 .. k : met[i] = w[i]}
    <2>1. 0 \in S
        BY <1>3, <1>0
    <2>2. ASSUME NEW i \in 0 .. k - 1, i \in S PROVE i + 1 \in S
        <3>1. met[i + 1] = IF met[i] = NULL THEN NULL ELSE l.node[met[i]].next
            <4>1. i + 1 \in 0 .. l.length /\ i + 1 # 0 /\ (i + 1) - 1 = i
                BY <1>0
            <4> QED
            BY <1>3, <4>1, Zenon
        <3>2. met[i] = s[i + 1] /\ i + 1 \in 1 .. k
            BY <2>2, <1>0
        <3> QED
            BY <1>1, <3>1, <3>2, <1>0
    <2>3. 0 .. k \subseteq S
        <3> HIDE DEF S
        <3> QED BY <1>0, <2>1, <2>2, Induct
    <2> QED BY <2>3
<1>5. Nodes(l) = [i \in {j \in 1 .. l.length : met[j - 1] # NULL} |-> met[i - 1]]
    BY Zenon DEF Nodes, Chain
<1>6. \A i \in 1 .. k : met[i - 1] = s[i]
    <2> TAKE i \in 1 .. k
    <2>1. i - 1 \in 0 .. k /\ w[i - 1] = s[i]
        BY <1>0
    <2> HIDE DEF met, w
    <2> QED BY <1>4, <2>1
<1> QED
    <2> HIDE DEF met
    <2> QED
    BY <1>0, <1>1, <1>5, <1>6

-----------------------------------------------------------------------------

\* What Link makes of the nodes: only a's next and b's prev change.
Joined(node, new, a, b) ==
    /\ new \in [NodeId -> NodeRecord]
    /\ \A m \in NodeId : /\ new[m].next = IF m = a THEN b ELSE node[m].next
                         /\ new[m].prev = IF m = b THEN a ELSE node[m].prev
                         /\ new[m].value = node[m].value
                         /\ m # a /\ m # b => new[m] = node[m]

\* node_link (list.c) sets the two fields it is there to set.
LEMMA LinkSets ==
    ASSUME NEW node, node \in [NodeId -> NodeRecord], NEW a, a \in NodeId \cup {NULL},
           NEW b, b \in NodeId \cup {NULL}
    PROVE  Joined(node, Link(node, a, b), a, b)
<1> DEFINE new(m) == [node[m] EXCEPT !.next = IF m = a THEN b ELSE @,
                                     !.prev = IF m = b THEN a ELSE @]
<1>1. ASSUME NEW m \in NodeId
      PROVE  /\ new(m) \in NodeRecord
             /\ new(m).next = IF m = a THEN b ELSE node[m].next
             /\ new(m).prev = IF m = b THEN a ELSE node[m].prev
             /\ new(m).value = node[m].value
             /\ m # a /\ m # b => new(m) = node[m]
    <2>1. node[m] \in NodeRecord
        OBVIOUS
    <2> QED
        BY <2>1 DEF NodeRecord
<1>2. Link(node, a, b) = [m \in NodeId |-> new(m)]
    BY DEF Link
<1> HIDE DEF new
<1> QED
    BY <1>1, <1>2 DEF Joined

\* A node just allocated is one that no list holds.
LEMMA FreshIs ==
    ASSUME NEW l, NodeId \ Allocated(l) # {}
    PROVE  FreshNode(l) \in NodeId \ Allocated(l)
<1>1. NodeId \ Allocated(l) \subseteq Nat
    BY ListAssumption
<1> DEFINE T == NodeId \ Allocated(l)
<1>2. \E x \in T : \A y \in T : x <= y
    <2> HIDE DEF T
    <2> QED BY <1>1, LeastOf DEF T
<1> QED
    BY <1>2 DEF FreshNode

\* list_push appends a node to the nodes of the list.
LEMMA PushLinks ==
    ASSUME NEW l, NEW s, NEW k, Linked(l, s, k), NodeId \ Allocated(l) # {}, NEW v \in Value
    PROVE  LET n == FreshNode(l)
               t == [i \in 1 .. k + 1 |-> IF i = k + 1 THEN n ELSE s[i]]
               m == list_push(l, v)
           IN  /\ Linked(m, t, k + 1)
               /\ m.node[n].value = v /\ m.cursor = l.cursor
               /\ \A i \in 1 .. k : m.node[s[i]].value = l.node[s[i]].value
<1> DEFINE n == FreshNode(l)
           t == [i \in 1 .. k + 1 |-> IF i = k + 1 THEN n ELSE s[i]]
           m == list_push(l, v)
           x == [l.node EXCEPT ![n].value = v]
<1>1. l \in ListRecord /\ k \in Nat /\ s \in [1 .. k -> NodeId]
    BY DEF Linked
<1>2. n \in NodeId /\ l.node[n].value = "free" /\ n # NULL
    BY FreshIs, ListAssumption DEF Allocated, NULL
<1> HIDE DEF n
<1>3. \A i \in 1 .. k : s[i] # n
    BY <1>2 DEF Linked
<1>4. l.node \in [NodeId -> NodeRecord] /\ l.node[n] = FreeNode
    BY <1>1, <1>2, <1>3 DEF Linked, ListRecord
<1>5. /\ x \in [NodeId -> NodeRecord]
      /\ x[n].value = v /\ x[n].next = NULL /\ x[n].prev = NULL
      /\ \A j \in NodeId : j # n => x[j] = l.node[j]
    BY <1>2, <1>4 DEF NodeRecord, FreeNode
<1> HIDE DEF x
<1>6. /\ m.node = Link(x, l.last, n) /\ m.first = IF l.last = NULL THEN n ELSE l.first
      /\ m.last = n /\ m.length = l.length + 1 /\ m.cursor = l.cursor
    BY <1>1 DEF list_push, x, n, ListRecord
<1>7. l.last \in NodeId \cup {NULL}
    BY <1>1 DEF ListRecord
<1>8. /\ m.node \in [NodeId -> NodeRecord]
      /\ \A j \in NodeId : /\ m.node[j].next = IF j = l.last THEN n ELSE x[j].next
                           /\ m.node[j].prev = IF j = n THEN l.last ELSE x[j].prev
                           /\ m.node[j].value = x[j].value
                           /\ j # n /\ j # l.last => m.node[j] = x[j]
    <2>1. Joined(x, m.node, l.last, n)
        <3>1. x \in [NodeId -> NodeRecord] /\ n \in NodeId \cup {NULL}
            BY <1>2, <1>5
        <3> QED
            BY <1>6, <1>7, <3>1, LinkSets
    <2> QED
        BY <2>1 DEF Joined
<1>9. m \in ListRecord
    <2>1. m = [l EXCEPT !.node = m.node, !.last = m.last, !.length = m.length, !.first = m.first]
        BY <1>1, <1>6 DEF list_push, ListRecord, n, x
    <2>2. m.last \in NodeId \cup {NULL} /\ m.first \in NodeId \cup {NULL} /\ m.length \in Nat
        BY <1>1, <1>2, <1>6 DEF ListRecord
    <2> HIDE DEF m
    <2> QED
        BY <1>1, <1>8, <2>1, <2>2 DEF ListRecord
<1> HIDE DEF m
<1>10. /\ k + 1 \in Nat /\ t \in [1 .. k + 1 -> NodeId] /\ t[k + 1] = n
       /\ \A i \in 1 .. k : t[i] = s[i]
    BY <1>1, <1>2
<1> HIDE DEF t
<1>11. \A i, j \in 1 .. k + 1 : t[i] = t[j] => i = j
    <2>1. \A i \in 1 .. k + 1 : i = k + 1 \/ i \in 1 .. k
        BY <1>1
    <2>2. \A i, j \in 1 .. k : s[i] = s[j] => i = j
        BY DEF Linked
    <2> QED
        BY <1>3, <1>10, <2>1, <2>2
<1>12. l.last = (IF k = 0 THEN NULL ELSE s[k]) /\ l.length = k /\ l.first = (IF k = 0 THEN NULL ELSE s[1])
    BY DEF Linked
<1>13. ASSUME NEW j \in NodeId, \A i \in 1 .. k + 1 : t[i] # j
       PROVE  m.node[j] = FreeNode
    <2>1. \A i \in 1 .. k : s[i] # j
        BY <1>13, <1>10, <1>1
    <2>2. l.node[j] = FreeNode
        BY <2>1 DEF Linked
    <2>3. j # n /\ k + 1 \in 1 .. k + 1
        BY <1>13, <1>10, <1>1
    <2>4. j # l.last
        <3>1. CASE k = 0
            BY <3>1, <1>12, ListAssumption DEF NULL
        <3>2. CASE k # 0
            BY <3>2, <1>12, <2>1, <1>1
        <3> QED BY <3>1, <3>2
    <2> QED
        BY <1>5, <1>8, <2>2, <2>3, <2>4
<1>14. ASSUME NEW i \in 1 .. k + 1
       PROVE  /\ m.node[t[i]].value # "free"
              /\ m.node[t[i]].next = IF i = k + 1 THEN NULL ELSE t[i + 1]
              /\ m.node[t[i]].prev = IF i = 1 THEN NULL ELSE t[i - 1]
    <2>1. CASE i = k + 1
        <3>1. l.last # n
            BY <1>2, <1>3, <1>12, <1>1
        <3>2. m.node[n].next = NULL /\ m.node[n].prev = l.last /\ m.node[n].value = v
            BY <1>2, <1>5, <1>8, <3>1
        <3>3. l.last = IF i = 1 THEN NULL ELSE t[i - 1]
            BY <2>1, <1>10, <1>12, <1>1
        <3>4. v # "free"
            BY ListAssumption
        <3> QED
            BY <2>1, <1>10, <3>2, <3>3, <3>4
    <2>2. CASE i \in 1 .. k
        <3>1. /\ s[i] \in NodeId /\ s[i] # n
              /\ l.node[s[i]].value # "free"
              /\ l.node[s[i]].next = IF i = k THEN NULL ELSE s[i + 1]
              /\ l.node[s[i]].prev = IF i = 1 THEN NULL ELSE s[i - 1]
            BY <2>2, <1>1, <1>3 DEF Linked
        <3>2. s[i] = l.last <=> i = k
            BY <2>2, <1>1, <1>12 DEF Linked
        <3>3. /\ m.node[s[i]].value # "free"
              /\ m.node[s[i]].next = IF i = k THEN n ELSE s[i + 1]
              /\ m.node[s[i]].prev = IF i = 1 THEN NULL ELSE s[i - 1]
            BY <3>1, <3>2, <1>5, <1>8
        <3>4. t[i + 1] = IF i = k THEN n ELSE s[i + 1]
            BY <2>2, <1>1, <1>10
        <3>5. i # 1 => t[i - 1] = s[i - 1]
            BY <2>2, <1>1, <1>10
        <3> QED
            BY <2>2, <1>1, <1>10, <3>3, <3>4, <3>5
    <2> QED BY <2>1, <2>2, <1>1
<1>15. m.first = t[1] /\ m.last = t[k + 1] /\ m.length = k + 1
    <2>1. k # 0 => s[1] \in NodeId /\ s[k] \in NodeId /\ t[1] = s[1]
        BY <1>1, <1>10
    <2> QED
    BY <1>1, <1>6, <1>10, <1>12, <2>1, ListAssumption DEF NULL
<1>16. m.cursor # NULL => \E i \in 1 .. k + 1 : m.cursor = t[i]
    BY <1>6, <1>10, <1>1 DEF Linked
<1>17. Linked(m, t, k + 1)
    BY <1>1, <1>9, <1>10, <1>11, <1>13, <1>14, <1>15, <1>16 DEF Linked
<1>18. m.node[n].value = v
    BY <1>2, <1>5, <1>8
<1>19. \A i \in 1 .. k : m.node[s[i]].value = l.node[s[i]].value
    BY <1>1, <1>3, <1>5, <1>8
<1> QED
    BY <1>6, <1>17, <1>18, <1>19 DEF m, t, n

\* list_unshift puts a node before the nodes of the list.
LEMMA UnshiftLinks ==
    ASSUME NEW l, NEW s, NEW k, Linked(l, s, k), NodeId \ Allocated(l) # {}, NEW v \in Value
    PROVE  LET n == FreshNode(l)
               t == [i \in 1 .. k + 1 |-> IF i = 1 THEN n ELSE s[i - 1]]
               m == list_unshift(l, v)
           IN  /\ Linked(m, t, k + 1)
               /\ m.node[n].value = v /\ m.cursor = l.cursor
               /\ \A i \in 1 .. k : m.node[s[i]].value = l.node[s[i]].value
<1> DEFINE n == FreshNode(l)
           t == [i \in 1 .. k + 1 |-> IF i = 1 THEN n ELSE s[i - 1]]
           m == list_unshift(l, v)
           x == [l.node EXCEPT ![n].value = v]
<1>1. l \in ListRecord /\ k \in Nat /\ s \in [1 .. k -> NodeId]
    BY DEF Linked
<1>2. n \in NodeId /\ l.node[n].value = "free" /\ n # NULL
    BY FreshIs, ListAssumption DEF Allocated, NULL
<1> HIDE DEF n
<1>3. \A i \in 1 .. k : s[i] # n
    BY <1>2 DEF Linked
<1>4. l.node \in [NodeId -> NodeRecord] /\ l.node[n] = FreeNode
    BY <1>1, <1>2, <1>3 DEF Linked, ListRecord
<1>5. /\ x \in [NodeId -> NodeRecord]
      /\ x[n].value = v /\ x[n].next = NULL /\ x[n].prev = NULL
      /\ \A j \in NodeId : j # n => x[j] = l.node[j]
    BY <1>2, <1>4 DEF NodeRecord, FreeNode
<1> HIDE DEF x
<1>6. /\ m.node = Link(x, n, l.first) /\ m.last = IF l.first = NULL THEN n ELSE l.last
      /\ m.first = n /\ m.length = l.length + 1 /\ m.cursor = l.cursor
    BY <1>1 DEF list_unshift, x, n, ListRecord
<1>7. l.first \in NodeId \cup {NULL}
    BY <1>1 DEF ListRecord
<1>8. /\ m.node \in [NodeId -> NodeRecord]
      /\ \A j \in NodeId : /\ m.node[j].next = IF j = n THEN l.first ELSE x[j].next
                           /\ m.node[j].prev = IF j = l.first THEN n ELSE x[j].prev
                           /\ m.node[j].value = x[j].value
                           /\ j # n /\ j # l.first => m.node[j] = x[j]
    <2>1. Joined(x, m.node, n, l.first)
        <3>1. x \in [NodeId -> NodeRecord] /\ n \in NodeId \cup {NULL}
            BY <1>2, <1>5
        <3> QED
            BY <1>6, <1>7, <3>1, LinkSets
    <2> QED
        BY <2>1 DEF Joined
<1>9. m \in ListRecord
    <2>1. m = [l EXCEPT !.node = m.node, !.first = m.first, !.length = m.length, !.last = m.last]
        BY <1>1, <1>6 DEF list_unshift, ListRecord, n, x
    <2>2. m.last \in NodeId \cup {NULL} /\ m.first \in NodeId \cup {NULL} /\ m.length \in Nat
        BY <1>1, <1>2, <1>6 DEF ListRecord
    <2> HIDE DEF m
    <2> QED
        BY <1>1, <1>8, <2>1, <2>2 DEF ListRecord
<1> HIDE DEF m
<1>10. /\ k + 1 \in Nat /\ t \in [1 .. k + 1 -> NodeId] /\ t[1] = n
       /\ \A i \in 1 .. k : t[i + 1] = s[i]
    <2>1. \A i \in 1 .. k : i + 1 \in 1 .. k + 1 /\ i + 1 # 1 /\ (i + 1) - 1 = i
        BY <1>1
    <2> QED
        BY <1>1, <1>2, <2>1
<1>11. \A i \in 1 .. k + 1 : i = 1 \/ (i - 1 \in 1 .. k /\ t[i] = s[i - 1])
    BY <1>1, <1>2
<1> HIDE DEF t
<1>12. \A i, j \in 1 .. k + 1 : t[i] = t[j] => i = j
    <2>1. \A i, j \in 1 .. k : s[i] = s[j] => i = j
        BY DEF Linked
    <2> QED
        BY <1>3, <1>10, <1>11, <2>1
<1>13. l.last = (IF k = 0 THEN NULL ELSE s[k]) /\ l.length = k /\ l.first = (IF k = 0 THEN NULL ELSE s[1])
    BY DEF Linked
<1>14. ASSUME NEW j \in NodeId, \A i \in 1 .. k + 1 : t[i] # j
       PROVE  m.node[j] = FreeNode
    <2>1. \A i \in 1 .. k : s[i] # j
        BY <1>14, <1>10, <1>1
    <2>2. l.node[j] = FreeNode
        BY <2>1 DEF Linked
    <2>3. j # n
        BY <1>14, <1>10, <1>1
    <2>4. j # l.first
        <3>1. CASE k = 0
            BY <3>1, <1>13, ListAssumption DEF NULL
        <3>2. CASE k # 0
            BY <3>2, <1>13, <2>1, <1>1
        <3> QED BY <3>1, <3>2
    <2> QED
        BY <1>5, <1>8, <2>2, <2>3, <2>4
<1>15. ASSUME NEW i \in 1 .. k + 1
       PROVE  /\ m.node[t[i]].value # "free"
              /\ m.node[t[i]].next = IF i = k + 1 THEN NULL ELSE t[i + 1]
              /\ m.node[t[i]].prev = IF i = 1 THEN NULL ELSE t[i - 1]
    <2>1. CASE i = 1
        <3>1. l.first # n
            BY <1>2, <1>3, <1>13, <1>1
        <3>2. m.node[n].prev = NULL /\ m.node[n].next = l.first /\ m.node[n].value = v
            BY <1>2, <1>5, <1>8, <3>1
        <3>3. l.first = IF i = k + 1 THEN NULL ELSE t[i + 1]
            BY <2>1, <1>10, <1>13, <1>1
        <3>4. v # "free"
            BY ListAssumption
        <3> QED
            BY <2>1, <1>10, <3>2, <3>3, <3>4
    <2>2. ASSUME NEW h \in 1 .. k, i = h + 1
          PROVE  /\ m.node[t[i]].value # "free"
                 /\ m.node[t[i]].next = IF i = k + 1 THEN NULL ELSE t[i + 1]
                 /\ m.node[t[i]].prev = IF i = 1 THEN NULL ELSE t[i - 1]
        <3>1. /\ s[h] \in NodeId /\ s[h] # n
              /\ l.node[s[h]].value # "free"
              /\ l.node[s[h]].next = IF h = k THEN NULL ELSE s[h + 1]
              /\ l.node[s[h]].prev = IF h = 1 THEN NULL ELSE s[h - 1]
            BY <1>1, <1>3 DEF Linked
        <3>2. s[h] = l.first <=> h = 1
            BY <1>1, <1>13 DEF Linked
        <3>3. /\ m.node[s[h]].value # "free"
              /\ m.node[s[h]].prev = IF h = 1 THEN n ELSE s[h - 1]
              /\ m.node[s[h]].next = IF h = k THEN NULL ELSE s[h + 1]
            BY <3>1, <3>2, <1>5, <1>8
        <3>4. t[i - 1] = IF h = 1 THEN n ELSE s[h - 1]
            BY <2>2, <1>1, <1>10, <1>11
        <3>5. h # k => t[i + 1] = s[h + 1]
            BY <2>2, <1>1, <1>10
        <3> QED
            BY <2>2, <1>1, <1>10, <3>3, <3>4, <3>5
    <2>3. i = 1 \/ (i - 1 \in 1 .. k /\ i = (i - 1) + 1)
        BY <1>1
    <2> QED BY <2>1, <2>2, <2>3
<1>16. m.first = t[1] /\ m.last = t[k + 1] /\ m.length = k + 1
    <2>1. k # 0 => s[1] \in NodeId /\ s[k] \in NodeId /\ t[k + 1] = s[k]
        BY <1>1, <1>10
    <2> QED
        BY <1>1, <1>6, <1>10, <1>13, <2>1, ListAssumption DEF NULL
<1>17. m.cursor # NULL => \E i \in 1 .. k + 1 : m.cursor = t[i]
    <2>1. \A i \in 1 .. k : i + 1 \in 1 .. k + 1
        BY <1>1
    <2> QED
        BY <1>6, <1>10, <2>1 DEF Linked
<1>18. Linked(m, t, k + 1)
    BY <1>1, <1>9, <1>10, <1>12, <1>14, <1>15, <1>16, <1>17 DEF Linked
<1>19. m.node[n].value = v
    BY <1>2, <1>5, <1>8
<1>20. \A i \in 1 .. k : m.node[s[i]].value = l.node[s[i]].value
    BY <1>1, <1>3, <1>5, <1>8
<1> QED
    BY <1>6, <1>18, <1>19, <1>20 DEF m, t, n

\* The k nodes of s but for the one at place p.
Without(s, k, p) == [i \in 1 .. k - 1 |-> IF i < p THEN s[i] ELSE s[i + 1]]

\* list_unlink takes one node out, at any place, and joins its neighbours.
LEMMA UnlinkLinks ==
    ASSUME NEW l, NEW s, NEW k, Linked(l, s, k), NEW p \in 1 .. k
    PROVE  LET m == Unlink(l, s[p])
           IN  /\ Linked(m, Without(s, k, p), k - 1)
               /\ m.cursor = IF l.cursor = s[p] THEN NULL ELSE l.cursor
               /\ \A i \in 1 .. k : i # p => m.node[s[i]].value = l.node[s[i]].value
<1> DEFINE t == Without(s, k, p)
           n == s[p]
           m == Unlink(l, n)
           a == IF p = 1 THEN NULL ELSE s[p - 1]
           b == IF p = k THEN NULL ELSE s[p + 1]
           x == Link(l.node, a, b)
<1>1. l \in ListRecord /\ k \in Nat \ {0} /\ s \in [1 .. k -> NodeId]
    BY DEF Linked
<1>2. l.node \in [NodeId -> NodeRecord] /\ l.node[n].prev = a /\ l.node[n].next = b
    BY <1>1 DEF Linked, ListRecord
<1>3. n \in NodeId /\ a \in NodeId \cup {NULL} /\ b \in NodeId \cup {NULL} /\ n # NULL
    BY <1>1, ListAssumption DEF NULL
<1>4. \A i, j \in 1 .. k : s[i] = s[j] => i = j
    BY DEF Linked
<1>5. a # n /\ b # n
    <2>1. p # 1 => p - 1 \in 1 .. k /\ p - 1 # p
        BY <1>1
    <2>2. p # k => p + 1 \in 1 .. k /\ p + 1 # p
        BY <1>1
    <2> QED
        BY <1>3, <1>4, <2>1, <2>2
<1>6. Joined(l.node, x, a, b)
    BY <1>2, <1>3, LinkSets, Zenon
<1>7. /\ m = [node |-> [x EXCEPT ![n] = FreeNode], first |-> IF l.first = n THEN b ELSE l.first,
              last |-> IF l.last = n THEN a ELSE l.last,
              cursor |-> IF l.cursor = n THEN NULL ELSE l.cursor, length |-> l.length - 1]
    BY <1>2, Zenon DEF Unlink, CursorWithout
<1> HIDE DEF x, m, t
<1>8. /\ m.node \in [NodeId -> NodeRecord] /\ m.node[n] = FreeNode
      /\ \A j \in NodeId \ {n} : m.node[j] = x[j]
    BY <1>3, <1>6, <1>7 DEF Joined, FreeNode, NodeRecord
<1>9. l.length = k /\ l.first = s[1] /\ l.last = s[k] /\ l.cursor \in NodeId \cup {NULL}
    BY <1>1 DEF Linked, ListRecord
<1>10. m \in ListRecord /\ m.length = k - 1
    <2>1. s[1] \in NodeId /\ s[k] \in NodeId
        BY <1>1
    <2> QED
        BY <1>1, <1>3, <1>7, <1>8, <1>9, <2>1 DEF ListRecord
<1>11. m.first = (IF p = 1 THEN b ELSE s[1]) /\ m.last = (IF p = k THEN a ELSE s[k])
       /\ m.cursor = IF l.cursor = n THEN NULL ELSE l.cursor
    <2>1. s[1] = n <=> p = 1
        BY <1>1, <1>4
    <2>2. s[k] = n <=> p = k
        BY <1>1, <1>4
    <2> QED
        BY <1>7, <1>9, <2>1, <2>2
<1>12. /\ t \in [1 .. k - 1 -> NodeId] /\ k - 1 \in Nat
       /\ \A i \in 1 .. k - 1 : t[i] = IF i < p THEN s[i] ELSE s[i + 1]
    BY <1>1 DEF t, Without
<1>13. \A i \in 1 .. k : i # p => \E j \in 1 .. k - 1 : t[j] = s[i]
    <2> TAKE i \in 1 .. k
    <2> HAVE i # p
    <2>1. CASE i < p
        <3>1. i \in 1 .. k - 1
            BY <1>1, <2>1
        <3> QED BY <2>1, <3>1, <1>12
    <2>2. CASE i > p
        <3>1. i - 1 \in 1 .. k - 1 /\ ~(i - 1 < p) /\ (i - 1) + 1 = i
            BY <1>1, <2>2
        <3> QED BY <3>1, <1>12
    <2> QED BY <2>1, <2>2
<1>14. \A i, j \in 1 .. k - 1 : t[i] = t[j] => i = j
    <2> TAKE i, j \in 1 .. k - 1
    <2>1. i \in 1 .. k /\ j \in 1 .. k /\ i + 1 \in 1 .. k /\ j + 1 \in 1 .. k
        BY <1>1
    <2> QED BY <1>1, <1>4, <1>12, <2>1
<1>15. \A i \in 1 .. k - 1 : t[i] # n /\ t[i] \in NodeId
    <2> TAKE i \in 1 .. k - 1
    <2>1. i \in 1 .. k /\ i + 1 \in 1 .. k
        BY <1>1
    <2> QED BY <1>1, <1>4, <1>12, <2>1
<1>16. ASSUME NEW j \in NodeId, \A i \in 1 .. k - 1 : t[i] # j
       PROVE  m.node[j] = FreeNode
    <2>1. CASE j = n
        BY <2>1, <1>8
    <2>2. CASE j # n
        <3>1. \A i \in 1 .. k : s[i] # j
            BY <2>2, <1>13, <1>16
        <3>2. l.node[j] = FreeNode
            BY <3>1 DEF Linked
        <3>3. j # a /\ j # b
            <4>1. p # 1 => p - 1 \in 1 .. k
                BY <1>1
            <4>2. p # k => p + 1 \in 1 .. k
                BY <1>1
            <4> QED
                BY <3>1, <4>1, <4>2, ListAssumption DEF NULL
        <3> QED
            BY <2>2, <3>2, <3>3, <1>6, <1>8 DEF Joined
    <2> QED BY <2>1, <2>2
<1>17. \A i \in 1 .. k : i # p =>
          /\ m.node[s[i]].value = l.node[s[i]].value
          /\ m.node[s[i]].next = IF i + 1 = p THEN b ELSE l.node[s[i]].next
          /\ m.node[s[i]].prev = IF i - 1 = p THEN a ELSE l.node[s[i]].prev
    <2> TAKE i \in 1 .. k
    <2> HAVE i # p
    <2>1. s[i] \in NodeId /\ s[i] # n
        BY <1>1, <1>4
    <2>2. s[i] = a <=> i + 1 = p
        <3>1. p # 1 => p - 1 \in 1 .. k
            BY <1>1
        <3> QED
            BY <1>1, <1>4, <3>1, <2>1, ListAssumption DEF NULL
    <2>3. s[i] = b <=> i - 1 = p
        <3>1. p # k => p + 1 \in 1 .. k
            BY <1>1
        <3> QED
            BY <1>1, <1>4, <3>1, <2>1, ListAssumption DEF NULL
    <2> HIDE DEF a, b, n
    <2> QED
        BY <2>1, <2>2, <2>3, <1>6, <1>8 DEF Joined
<1>18. ASSUME NEW i \in 1 .. k - 1
       PROVE  /\ m.node[t[i]].value # "free"
              /\ m.node[t[i]].next = IF i = k - 1 THEN NULL ELSE t[i + 1]
              /\ m.node[t[i]].prev = IF i = 1 THEN NULL ELSE t[i - 1]
    <2>1. CASE i < p
        <3>1. i \in 1 .. k /\ i # p
            BY <1>1, <2>1
        <3>2. /\ l.node[s[i]].value # "free"
              /\ l.node[s[i]].next = s[i + 1]
              /\ l.node[s[i]].prev = IF i = 1 THEN NULL ELSE s[i - 1]
            BY <1>1, <2>1, <3>1 DEF Linked
        <3>3. i # k - 1 => t[i + 1] = IF i + 1 = p THEN s[p + 1] ELSE s[i + 1]
            BY <1>1, <1>12, <2>1
        <3>4. i # 1 => t[i - 1] = s[i - 1]
            BY <1>1, <1>12, <2>1
        <3>5. t[i] = s[i]
            BY <1>12, <2>1
        <3>6. i = k - 1 => i + 1 = p /\ p = k
            BY <1>1, <2>1
        <3>7. i + 1 = p /\ i # k - 1 => p # k
            BY <1>1, <2>1
        <3>8. i - 1 # p
            BY <1>1, <2>1
        <3> QED
            BY <3>1, <3>2, <3>3, <3>4, <3>5, <3>6, <3>7, <3>8, <1>17
    <2>2. CASE i >= p
        <3>1. i + 1 \in 1 .. k /\ i + 1 # p /\ (i + 1) - 1 = i /\ (i + 1) + 1 # p
            BY <1>1, <2>2
        <3>2. /\ l.node[s[i + 1]].value # "free"
              /\ l.node[s[i + 1]].next = IF i = k - 1 THEN NULL ELSE s[i + 2]
              /\ l.node[s[i + 1]].prev = s[i]
            BY <1>1, <2>2, <3>1 DEF Linked
        <3>3. i # k - 1 => t[i + 1] = s[i + 2]
            BY <1>1, <1>12, <2>2
        <3>4. i # 1 => t[i - 1] = IF i = p THEN s[i - 1] ELSE s[i]
            BY <1>1, <1>12, <2>2
        <3>5. t[i] = s[i + 1]
            BY <1>12, <1>1, <2>2
        <3>6. i = 1 => i = p /\ p = 1
            BY <1>1, <2>2
        <3>7. i = p /\ i # 1 => p # 1
            BY <1>1, <2>2
        <3> QED
            BY <3>1, <3>2, <3>3, <3>4, <3>5, <3>6, <3>7, <1>17
    <2> QED BY <2>1, <2>2, <1>1
<1>19. k - 1 # 0 => m.first = t[1] /\ m.last = t[k - 1]
    <2>1. k - 1 # 0 => 1 \in 1 .. k - 1 /\ k - 1 \in 1 .. k - 1
        BY <1>1
    <2> QED
        BY <1>1, <1>11, <1>12, <2>1
<1>20. k - 1 = 0 => m.first = NULL /\ m.last = NULL
    BY <1>1, <1>11
<1>21. m.cursor # NULL => \E i \in 1 .. k - 1 : m.cursor = t[i]
    <2> SUFFICES ASSUME m.cursor # NULL PROVE \E i \in 1 .. k - 1 : m.cursor = t[i]
        OBVIOUS
    <2>1. l.cursor # n /\ m.cursor = l.cursor /\ l.cursor # NULL
        BY <1>11
    <2>2. PICK i \in 1 .. k : l.cursor = s[i]
        BY <2>1, Zenon DEF Linked
    <2> QED
        BY <2>1, <2>2, <1>13
<1>22. Linked(m, t, k - 1)
    BY <1>10, <1>12, <1>14, <1>16, <1>18, <1>19, <1>20, <1>21 DEF Linked
<1> QED
    BY <1>11, <1>17, <1>22 DEF m, t

-----------------------------------------------------------------------------
(* What the list holds, as a sequence.                                      *)

\* The values of the nodes of s.
ValuesOf(l, s, k) == [i \in 1 .. k |-> l.node[s[i]].value]

\* What an observer of a linked list reads: its values, nodes and places.
LEMMA SeenAs ==
    ASSUME NEW l, NEW s, NEW k, Linked(l, s, k)
    PROVE  /\ Nodes(l) = s /\ DOMAIN s = 1 .. k /\ Len(s) = k /\ k \in Nat
           /\ Values(l) = ValuesOf(l, s, k) /\ Len(Values(l)) = k
           /\ Values(l) \in Seq(Value)
           /\ \A i \in 1 .. k : Values(l)[i] = l.node[s[i]].value
           /\ Index(l, NULL) = 0
           /\ \A i \in 1 .. k : Index(l, s[i]) = i
<1>1. Nodes(l) = s
    BY Chained
<1>2. k \in Nat /\ s \in [1 .. k -> NodeId] /\ DOMAIN s = 1 .. k
    BY DEF Linked
<1>3. Values(l) = ValuesOf(l, s, k)
    BY <1>1, <1>2, Zenon DEF Values, ValuesOf
<1>4. \A i \in 1 .. k : l.node[s[i]].value \in Value
    <2> TAKE i \in 1 .. k
    <2>1. s[i] \in NodeId /\ l.node \in [NodeId -> NodeRecord] /\ l.node[s[i]].value # "free"
        BY <1>2 DEF Linked, ListRecord
    <2>2. l.node[s[i]] \in NodeRecord
        BY <2>1
    <2> QED
        BY <2>1, <2>2 DEF NodeRecord
<1>5. ValuesOf(l, s, k) \in [1 .. k -> Value]
    BY <1>2, <1>4 DEF ValuesOf
<1>6. ValuesOf(l, s, k) \in Seq(Value) /\ Len(ValuesOf(l, s, k)) = k
    BY <1>2, <1>5
<1>7. s \in Seq(NodeId) /\ Len(s) = k
    BY <1>2
<1>8. Range(s) = {s[i] : i \in 1 .. k}
    BY <1>2, Zenon DEF Range
<1>9. Index(l, NULL) = 0
    <2>1. NULL \notin Range(s)
        BY <1>2, <1>8, ListAssumption DEF NULL
    <2> QED
        BY <1>1, <2>1, Zenon DEF Index
<1>10. ASSUME NEW i \in 1 .. k PROVE Index(l, s[i]) = i
    <2>1. s[i] \in Range(s)
        BY <1>8
    <2>2. Index(l, s[i]) = CHOOSE j \in 1 .. k : s[j] = s[i]
        BY <1>1, <1>2, <2>1, Zenon DEF Index
    <2>3. \A j \in 1 .. k : s[j] = s[i] => j = i
        BY DEF Linked
    <2> QED
        BY <2>2, <2>3, Zenon
<1> QED
    BY <1>1, <1>2, <1>3, <1>6, <1>7, <1>9, <1>10, <1>5 DEF ValuesOf

\* The cursor as a place: 0 is nowhere.
At(l) == Index(l, l.cursor)

\* The cursor of a linked list is at one of its places, or nowhere.
LEMMA PlaceOfCursor ==
    ASSUME NEW l, NEW s, NEW k, Linked(l, s, k)
    PROVE  /\ At(l) \in 0 .. k
           /\ At(l) = 0 => l.cursor = NULL
           /\ At(l) # 0 => l.cursor = s[At(l)]
<1>1. CASE l.cursor = NULL
    BY <1>1, SeenAs DEF At
<1>2. CASE l.cursor # NULL
    <2>1. PICK i \in 1 .. k : l.cursor = s[i]
        BY <1>2, Zenon DEF Linked
    <2>2. At(l) = i /\ k \in Nat
        BY <2>1, SeenAs DEF At
    <2> QED
        BY <2>1, <2>2
<1> QED
    BY <1>1, <1>2

\* A list with k nodes, of which k + 1 would be possible.
LEMMA LengthIsBounded ==
    ASSUME NEW l, NEW s, NEW k, Linked(l, s, k)
    PROVE  k <= Cardinality(NodeId) /\ Cardinality(NodeId) \in Nat
<1>1. k \in Nat /\ s \in Injection(1 .. k, NodeId)
    BY DEF Linked, Injection, IsInjective
<1>2. Cardinality(1 .. k) = k
    BY <1>1, FS_Interval
<1> QED
    BY <1>1, <1>2, FS_Injection, FS_CardinalityType, ListAssumption

\* list_push appends its value to the values.
LEMMA PushedValues ==
    ASSUME NEW l, NEW s, NEW k, Linked(l, s, k), NodeId \ Allocated(l) # {}, NEW v \in Value,
           NEW m, m = list_push(l, v)
    PROVE  /\ \E t, h : Linked(m, t, h)
           /\ Values(m) = Append(Values(l), v)
           /\ At(m) = At(l)
           /\ k < Cardinality(NodeId)
<1> DEFINE n == FreshNode(l)
           t == [i \in 1 .. k + 1 |-> IF i = k + 1 THEN n ELSE s[i]]
<1>1. /\ Linked(m, t, k + 1)
      /\ m.node[n].value = v /\ m.cursor = l.cursor
      /\ \A i \in 1 .. k : m.node[s[i]].value = l.node[s[i]].value
    BY PushLinks
<1>2. k \in Nat /\ t[k + 1] = n /\ \A i \in 1 .. k : t[i] = s[i]
    BY DEF Linked
<1> HIDE DEF t, n
<1>3. /\ Values(m) \in Seq(Value) /\ Len(Values(m)) = k + 1
      /\ \A i \in 1 .. k + 1 : Values(m)[i] = m.node[t[i]].value /\ Index(m, t[i]) = i
      /\ Index(m, NULL) = 0
    BY <1>1, SeenAs
<1>4. /\ Values(l) \in Seq(Value) /\ Len(Values(l)) = k
      /\ \A i \in 1 .. k : Values(l)[i] = l.node[s[i]].value
    BY SeenAs
<1>5. Values(m) = Append(Values(l), v)
    <2>1. \A i \in 1 .. k : i \in 1 .. k + 1 /\ Values(m)[i] = Values(l)[i]
        BY <1>1, <1>2, <1>3, <1>4
    <2>2. Values(m)[k + 1] = v /\ k + 1 \in 1 .. k + 1
        BY <1>1, <1>2, <1>3
    <2>3. /\ Append(Values(l), v) \in Seq(Value) /\ Len(Append(Values(l), v)) = k + 1
          /\ \A i \in 1 .. k : Append(Values(l), v)[i] = Values(l)[i]
          /\ Append(Values(l), v)[k + 1] = v
        BY <1>4, AppendProperties
    <2>4. \A i \in 1 .. k + 1 : i \in 1 .. k \/ i = k + 1
        BY <1>2
    <2> QED
        BY <1>3, <2>1, <2>2, <2>3, <2>4, SeqEqual
<1>6. At(m) = At(l)
    <2>1. At(l) \in 0 .. k /\ (At(l) = 0 => l.cursor = NULL) /\ (At(l) # 0 => l.cursor = s[At(l)])
        BY PlaceOfCursor
    <2> QED
        BY <2>1, <1>1, <1>2, <1>3 DEF At
<1>7. k < Cardinality(NodeId)
    <2>1. k + 1 <= Cardinality(NodeId) /\ Cardinality(NodeId) \in Nat
        BY <1>1, LengthIsBounded
    <2> QED
        BY <1>2, <2>1
<1> QED
    BY <1>1, <1>5, <1>6, <1>7

\* list_unshift puts its value before the values, and the cursor a place on.
LEMMA UnshiftedValues ==
    ASSUME NEW l, NEW s, NEW k, Linked(l, s, k), NodeId \ Allocated(l) # {}, NEW v \in Value,
           NEW m, m = list_unshift(l, v)
    PROVE  /\ \E t, h : Linked(m, t, h)
           /\ Values(m) = <<v>> \o Values(l)
           /\ At(m) = IF At(l) = 0 THEN 0 ELSE At(l) + 1
           /\ k < Cardinality(NodeId)
<1> DEFINE n == FreshNode(l)
           t == [i \in 1 .. k + 1 |-> IF i = 1 THEN n ELSE s[i - 1]]
<1>1. /\ Linked(m, t, k + 1)
      /\ m.node[n].value = v /\ m.cursor = l.cursor
      /\ \A i \in 1 .. k : m.node[s[i]].value = l.node[s[i]].value
    BY UnshiftLinks
<1>2. k \in Nat /\ t[1] = n /\ \A i \in 1 .. k : t[i + 1] = s[i]
    <2>1. k \in Nat
        BY DEF Linked
    <2>2. \A i \in 1 .. k : i + 1 \in 1 .. k + 1 /\ i + 1 # 1 /\ (i + 1) - 1 = i
        BY <2>1
    <2> QED BY <2>1, <2>2
<1> HIDE DEF t, n
<1>3. /\ Values(m) \in Seq(Value) /\ Len(Values(m)) = k + 1
      /\ \A i \in 1 .. k + 1 : Values(m)[i] = m.node[t[i]].value /\ Index(m, t[i]) = i
      /\ Index(m, NULL) = 0
    BY <1>1, SeenAs
<1>4. /\ Values(l) \in Seq(Value) /\ Len(Values(l)) = k
      /\ \A i \in 1 .. k : Values(l)[i] = l.node[s[i]].value
    BY SeenAs
<1>5. Values(m) = <<v>> \o Values(l)
    <2>1. \A i \in 1 .. k : i + 1 \in 1 .. k + 1 /\ Values(m)[i + 1] = Values(l)[i]
        BY <1>1, <1>2, <1>3, <1>4, SMTT(30)
    <2>2. Values(m)[1] = v
        BY <1>1, <1>2, <1>3
    <2>3. <<v>> \in Seq(Value) /\ Len(<<v>>) = 1 /\ <<v>>[1] = v
        OBVIOUS
    <2>4. /\ <<v>> \o Values(l) \in Seq(Value) /\ Len(<<v>> \o Values(l)) = k + 1
          /\ \A i \in 1 .. k + 1 : (<<v>> \o Values(l))[i] = IF i <= 1 THEN v ELSE Values(l)[i - 1]
        BY <1>2, <1>4, <2>3, ConcatProperties
    <2>5. \A i \in 1 .. k + 1 : Values(m)[i] = IF i <= 1 THEN v ELSE Values(l)[i - 1]
        <3> TAKE i \in 1 .. k + 1
        <3>1. i = 1 \/ (~(i <= 1) /\ i - 1 \in 1 .. k /\ (i - 1) + 1 = i)
            BY <1>2
        <3> QED
            BY <2>1, <2>2, <3>1
    <2> QED
        BY <1>3, <2>4, <2>5, SeqEqual
<1>6. At(m) = IF At(l) = 0 THEN 0 ELSE At(l) + 1
    <2>1. At(l) \in 0 .. k /\ (At(l) = 0 => l.cursor = NULL) /\ (At(l) # 0 => l.cursor = s[At(l)])
        BY PlaceOfCursor
    <2> QED
        BY <2>1, <1>1, <1>2, <1>3 DEF At
<1>7. k < Cardinality(NodeId)
    <2>1. k + 1 <= Cardinality(NodeId) /\ Cardinality(NodeId) \in Nat
        BY <1>1, LengthIsBounded
    <2> QED
        BY <1>2, <2>1
<1> QED
    BY <1>1, <1>5, <1>6, <1>7

\* list_unlink removes the value at its place.
LEMMA UnlinkedValues ==
    ASSUME NEW l, NEW s, NEW k, Linked(l, s, k), NEW p \in 1 .. k,
           NEW m, m = Unlink(l, s[p])
    PROVE  /\ \E t, h : Linked(m, t, h)
           /\ Values(m) \in Seq(Value) /\ Len(Values(m)) = k - 1
           /\ \A i \in 1 .. k - 1 : Values(m)[i] = IF i < p THEN Values(l)[i] ELSE Values(l)[i + 1]
           /\ At(m) = IF At(l) = p THEN 0 ELSE IF At(l) > p THEN At(l) - 1 ELSE At(l)
<1> DEFINE t == Without(s, k, p)
<1>1. /\ Linked(m, t, k - 1)
      /\ m.cursor = IF l.cursor = s[p] THEN NULL ELSE l.cursor
      /\ \A i \in 1 .. k : i # p => m.node[s[i]].value = l.node[s[i]].value
    BY UnlinkLinks
<1>2. k \in Nat /\ \A i \in 1 .. k - 1 : t[i] = IF i < p THEN s[i] ELSE s[i + 1]
    BY DEF Linked, Without
<1> HIDE DEF t
<1>3. /\ Values(m) \in Seq(Value) /\ Len(Values(m)) = k - 1
      /\ \A i \in 1 .. k - 1 : Values(m)[i] = m.node[t[i]].value /\ Index(m, t[i]) = i
      /\ Index(m, NULL) = 0
    BY <1>1, SeenAs
<1>4. \A i \in 1 .. k : Values(l)[i] = l.node[s[i]].value
    BY SeenAs
<1>5. ASSUME NEW i \in 1 .. k - 1
      PROVE  Values(m)[i] = IF i < p THEN Values(l)[i] ELSE Values(l)[i + 1]
    <2>1. CASE i < p
        <3>1. i \in 1 .. k /\ i # p
            BY <1>2, <2>1
        <3> QED
            BY <2>1, <3>1, <1>1, <1>2, <1>3, <1>4
    <2>2. CASE ~(i < p)
        <3>1. i + 1 \in 1 .. k /\ i + 1 # p
            BY <1>2, <2>2
        <3>2. Values(m)[i] = m.node[s[i + 1]].value
            BY <2>2, <1>2, <1>3
        <3>3. m.node[s[i + 1]].value = Values(l)[i + 1]
            BY <3>1, <1>1, <1>4
        <3> QED
            BY <2>2, <3>2, <3>3
    <2> QED BY <2>1, <2>2
<1>6. At(m) = IF At(l) = p THEN 0 ELSE IF At(l) > p THEN At(l) - 1 ELSE At(l)
    <2>1. At(l) \in 0 .. k /\ (At(l) = 0 => l.cursor = NULL) /\ (At(l) # 0 => l.cursor = s[At(l)])
        BY PlaceOfCursor
    <2>2. \A i, j \in 1 .. k : s[i] = s[j] => i = j
        BY DEF Linked
    <2>3. NULL # s[p]
        BY ListAssumption DEF NULL, Linked
    <2>4. l.cursor = s[p] <=> At(l) = p
        BY <2>1, <2>2, <2>3, <1>2
    <2>5. CASE At(l) = p
        BY <2>4, <2>5, <1>1, <1>3 DEF At
    <2>6. CASE At(l) = 0
        BY <2>1, <2>3, <2>6, <1>1, <1>3 DEF At
    <2>7. CASE At(l) \in 1 .. k /\ At(l) < p
        <3>1. At(l) \in 1 .. k - 1 /\ t[At(l)] = s[At(l)]
            BY <1>2, <2>7
        <3>2. m.cursor = t[At(l)]
            BY <2>1, <2>4, <2>7, <1>1, <3>1
        <3> QED
            BY <2>7, <3>1, <3>2, <1>3 DEF At
    <2>8. CASE At(l) \in 1 .. k /\ At(l) > p
        <3>1. At(l) - 1 \in 1 .. k - 1 /\ t[At(l) - 1] = s[At(l)]
            BY <1>2, <2>8
        <3>2. m.cursor = t[At(l) - 1]
            BY <2>1, <2>4, <2>8, <1>1, <3>1
        <3> QED
            BY <2>8, <3>1, <3>2, <1>3 DEF At
    <2> QED
        BY <2>1, <2>5, <2>6, <2>7, <2>8
<1> QED
    BY <1>1, <1>3, <1>5, <1>6

\* The cursor is moved to the node at place i, or to none.
LEMMA MovedCursor ==
    ASSUME NEW l, NEW s, NEW k, Linked(l, s, k), NEW c,
           NEW i \in 0 .. k, c = IF i = 0 THEN NULL ELSE s[i],
           NEW m, m = [l EXCEPT !.cursor = c]
    PROVE  /\ Linked(m, s, k)
           /\ Values(m) = Values(l)
           /\ At(m) = i
           /\ list_current(m) = IF i = 0 THEN "NULL" ELSE Values(l)[i]
<1>1. l \in ListRecord /\ k \in Nat /\ s \in [1 .. k -> NodeId]
    BY DEF Linked
<1>2. c \in NodeId \cup {NULL}
    BY <1>1
<1>3. /\ m \in ListRecord /\ m.cursor = c /\ m.node = l.node /\ m.length = l.length
      /\ m.first = l.first /\ m.last = l.last
    BY <1>1, <1>2 DEF ListRecord
<1>4. m.cursor # NULL => \E j \in 1 .. k : m.cursor = s[j]
    BY <1>1, <1>3
<1>5. Linked(m, s, k)
    BY <1>3, <1>4 DEF Linked
<1>6. Values(m) = Values(l)
    <2>1. Values(m) = ValuesOf(m, s, k) /\ Values(l) = ValuesOf(l, s, k)
        BY <1>5, SeenAs, Zenon
    <2> QED
        BY <1>3, <2>1 DEF ValuesOf
<1>7. At(m) = i
    BY <1>1, <1>3, <1>5, SeenAs DEF At
<1>8. list_current(m) = IF i = 0 THEN "NULL" ELSE Values(l)[i]
    <2>1. CASE i = 0
        BY <2>1, <1>3 DEF list_current, ValueAt
    <2>2. CASE i # 0
        <3>1. i \in 1 .. k /\ s[i] # NULL
            BY <1>1, <2>2, ListAssumption DEF NULL
        <3> QED
            BY <2>2, <3>1, <1>3, SeenAs DEF list_current, ValueAt
    <2> QED BY <2>1, <2>2
<1> QED
    BY <1>5, <1>6, <1>7, <1>8

\* The first place where v is.
LEMMA FirstPlaceOf ==
    ASSUME NEW l, NEW s, NEW k, Linked(l, s, k), NEW v
    PROVE  /\ Places(l, v) = {i \in 1 .. k : Values(l)[i] = v}
           /\ list_has(l, v) => /\ FirstPlace(l, v) \in 1 .. k
                                /\ Values(l)[FirstPlace(l, v)] = v
                                /\ Nodes(l)[FirstPlace(l, v)] = s[FirstPlace(l, v)]
           /\ list_has(l, v) \in BOOLEAN
<1>1. k \in Nat /\ Values(l) \in Seq(Value) /\ Len(Values(l)) = k /\ Nodes(l) = s
    BY SeenAs
<1>2. DOMAIN Values(l) = 1 .. k
    BY <1>1
<1>3. Places(l, v) = {i \in 1 .. k : Values(l)[i] = v}
    BY <1>2, Zenon DEF Places
<1>4. ASSUME list_has(l, v)
      PROVE  FirstPlace(l, v) \in Places(l, v)
    <2>1. Places(l, v) \subseteq Nat /\ Places(l, v) # {}
        BY <1>3, <1>4 DEF list_has
    <2> QED
        BY <2>1, LeastOf, Zenon DEF FirstPlace
<1> QED
    BY <1>1, <1>3, <1>4 DEF list_has

\* A new list holds no node.
LEMMA NewIsLinked == Linked(list_new, <<>>, 0)
<1>1. \A n \in NodeId : [m \in NodeId |-> FreeNode][n] = FreeNode
    OBVIOUS
<1>2. list_new \in ListRecord
    BY DEF list_new, ListRecord, NodeRecord, FreeNode
<1> QED
    BY <1>1, <1>2 DEF Linked, list_new

\* A list of k nodes has k nodes allocated.
LEMMA CountOfAllocated ==
    ASSUME NEW l, NEW s, NEW k, Linked(l, s, k)
    PROVE  /\ Allocated(l) = {s[i] : i \in 1 .. k}
           /\ IsFiniteSet(Allocated(l)) /\ Cardinality(Allocated(l)) = k
<1>1. Allocated(l) = {s[i] : i \in 1 .. k}
    BY DEF Linked, Allocated, FreeNode
<1> DEFINE T == {s[i] : i \in 1 .. k}
<1>2. k \in Nat /\ s \in Bijection(1 .. k, T)
    <2>1. k \in Nat /\ s \in [1 .. k -> T] /\ (\A i, j \in 1 .. k : s[i] = s[j] => i = j)
        BY DEF Linked
    <2>2. \A n \in T : \E i \in 1 .. k : s[i] = n
        OBVIOUS
    <2> HIDE DEF T
    <2>3. DOMAIN s = 1 .. k
        BY <2>1
    <2> QED
        BY <2>1, <2>2, <2>3, Zenon DEF Bijection, Injection, Surjection, IsInjective
<1>3. IsFiniteSet(1 .. k) /\ Cardinality(1 .. k) = k
    BY <1>2, FS_Interval
<1> QED
    <2> HIDE DEF T
    <2>1. ExistsBijection(1 .. k, T)
        BY <1>2, Zenon DEF ExistsBijection
    <2>2. IsFiniteSet(T) /\ Cardinality(T) = k
        BY <1>3, <2>1, FS_Bijection, Zenon
    <2> QED
        BY <1>1, <2>2 DEF T

-----------------------------------------------------------------------------
(* The calls.                                                               *)

\* The object's nodes are listed, in order, by some sequence.
IsLinked == \E s, k : Linked(object, s, k)

\* What a call promises: it keeps the list in order, and is the abstract call.
Promised == IsLinked' /\ Sequence!SeqNext

\* What a call leaves for the caller to see.
LEMMA CallIs ==
    ASSUME NEW op, NEW l, NEW answer, Call(op, l, answer)
    PROVE  /\ object' = l /\ reply' = <<op, answer>>
           /\ Values(object)' = Values(l) /\ Index(object, object.cursor)' = At(l)
BY DEF Call, At

\* list_push and list_unshift are the abstract inserts.
LEMMA InsertPromise == ASSUME IsLinked, Insert PROVE Promised
<1>1. PICK s, k : Linked(object, s, k)
    BY DEF IsLinked
<1>2. Index(object, object.cursor) = At(object)
    BY DEF At
<1>3. k \in Nat /\ Len(Values(object)) = k
    BY <1>1, SeenAs
<1>4. NodeId \ Allocated(object) # {}
    BY DEF Insert
<1>5. PICK v \in Value : \/ Call("list_push", list_push(object, v), "NULL")
                         \/ Call("list_unshift", list_unshift(object, v), "NULL")
    BY DEF Insert
<1>6. CASE Call("list_push", list_push(object, v), "NULL")
    <2>1. /\ \E t, h : Linked(list_push(object, v), t, h)
          /\ Values(list_push(object, v)) = Append(Values(object), v)
          /\ At(list_push(object, v)) = At(object)
          /\ k < Cardinality(NodeId)
        BY <1>1, <1>4, PushedValues
    <2>2. IsLinked'
        BY <1>6, <2>1, CallIs DEF IsLinked
    <2>3. At(object) \in 0 .. k
        BY <1>1, PlaceOfCursor
    <2>4. Sequence!Insert("list_push", Append(Values(object), v), 0)
        BY <1>2, <1>3, <1>6, <2>1, <2>3, CallIs DEF Sequence!Insert, Sequence!Nothing
    <2> QED
        BY <2>2, <2>4 DEF Promised, Sequence!SeqNext
<1>7. CASE Call("list_unshift", list_unshift(object, v), "NULL")
    <2>1. /\ \E t, h : Linked(list_unshift(object, v), t, h)
          /\ Values(list_unshift(object, v)) = <<v>> \o Values(object)
          /\ At(list_unshift(object, v)) = IF At(object) = 0 THEN 0 ELSE At(object) + 1
          /\ k < Cardinality(NodeId)
        BY <1>1, <1>4, UnshiftedValues
    <2>2. IsLinked'
        BY <1>7, <2>1, CallIs DEF IsLinked
    <2>4. Sequence!Insert("list_unshift", <<v>> \o Values(object), 1)
        BY <1>2, <1>3, <1>7, <2>1, CallIs DEF Sequence!Insert, Sequence!Nothing
    <2> QED
        BY <2>2, <2>4 DEF Promised, Sequence!SeqNext
<1> QED
    BY <1>5, <1>6, <1>7

\* A call that takes the node at place p out of the list.
LEMMA TakePromise ==
    ASSUME NEW s, NEW k, Linked(object, s, k), NEW p \in 1 .. k,
           NEW op, NEW answer, Call(op, Unlink(object, s[p]), answer)
    PROVE  IsLinked' /\ Sequence!Take(op, p, answer)
<1> DEFINE m == Unlink(object, s[p])
<1>1. /\ \E t, h : Linked(m, t, h)
      /\ Values(m) \in Seq(Value) /\ Len(Values(m)) = k - 1
      /\ \A i \in 1 .. k - 1 : Values(m)[i] = IF i < p THEN Values(object)[i]
                                              ELSE Values(object)[i + 1]
      /\ At(m) = IF At(object) = p THEN 0 ELSE IF At(object) > p THEN At(object) - 1 ELSE At(object)
    BY UnlinkedValues
<1>2. k \in Nat /\ Len(Values(object)) = k /\ Values(object) \in Seq(Value)
      /\ DOMAIN Values(object) = 1 .. k
    BY SeenAs
<1> HIDE DEF m
<1>3. Values(m) = Sequence!RemoveAt(Values(object), p)
    <2> DEFINE V == Values(object)
               A == SubSeq(V, 1, p - 1)
               B == SubSeq(V, p + 1, Len(V))
    <2>1. \A i \in 1 .. k : V[i] \in Value
        BY <1>2
    <2> HIDE DEF V
    <2>2. A \in Seq(Value) /\ Len(A) = p - 1 /\ \A i \in 1 .. p - 1 : A[i] = V[i]
        BY <2>1, <1>2, SubSeqProperties
    <2>3. B \in Seq(Value) /\ Len(B) = k - p /\ \A i \in 1 .. k - p : B[i] = V[p + i]
        BY <2>1, <1>2, SubSeqProperties DEF V
    <2> HIDE DEF A, B
    <2>4. /\ A \o B \in Seq(Value) /\ Len(A \o B) = k - 1
          /\ \A i \in 1 .. k - 1 : (A \o B)[i] = IF i <= p - 1 THEN A[i] ELSE B[i - (p - 1)]
        <3>1. Len(A) + Len(B) = k - 1
            BY <2>2, <2>3, <1>2
        <3>2. /\ A \o B \in Seq(Value) /\ Len(A \o B) = Len(A) + Len(B)
              /\ \A i \in 1 .. Len(A) + Len(B) :
                    (A \o B)[i] = IF i <= Len(A) THEN A[i] ELSE B[i - Len(A)]
            BY <2>2, <2>3, ConcatProperties, Zenon
        <3>3. Len(A) = p - 1
            BY <2>2
        <3> QED
            BY <3>1, <3>2, <3>3, Zenon
    <2>5. ASSUME NEW i \in 1 .. k - 1
          PROVE  (A \o B)[i] = Values(m)[i]
        <3>1. CASE i < p
            <4>1. i \in 1 .. p - 1 /\ i <= p - 1
                BY <3>1, <1>2
            <4>2. (A \o B)[i] = A[i]
                BY <4>1, <2>4
            <4>3. A[i] = V[i]
                BY <4>1, <2>2
            <4>4. Values(m)[i] = V[i]
                BY <3>1, <1>1 DEF V
            <4> QED
                BY <4>2, <4>3, <4>4
        <3>2. CASE i >= p
            <4>1. i - (p - 1) \in 1 .. k - p /\ p + (i - (p - 1)) = i + 1 /\ ~(i <= p - 1) /\ ~(i < p)
                BY <3>2, <1>2
            <4>2. (A \o B)[i] = B[i - (p - 1)]
                BY <4>1, <2>4
            <4>3. B[i - (p - 1)] = V[i + 1]
                BY <4>1, <2>3
            <4>4. Values(m)[i] = V[i + 1]
                BY <4>1, <1>1 DEF V
            <4> QED
                BY <4>2, <4>3, <4>4
        <3>3. i < p \/ i >= p
            BY <1>2
        <3> QED BY <3>1, <3>2, <3>3, Zenon
    <2>6. Values(m) = A \o B
        BY <1>1, <2>4, <2>5, SeqEqual
    <2> QED
        BY <2>6 DEF Sequence!RemoveAt, A, B, V
<1>4. object' = m /\ reply' = <<op, answer>>
      /\ Values(object)' = Values(m) /\ Index(object, object.cursor)' = At(m)
    BY CallIs DEF m
<1>5. IsLinked'
    BY <1>1, <1>4 DEF IsLinked
<1>6. Index(object, object.cursor) = At(object)
    BY DEF At
<1> QED
    BY <1>1, <1>2, <1>3, <1>4, <1>5, <1>6 DEF Sequence!Take

\* A call that moves the cursor.
LEMMA MovePromise ==
    ASSUME NEW s, NEW k, Linked(object, s, k), NEW i \in 0 .. k, NEW c,
           c = IF i = 0 THEN NULL ELSE s[i],
           NEW op, NEW answer, Call(op, [object EXCEPT !.cursor = c], answer)
    PROVE  /\ IsLinked'
           /\ Values(object)' = Values(object) /\ Index(object, object.cursor)' = i
           /\ reply' = <<op, answer>>
           /\ answer = Sequence!At(Values(object), i) => Sequence!Move(op, i)
           /\ list_current([object EXCEPT !.cursor = c]) = Sequence!At(Values(object), i)
<1> DEFINE m == [object EXCEPT !.cursor = c]
<1>1. /\ Linked(m, s, k) /\ Values(m) = Values(object) /\ At(m) = i
      /\ list_current(m) = IF i = 0 THEN "NULL" ELSE Values(object)[i]
    BY MovedCursor
<1> HIDE DEF m
<1>2. object' = m /\ reply' = <<op, answer>>
      /\ Values(object)' = Values(m) /\ Index(object, object.cursor)' = At(m)
    BY CallIs DEF m
<1>3. IsLinked'
    BY <1>1, <1>2 DEF IsLinked
<1>4. DOMAIN Values(object) = 1 .. k /\ k \in Nat
    BY SeenAs
<1>5. Sequence!At(Values(object), i) = IF i = 0 THEN "NULL" ELSE Values(object)[i]
    BY <1>4 DEF Sequence!At, Sequence!Nothing
<1> QED
    BY <1>1, <1>2, <1>3, <1>5 DEF Sequence!Move, m

\* A call that changes nothing.
LEMMA AskPromise ==
    ASSUME IsLinked, NEW op, NEW answer, Call(op, object, answer)
    PROVE  IsLinked' /\ Sequence!Ask(op, answer)
<1>1. object' = object
    BY DEF Call
<1> QED
    BY <1>1, CallIs DEF IsLinked, At, Sequence!Ask

\* list_pop and list_shift are the abstract removals at the ends.
LEMMA TakeEndPromise == ASSUME IsLinked, TakeEnd PROVE Promised
<1>1. PICK s, k : Linked(object, s, k)
    BY DEF IsLinked
<1>2. /\ k \in Nat /\ Len(Values(object)) = k /\ Values(object) \in Seq(Value)
      /\ \A i \in 1 .. k : Values(object)[i] = object.node[s[i]].value
    BY <1>1, SeenAs
<1>3. Index(object, object.cursor) = At(object)
    BY DEF At
<1>4. s \in [1 .. k -> NodeId] /\ object.first = (IF k = 0 THEN NULL ELSE s[1])
      /\ object.last = (IF k = 0 THEN NULL ELSE s[k])
    BY <1>1 DEF Linked
<1>5. CASE k = 0
    <2>1. Values(object) = <<>> /\ object.first = NULL /\ object.last = NULL /\ object.cursor = NULL
        BY <1>1, <1>2, <1>4, <1>5 DEF Linked
    <2>2. object = [object EXCEPT !.cursor = NULL]
        BY <1>1, <2>1 DEF Linked, ListRecord
    <2>3. \/ Call("list_pop", object, "NULL")
          \/ Call("list_shift", object, "NULL")
        BY <2>1, <2>2 DEF TakeEnd, list_pop, list_shift, ValueAt
    <2>4. IsLinked' /\ (Sequence!Ask("list_pop", "NULL") \/ Sequence!Ask("list_shift", "NULL"))
        BY <2>3, AskPromise
    <2> QED
        BY <2>1, <2>4 DEF Promised, Sequence!SeqNext, Sequence!Nothing
<1>6. CASE k # 0
    <2>1. /\ Values(object) # <<>> /\ 1 \in 1 .. k /\ k \in 1 .. k
          /\ object.first = s[1] /\ object.last = s[k]
        BY <1>2, <1>4, <1>6
    <2>2. object.first # NULL /\ object.last # NULL
        BY <1>4, <2>1, ListAssumption DEF NULL
    <2>3. \/ Call("list_pop", Unlink(object, s[k]), Values(object)[k])
          \/ Call("list_shift", Unlink(object, s[1]), Values(object)[1])
        BY <1>2, <2>1, <2>2, Zenon DEF TakeEnd, list_pop, list_shift, ValueAt
    <2>4. Values(object)[k] = Sequence!Last(Values(object)) /\ Values(object)[1] = Head(Values(object))
        BY <1>2, <2>1 DEF Sequence!Last
    <2>5. IsLinked' /\ \/ Sequence!Take("list_pop", k, Values(object)[k])
                       \/ Sequence!Take("list_shift", 1, Values(object)[1])
        BY <1>1, <2>1, <2>3, TakePromise
    <2> QED
        BY <1>2, <2>1, <2>4, <2>5 DEF Promised, Sequence!SeqNext
<1> QED
    BY <1>5, <1>6

\* list_remove, list_find and list_has are the abstract searches.
LEMMA SearchPromise == ASSUME IsLinked, Search PROVE Promised
<1>1. PICK s, k : Linked(object, s, k)
    BY DEF IsLinked
<1>2. /\ k \in Nat /\ Len(Values(object)) = k /\ DOMAIN Values(object) = 1 .. k
    BY <1>1, SeenAs
<1>3. PICK v \in Value :
        \/ Call("list_remove", list_remove(object, v), list_has(object, v))
        \/ Call("list_find", list_find(object, v), IF list_has(object, v) THEN v ELSE "NULL")
        \/ Call("list_has", object, list_has(object, v))
    BY DEF Search
<1>4. /\ Places(object, v) = {i \in 1 .. k : Values(object)[i] = v}
      /\ list_has(object, v) => /\ FirstPlace(object, v) \in 1 .. k
                              /\ Values(object)[FirstPlace(object, v)] = v
                              /\ Nodes(object)[FirstPlace(object, v)] = s[FirstPlace(object, v)]
      /\ list_has(object, v) \in BOOLEAN
    BY <1>1, FirstPlaceOf
<1>5. Sequence!Where(v) = Places(object, v) /\ Sequence!First(v) = FirstPlace(object, v)
    BY Zenon DEF Sequence!Where, Sequence!First, Places, FirstPlace
<1>6. list_has(object, v) <=> Sequence!Where(v) # {}
    BY <1>5 DEF list_has
<1> DEFINE p == FirstPlace(object, v)
<1> HIDE DEF p
<1>7. CASE Call("list_remove", list_remove(object, v), list_has(object, v))
    <2>1. CASE list_has(object, v)
        <3>1. Call("list_remove", Unlink(object, s[p]), TRUE)
            BY <1>4, <1>7, <2>1 DEF list_remove, p
        <3>2. IsLinked' /\ Sequence!Take("list_remove", p, TRUE)
            BY <1>1, <1>4, <2>1, <3>1, TakePromise DEF p
        <3> QED
            BY <1>5, <1>6, <2>1, <3>2, Zenon DEF Promised, Sequence!SeqNext, p
    <2>2. CASE ~list_has(object, v)
        <3>1. Call("list_remove", object, FALSE)
            BY <1>4, <1>7, <2>2 DEF list_remove
        <3>2. IsLinked' /\ Sequence!Ask("list_remove", FALSE)
            BY <3>1, AskPromise
        <3> QED
            BY <1>6, <2>2, <3>2, Zenon DEF Promised, Sequence!SeqNext
    <2> QED BY <2>1, <2>2
<1>8. CASE Call("list_find", list_find(object, v), IF list_has(object, v) THEN v ELSE "NULL")
    <2>1. CASE list_has(object, v)
        <3>1. Call("list_find", [object EXCEPT !.cursor = s[p]], v) /\ p \in 1 .. k
            BY <1>4, <1>8, <2>1 DEF list_find, p
        <3>2. v = Sequence!At(Values(object), p)
            BY <1>2, <1>4, <2>1 DEF Sequence!At, p
        <3>3. IsLinked' /\ Sequence!Move("list_find", p)
            <4>1. p \in 0 .. k /\ p # 0
                BY <1>2, <3>1
            <4> QED
                BY <1>1, <3>1, <3>2, <4>1, MovePromise
        <3> QED
            BY <1>5, <1>6, <2>1, <3>3, Zenon DEF Promised, Sequence!SeqNext, p
    <2>2. CASE ~list_has(object, v)
        <3> DEFINE i == IF k = 0 THEN 0 ELSE 1
        <3>1. Call("list_find", [object EXCEPT !.cursor = object.first], "NULL")
            BY <1>8, <2>2 DEF list_find
        <3>2. object.first = (IF i = 0 THEN NULL ELSE s[i]) /\ i \in 0 .. k
            BY <1>1, <1>2 DEF Linked
        <3>3. IsLinked' /\ Values(object)' = Values(object) /\ Index(object, object.cursor)' = i
              /\ reply' = <<"list_find", "NULL">>
            <4> HIDE DEF i
            <4> QED
                BY <1>1, <3>1, <3>2, MovePromise
        <3>4. i = IF Values(object) = <<>> THEN 0 ELSE 1
            BY <1>2
        <3> QED
            BY <1>6, <2>2, <3>3, <3>4 DEF Promised, Sequence!SeqNext, Sequence!Nothing
    <2> QED BY <2>1, <2>2
<1>9. CASE Call("list_has", object, list_has(object, v))
    <2>1. IsLinked' /\ Sequence!Ask("list_has", list_has(object, v))
        BY <1>9, AskPromise
    <2>2. list_has(object, v) = (Sequence!Where(v) # {})
        BY <1>4, <1>6
    <2> QED
        BY <2>1, <2>2 DEF Promised, Sequence!SeqNext
<1> QED
    BY <1>3, <1>7, <1>8, <1>9

\* The words that move the cursor, and list_copy, are the abstract walks.
LEMMA WalkPromise == ASSUME IsLinked, Walk PROVE Promised
<1>1. PICK s, k : Linked(object, s, k)
    BY DEF IsLinked
<1>2. /\ k \in Nat /\ Len(Values(object)) = k /\ Values(object) \in Seq(Value)
    BY <1>1, SeenAs
<1>3. Index(object, object.cursor) = At(object)
    BY DEF At
<1>4. /\ At(object) \in 0 .. k
      /\ At(object) = 0 => object.cursor = NULL
      /\ At(object) # 0 => object.cursor = s[At(object)]
    BY <1>1, PlaceOfCursor
<1>5. /\ \A i \in 1 .. k : s[i] # NULL
      /\ \A i \in 1 .. k : /\ object.node[s[i]].next = IF i = k THEN NULL ELSE s[i + 1]
                           /\ object.node[s[i]].prev = IF i = 1 THEN NULL ELSE s[i - 1]
      /\ object.first = IF k = 0 THEN NULL ELSE s[1]
      /\ object.last = IF k = 0 THEN NULL ELSE s[k]
    BY <1>1, ListAssumption DEF Linked, NULL
<1> DEFINE Moves(op, m) == Call(op, m, list_current(m))
<1>6. ASSUME NEW i \in 0 .. k, NEW c, c = (IF i = 0 THEN NULL ELSE s[i]), NEW op,
             Moves(op, [object EXCEPT !.cursor = c])
      PROVE  IsLinked' /\ Sequence!Move(op, i)
    <2> DEFINE m == [object EXCEPT !.cursor = c]
    <2>1. Call(op, m, list_current(m))
        BY <1>6
    <2>2. list_current(m) = Sequence!At(Values(object), i)
        BY <1>1, <1>6, <2>1, MovePromise
    <2> QED
        BY <1>1, <1>6, <2>1, <2>2, MovePromise
<1>7. CASE Moves("list_first", list_first(object))
    <2> DEFINE i == IF k = 0 THEN 0 ELSE 1
    <2>1. i \in 0 .. k /\ object.first = IF i = 0 THEN NULL ELSE s[i]
        BY <1>2, <1>5
    <2> HIDE DEF i
    <2>2. IsLinked' /\ Sequence!Move("list_first", i)
        BY <1>6, <1>7, <2>1 DEF list_first
    <2>3. i = IF Values(object) = <<>> THEN 0 ELSE 1
        BY <1>2 DEF i
    <2> QED
        BY <2>2, <2>3 DEF Promised, Sequence!SeqNext
<1>8. CASE Moves("list_last", list_last(object))
    <2>1. k \in 0 .. k /\ object.last = IF k = 0 THEN NULL ELSE s[k]
        BY <1>2, <1>5
    <2>2. IsLinked' /\ Sequence!Move("list_last", k)
        BY <1>6, <1>8, <2>1 DEF list_last
    <2> QED
        BY <1>2, <2>2 DEF Promised, Sequence!SeqNext
<1>9. CASE Moves("list_next", list_next(object))
    <2> DEFINE i == (At(object) + 1) % (k + 1)
               c == IF object.cursor = NULL THEN object.first ELSE object.node[object.cursor].next
    <2>1. i = IF At(object) = k THEN 0 ELSE At(object) + 1
        BY <1>2, <1>4
    <2>2. i \in 0 .. k /\ c = IF i = 0 THEN NULL ELSE s[i]
        <3>1. CASE At(object) = 0
            BY <1>2, <1>4, <1>5, <2>1, <3>1
        <3>2. CASE At(object) # 0
            <4>1. At(object) \in 1 .. k
                BY <1>4, <3>2
            <4>2. c = IF At(object) = k THEN NULL ELSE s[At(object) + 1]
                BY <1>4, <1>5, <3>2, <4>1
            <4>3. i # 0 <=> At(object) # k
                BY <1>2, <2>1, <4>1
            <4> HIDE DEF c, i
            <4> QED
                BY <1>2, <2>1, <4>1, <4>2, <4>3
        <3> QED BY <3>1, <3>2
    <2>3. list_next(object) = [object EXCEPT !.cursor = c]
        BY <1>1 DEF list_next, Linked, ListRecord
    <2> HIDE DEF c, i
    <2>4. IsLinked' /\ Sequence!Move("list_next", i)
        BY <1>6, <1>9, <2>2, <2>3
    <2> QED
        BY <1>2, <1>3, <2>4 DEF Promised, Sequence!SeqNext, i
<1>10. CASE Moves("list_prev", list_prev(object))
    <2> DEFINE i == IF At(object) = 0 THEN k ELSE At(object) - 1
               c == IF object.cursor = NULL THEN object.last ELSE object.node[object.cursor].prev
    <2>2. i \in 0 .. k /\ c = IF i = 0 THEN NULL ELSE s[i]
        <3>1. CASE At(object) = 0
            BY <1>2, <1>4, <1>5, <3>1
        <3>2. CASE At(object) # 0
            <4>1. At(object) \in 1 .. k
                BY <1>4, <3>2
            <4> QED
            BY <1>2, <1>4, <1>5, <3>2, <4>1
        <3> QED BY <3>1, <3>2
    <2>3. list_prev(object) = [object EXCEPT !.cursor = c]
        BY <1>1 DEF list_prev, Linked, ListRecord
    <2> HIDE DEF c, i
    <2>4. IsLinked' /\ Sequence!Move("list_prev", i)
        BY <1>6, <1>10, <2>2, <2>3
    <2> QED
        BY <1>2, <1>3, <2>4 DEF Promised, Sequence!SeqNext, i
<1>11. CASE Call("list_copy", list_copy(object), Values(object))
    <2>1. 0 \in 0 .. k /\ NULL = IF 0 = 0 THEN NULL ELSE s[0]
        BY <1>2
    <2>2. /\ IsLinked'
          /\ Values(object)' = Values(object) /\ Index(object, object.cursor)' = 0
          /\ reply' = <<"list_copy", Values(object)>>
        BY <1>1, <1>11, <2>1, MovePromise DEF list_copy
    <2> QED
        BY <2>2 DEF Promised, Sequence!SeqNext
<1> QED
    BY <1>7, <1>8, <1>9, <1>10, <1>11 DEF Walk

\* list_get, the words that only ask, and list_purge keep the promise.
LEMMA RestPromise == ASSUME IsLinked, Ask \/ Purge PROVE Promised
<1>1. PICK s, k : Linked(object, s, k)
    BY DEF IsLinked
<1>2. /\ k \in Nat /\ Len(Values(object)) = k /\ DOMAIN Values(object) = 1 .. k
    BY <1>1, SeenAs
<1>3. Index(object, object.cursor) = At(object)
    BY DEF At
<1>4. Cardinality(NodeId) \in Nat
    BY <1>1, LengthIsBounded
<1>5. ASSUME NEW i \in 0 .. Cardinality(NodeId) - 1, Call("list_get", object, list_get(object, i))
      PROVE  Promised
    <2>1. i + 1 \in 1 .. Cardinality(NodeId)
        BY <1>4
    <2>2. list_get(object, i) = Sequence!At(Values(object), i + 1)
        BY Zenon DEF list_get, Sequence!At, Sequence!Nothing
    <2>3. IsLinked' /\ Sequence!Ask("list_get", list_get(object, i))
        BY <1>5, AskPromise
    <2> QED
        BY <2>1, <2>2, <2>3, Zenon DEF Promised, Sequence!SeqNext
<1>6. CASE Call("list_length", object, object.length)
    <2>1. object.length = Len(Values(object))
        BY <1>1, <1>2 DEF Linked
    <2>2. IsLinked' /\ Sequence!Ask("list_length", object.length)
        BY <1>6, AskPromise
    <2> QED
        BY <2>1, <2>2, Zenon DEF Promised, Sequence!SeqNext
<1>7. CASE Call("list_cursor_is_end", object, object.cursor = object.last)
    <2>1. /\ At(object) \in 0 .. k
          /\ At(object) = 0 => object.cursor = NULL
          /\ At(object) # 0 => object.cursor = s[At(object)]
        BY <1>1, PlaceOfCursor
    <2>2. (object.cursor = object.last) = (At(object) = k)
        <3>1. /\ \A i, j \in 1 .. k : s[i] = s[j] => i = j
              /\ \A i \in 1 .. k : s[i] # NULL
              /\ object.last = IF k = 0 THEN NULL ELSE s[k]
            BY <1>1, ListAssumption DEF Linked, NULL
        <3> QED
            BY <1>2, <2>1, <3>1
    <2>3. IsLinked' /\ Sequence!Ask("list_cursor_is_end", object.cursor = object.last)
        BY <1>7, AskPromise
    <2> QED
        BY <1>2, <1>3, <2>2, <2>3 DEF Promised, Sequence!SeqNext
<1>8. CASE Call("list_purge", list_new, "NULL")
    <2>1. Linked(list_new, <<>>, 0)
        BY NewIsLinked
    <2>2. list_new.cursor = NULL
        BY DEF list_new
    <2>3. Len(Values(list_new)) = 0 /\ At(list_new) = 0 /\ Values(list_new) \in Seq(Value)
        BY <2>1, <2>2, SeenAs DEF At
    <2>4. IsLinked' /\ Values(object)' = <<>> /\ Index(object, object.cursor)' = 0
          /\ reply' = <<"list_purge", "NULL">>
        BY <1>8, <2>1, <2>3, CallIs DEF IsLinked
    <2> QED
        BY <2>4 DEF Promised, Sequence!SeqNext, Sequence!Nothing
<1> QED
    BY <1>5, <1>6, <1>7, <1>8 DEF Ask, Purge, list_purge

-----------------------------------------------------------------------------

\* A new list is the empty sequence.
LEMMA ListInitIsSequence == ListInit => IsLinked /\ Sequence!SeqInit
<1>1. list_new.cursor = NULL
    BY DEF list_new
<1>2. Len(Values(list_new)) = 0 /\ Index(list_new, NULL) = 0 /\ Values(list_new) \in Seq(Value)
    BY NewIsLinked, SeenAs
<1> QED
    BY <1>1, <1>2, NewIsLinked DEF ListInit, IsLinked, Sequence!SeqInit, Sequence!Nothing

\* Every call keeps the list linked and is a call of the abstract sequence.
LEMMA ListStep == IsLinked /\ [ListNext]_listVars => IsLinked' /\ [Sequence!SeqNext]_(Sequence!seqVars)
<1> SUFFICES ASSUME IsLinked, [ListNext]_listVars
             PROVE  IsLinked' /\ [Sequence!SeqNext]_(Sequence!seqVars)
    OBVIOUS
<1>1. CASE ListNext
    <2>1. Promised
        BY <1>1, InsertPromise, TakeEndPromise, SearchPromise, WalkPromise, RestPromise DEF ListNext
    <2> QED
        BY <2>1 DEF Promised
<1>2. CASE UNCHANGED listVars
    BY <1>2 DEF listVars, IsLinked, Sequence!seqVars
<1> QED
    BY <1>1, <1>2

\* A linked list has the fields that agree as WellFormed says.
LEMMA LinkedIsWellFormed == IsLinked => WellFormed
<1> SUFFICES ASSUME IsLinked PROVE WellFormed
    OBVIOUS
<1>1. PICK s, k : Linked(object, s, k)
    BY DEF IsLinked
<1>2. Nodes(object) = s /\ DOMAIN s = 1 .. k /\ Len(s) = k /\ k \in Nat
    BY <1>1, SeenAs
<1>3. ListTypeOK
    <2>1. object.length \in 0 .. Cardinality(NodeId)
        <3>1. object.length = k
            BY <1>1 DEF Linked
        <3> QED
            BY <1>1, <1>2, <3>1, LengthIsBounded
    <2> QED
        BY <1>1, <2>1 DEF ListTypeOK, Linked, ListRecord, NodeRecord
<1>4. Range(s) = Allocated(object)
    BY <1>1, <1>2, CountOfAllocated DEF Range
<1>5. IsInjective(s) /\ Len(s) = object.length
    BY <1>1, <1>2 DEF Linked, IsInjective
<1>6. object.last = IF s = <<>> THEN NULL ELSE s[Len(s)]
    <2>1. s = <<>> <=> k = 0
        BY <1>1, <1>2 DEF Linked
    <2> QED
        BY <1>1, <1>2, <2>1 DEF Linked
<1>7. \A i \in DOMAIN s : object.node[s[i]].prev = IF i = 1 THEN NULL ELSE s[i - 1]
    BY <1>1, <1>2 DEF Linked
<1>8. object.cursor \in Allocated(object) \cup {NULL}
    <2>1. Allocated(object) = {s[i] : i \in 1 .. k}
        BY <1>1, CountOfAllocated
    <2> QED
        BY <1>1, <2>1 DEF Linked
<1> QED
    BY <1>2, <1>3, <1>4, <1>5, <1>6, <1>7, <1>8 DEF WellFormed

\* Whatever the calls of list.c and their order, first, next, prev, last and
\* length describe one list: the allocated nodes, each once, in one order.
THEOREM ListIsAlwaysLinked == ListSpec => []IsLinked
BY ListInitIsSequence, ListStep, PTL DEF ListSpec

\* The fields the functions of list.c rely on agree after every call, for any
\* number of nodes and values: list_unlink's three cases (first, last, middle)
\* leave no dangling link and no cursor on a freed node.
THEOREM ListIsWellFormed == ListSpec => []WellFormed
BY ListIsAlwaysLinked, LinkedIsWellFormed, PTL

\* Every word of list.c changes the values and the cursor, and answers, as the
\* word on a plain sequence does (SequenceList).
THEOREM ListAnswersAsSequence == ListSpec => ListIsSequence
<1>1. ListInit => Sequence!SeqInit
    BY ListInitIsSequence
<1>2. IsLinked /\ [ListNext]_listVars => [Sequence!SeqNext]_(Sequence!seqVars)
    BY ListStep
<1> QED
    BY <1>1, <1>2, ListIsAlwaysLinked, PTL DEF ListSpec, ListIsSequence, Sequence!SeqSpec

-----------------------------------------------------------------------------
(* The deque: a list behind a lock.                                         *)

\* Where the threads can be.
Stages == {"out", "load", "exchange", "read", "write", "unlock"}

\* Every thread is at one of the steps.
PcOK == pc \in [Thread -> Stages] /\ DOMAIN seen = Thread

\* The lock is held exactly while somebody, one thread, is inside.
LockSaysWhoIsInside ==
    /\ atomic_is_locked \in BOOLEAN
    /\ atomic_is_locked => \E t \in Thread : Inside = {t}
    /\ ~atomic_is_locked => Inside = {}

\* A thread about to write the list has read the list as it still is.
WritersAreUpToDate == \A t \in Thread : pc[t] = "write" => seen[t] = list

IInv == PcOK /\ LockSaysWhoIsInside /\ WritersAreUpToDate

\* At first nobody is inside the critical section.
LEMMA InitIInv == Init => IInv
BY DEF Init, IInv, PcOK, Stages, LockSaysWhoIsInside, Inside, WritersAreUpToDate

\* Whoever is inside is there alone, and has locked.
LEMMA InsideIsAlone ==
    ASSUME IInv, NEW t \in Thread, t \in Inside
    PROVE  atomic_is_locked = TRUE /\ Inside = {t}
BY DEF IInv, LockSaysWhoIsInside

\* Every step of a thread keeps the lock's invariant.
LEMMA StepIInv == IInv /\ [Next]_vars => IInv'
<1> SUFFICES ASSUME IInv, [Next]_vars
             PROVE  IInv'
    OBVIOUS
<1>0. PcOK /\ LockSaysWhoIsInside /\ WritersAreUpToDate
    BY DEF IInv
<1>1. ASSUME NEW t \in Thread, Enter(t)
      PROVE  IInv'
    <2>1. /\ pc[t] = "out"
          /\ pc' = [pc EXCEPT ![t] = "load"]
          /\ UNCHANGED <<list, atomic_is_locked, seen>>
        BY <1>1 DEF Enter, Goto
    <2>2. PcOK'
        BY <1>0, <2>1 DEF PcOK, Stages
    <2>3. Inside' = Inside
        BY <1>0, <2>1 DEF PcOK, Inside
    <2> QED
        BY <1>0, <2>1, <2>2, <2>3 DEF IInv, PcOK, LockSaysWhoIsInside, WritersAreUpToDate
<1>2. ASSUME NEW t \in Thread, LoadLock(t)
      PROVE  IInv'
    <2>1. /\ pc[t] = "load"
          /\ \E p \in {"load", "exchange"} : pc' = [pc EXCEPT ![t] = p]
          /\ UNCHANGED <<list, atomic_is_locked, seen>>
        BY <1>2 DEF LoadLock, Goto
    <2>2. PcOK'
        BY <1>0, <2>1 DEF PcOK, Stages
    <2>3. Inside' = Inside
        BY <1>0, <2>1 DEF PcOK, Inside
    <2> QED
        BY <1>0, <2>1, <2>2, <2>3 DEF IInv, PcOK, LockSaysWhoIsInside, WritersAreUpToDate
<1>3. ASSUME NEW t \in Thread, ExchangeLock(t)
      PROVE  IInv'
    <2>1. /\ pc[t] = "exchange"
          /\ atomic_is_locked' = TRUE
          /\ UNCHANGED <<list, seen>>
        BY <1>3 DEF ExchangeLock
    <2>2. CASE atomic_is_locked
        <3>1. pc' = [pc EXCEPT ![t] = "load"]
            BY <1>3, <2>2 DEF ExchangeLock, Goto
        <3>2. PcOK'
            BY <1>0, <2>1, <3>1 DEF PcOK, Stages
        <3>3. Inside' = Inside
            BY <1>0, <2>1, <3>1 DEF PcOK, Inside
        <3> QED
            BY <1>0, <2>1, <2>2, <3>1, <3>2, <3>3
            DEF IInv, PcOK, LockSaysWhoIsInside, WritersAreUpToDate
    <2>3. CASE ~atomic_is_locked
        <3>1. pc' = [pc EXCEPT ![t] = "read"]
            BY <1>3, <2>3 DEF ExchangeLock, Goto
        <3>2. PcOK'
            BY <1>0, <2>1, <3>1 DEF PcOK, Stages
        <3>3. Inside' = {t}
            BY <1>0, <2>3, <3>1 DEF PcOK, Inside, LockSaysWhoIsInside
        <3> QED
            BY <1>0, <2>1, <3>1, <3>2, <3>3
            DEF IInv, PcOK, LockSaysWhoIsInside, WritersAreUpToDate
    <2> QED
        BY <2>2, <2>3
<1>4. ASSUME NEW t \in Thread, ReadList(t)
      PROVE  IInv'
    <2>1. /\ pc[t] = "read"
          /\ seen' = [seen EXCEPT ![t] = list]
          /\ pc' = [pc EXCEPT ![t] = "write"]
          /\ UNCHANGED <<list, atomic_is_locked>>
        BY <1>4 DEF ReadList, Goto
    <2>2. PcOK'
        BY <1>0, <2>1 DEF PcOK, Stages
    <2>3. Inside' = Inside
        BY <1>0, <2>1 DEF PcOK, Inside
    <2> QED
        BY <1>0, <2>1, <2>2, <2>3 DEF IInv, PcOK, LockSaysWhoIsInside, WritersAreUpToDate
<1>5. ASSUME NEW t \in Thread, WriteList(t)
      PROVE  IInv'
    <2>1. /\ pc[t] = "write"
          /\ seen' = [seen EXCEPT ![t] = list_new]
          /\ pc' = [pc EXCEPT ![t] = "unlock"]
          /\ UNCHANGED atomic_is_locked
        BY <1>5 DEF WriteList, Goto
    <2>2. PcOK'
        BY <1>0, <2>1 DEF PcOK, Stages
    <2>3. Inside' = Inside
        BY <1>0, <2>1 DEF PcOK, Inside
    <2>4. Inside = {t}
        BY <2>1, InsideIsAlone DEF Inside
    <2>5. \A s \in Thread : pc'[s] # "write"
        BY <1>0, <2>1, <2>4 DEF PcOK, Inside
    <2> QED
        BY <1>0, <2>1, <2>2, <2>3, <2>5 DEF IInv, LockSaysWhoIsInside, WritersAreUpToDate
<1>6. ASSUME NEW t \in Thread, Unlock(t)
      PROVE  IInv'
    <2>1. /\ pc[t] = "unlock"
          /\ atomic_is_locked' = FALSE
          /\ pc' = [pc EXCEPT ![t] = "out"]
          /\ UNCHANGED <<list, seen>>
        BY <1>6 DEF Unlock, Unlocked, Goto
    <2>2. PcOK'
        BY <1>0, <2>1 DEF PcOK, Stages
    <2>3. Inside = {t}
        BY <2>1, InsideIsAlone DEF Inside
    <2>4. Inside' = {}
        BY <1>0, <2>1, <2>3 DEF PcOK, Inside
    <2> QED
        BY <1>0, <2>1, <2>2, <2>4 DEF IInv, PcOK, LockSaysWhoIsInside, WritersAreUpToDate
<1>7. CASE UNCHANGED vars
    BY <1>0, <1>7 DEF vars, IInv, PcOK, LockSaysWhoIsInside, Inside, WritersAreUpToDate
<1> QED
    BY <1>1, <1>2, <1>3, <1>4, <1>5, <1>6, <1>7 DEF Next, Step

\* The lock's invariant holds throughout.
LEMMA IInvHolds == Spec => []IInv
BY InitIInv, StepIInv, PTL DEF Spec

\* The spinlock of fast_spinlock.c excludes for any number of threads: a thread
\* that has read the lock free while another took it is turned back by the
\* exchange.
THEOREM LockExcludes == Spec => []OneInside
<1>1. IInv => OneInside
    <2> SUFFICES ASSUME IInv
                 PROVE  OneInside
        OBVIOUS
    <2>1. CASE atomic_is_locked
        <3>1. PICK t \in Thread : Inside = {t}
            BY <2>1 DEF IInv, LockSaysWhoIsInside
        <3> QED
            BY <2>1, <3>1, FS_Singleton DEF OneInside
    <2>2. CASE ~atomic_is_locked
        BY <2>2, FS_EmptySet DEF IInv, LockSaysWhoIsInside, OneInside
    <2> QED
        BY <2>1, <2>2
<1> QED
    BY <1>1, IInvHolds, PTL

\* No change of the list is overwritten by a thread that read the list before
\* it: what the list functions of deque.c write back is the list they were
\* given.
THEOREM NoChangeIsOverwritten == Spec => []WritersAreUpToDate
<1>1. IInv => WritersAreUpToDate
    BY DEF IInv
<1> QED
    BY <1>1, IInvHolds, PTL

-----------------------------------------------------------------------------
(* A call of the deque takes effect at its write.                           *)

\* The operations that allocate a node.
PushOps == {"push_front", "push_back"}

\* There is a node left when the list is shorter than there are nodes.
LEMMA NodeIsLeft ==
    ASSUME NEW l, NEW s, NEW k, Linked(l, s, k), k < Cardinality(NodeId)
    PROVE  NodeId \ Allocated(l) # {}
<1>1. Cardinality(Allocated(l)) = k /\ Allocated(l) \subseteq NodeId /\ k \in Nat
    <2>1. Cardinality(Allocated(l)) = k
        BY CountOfAllocated
    <2>2. k \in Nat
        BY DEF Linked
    <2> QED
        BY <2>1, <2>2 DEF Allocated
<1>2. Cardinality(NodeId) \in Nat
    BY LengthIsBounded
<1>3. Allocated(l) # NodeId
    BY <1>1, <1>2
<1> QED
    BY <1>1, <1>3

\* What the list function of an operation makes of the values, and answers.
LEMMA ChangedValues ==
    ASSUME NEW l, NEW s, NEW k, Linked(l, s, k), NEW o \in Operations,
           o.op \in PushOps => k < Cardinality(NodeId),
           NEW m, m = Changed(o.op, o.value, l), NEW a, a = Answered(o.op, l)
    PROVE  /\ \E t, h : Linked(m, t, h) /\ h <= IF o.op \in PushOps THEN k + 1 ELSE k
           /\ \/ /\ o.op = "push_front" /\ a = "NULL"
                 /\ Values(m) = <<o.value>> \o Values(l)
              \/ /\ o.op = "push_back" /\ a = "NULL"
                 /\ Values(m) = Append(Values(l), o.value)
              \/ /\ o.op = "pop_front" /\ Values(l) # <<>>
                 /\ Values(m) = Tail(Values(l)) /\ a = Head(Values(l))
              \/ /\ o.op = "pop_back" /\ Values(l) # <<>>
                 /\ Values(m) = Atomic!Front(Values(l)) /\ a = Atomic!Last(Values(l))
              \/ /\ o.op \in {"pop_front", "pop_back"} /\ Values(l) = <<>>
                 /\ Values(m) = Values(l) /\ a = "NULL"
              \/ /\ o.op = "is_empty" /\ Values(m) = Values(l)
                 /\ a = IF Values(l) = <<>> THEN "yes" ELSE "no"
<1> DEFINE V == Values(l)
<1>1. /\ k \in Nat /\ Len(V) = k /\ V \in Seq(Value)
      /\ \A i \in 1 .. k : V[i] = l.node[s[i]].value
    BY SeenAs
<1>2. s \in [1 .. k -> NodeId] /\ l.first = (IF k = 0 THEN NULL ELSE s[1])
      /\ l.last = (IF k = 0 THEN NULL ELSE s[k]) /\ l.length = k
    BY DEF Linked
<1>3. o.op \in PushOps => o.value \in Value
    BY DEF Operations, PushOps
<1>4. ASSUME NEW t, NEW h, Linked(m, t, h)
      PROVE  Len(Values(m)) = h
    BY <1>4, SeenAs
<1>5. CASE o.op = "push_front"
    <2>1. m = list_unshift(l, o.value) /\ a = "NULL" /\ o.op \in PushOps
        BY <1>5 DEF Changed, Answered, PushOps
    <2>2. (\E t, h : Linked(m, t, h)) /\ Values(m) = <<o.value>> \o V
        BY <1>3, <2>1, NodeIsLeft, UnshiftedValues
    <2>3. Len(Values(m)) = k + 1
        BY <1>1, <1>3, <2>1, <2>2
    <2> QED
        BY <1>1, <1>4, <1>5, <2>1, <2>2, <2>3
<1>6. CASE o.op = "push_back"
    <2>1. m = list_push(l, o.value) /\ a = "NULL" /\ o.op \in PushOps
        BY <1>6 DEF Changed, Answered, PushOps
    <2>2. (\E t, h : Linked(m, t, h)) /\ Values(m) = Append(V, o.value)
        BY <1>3, <2>1, NodeIsLeft, PushedValues
    <2>3. Len(Values(m)) = k + 1
        BY <1>1, <1>3, <2>1, <2>2
    <2> QED
        BY <1>1, <1>4, <1>6, <2>1, <2>2, <2>3
<1>7. CASE o.op \in {"pop_front", "pop_back"} /\ k = 0
    <2>1. l.first = NULL /\ l.last = NULL /\ V = <<>> /\ o.op \notin PushOps
        BY <1>1, <1>2, <1>7 DEF PushOps
    <2>2. m = [l EXCEPT !.cursor = NULL] /\ a = "NULL"
        BY <1>7, <2>1 DEF Changed, Answered, list_shift, list_pop, ValueAt
    <2>3. 0 \in 0 .. k /\ NULL = IF 0 = 0 THEN NULL ELSE s[0]
        BY <1>1
    <2>4. Linked(m, s, k) /\ Values(m) = V
        BY <2>2, <2>3, MovedCursor
    <2> QED
        BY <1>1, <1>7, <2>1, <2>2, <2>4
<1>8. CASE o.op \in {"pop_front", "pop_back"} /\ k # 0
    <2> DEFINE p == IF o.op = "pop_front" THEN 1 ELSE k
    <2>1. p \in 1 .. k /\ V # <<>> /\ o.op \notin PushOps
        BY <1>1, <1>8 DEF PushOps
    <2>2. l.first # NULL /\ l.last # NULL
        BY <1>1, <1>2, <1>8, ListAssumption DEF NULL
    <2>3. m = Unlink(l, s[p]) /\ a = V[p]
        <3>1. CASE o.op = "pop_front"
            BY <1>1, <1>2, <1>8, <2>1, <2>2, <3>1 DEF Changed, Answered, list_shift, ValueAt
        <3>2. CASE o.op = "pop_back"
            BY <1>1, <1>2, <1>8, <2>1, <2>2, <3>2 DEF Changed, Answered, list_pop, ValueAt
        <3> QED BY <1>8, <3>1, <3>2
    <2>4. /\ \E t, h : Linked(m, t, h)
          /\ Values(m) \in Seq(Value) /\ Len(Values(m)) = k - 1
          /\ \A i \in 1 .. k - 1 : Values(m)[i] = IF i < p THEN V[i] ELSE V[i + 1]
        <3> HIDE DEF p
        <3> QED
            BY <2>1, <2>3, UnlinkedValues
    <2>5. \E t, h : Linked(m, t, h) /\ h <= IF o.op \in PushOps THEN k + 1 ELSE k
        BY <1>1, <1>4, <2>1, <2>4
    <2>6. CASE o.op = "pop_front"
        <3>1. Tail(V) \in Seq(Value) /\ Len(Tail(V)) = k - 1
              /\ \A i \in 1 .. k - 1 : Tail(V)[i] = V[i + 1]
            BY <1>1, <2>1, HeadTailProperties
        <3>2. \A i \in 1 .. k - 1 : Values(m)[i] = Tail(V)[i]
            BY <1>1, <2>4, <2>6, <3>1
        <3>3. Values(m) = Tail(V)
            BY <2>4, <3>1, <3>2, SeqEqual
        <3> QED
            BY <1>1, <2>1, <2>3, <2>5, <2>6, <3>3
    <2>7. CASE o.op = "pop_back"
        <3> DEFINE F == SubSeq(V, 1, k - 1)
        <3>1. \A i \in 1 .. k - 1 : V[i] \in Value
            BY <1>1
        <3>2. F \in Seq(Value) /\ Len(F) = k - 1 /\ \A i \in 1 .. k - 1 : F[i] = V[i]
            <4> HIDE DEF V
            <4> QED
                BY <1>1, <1>8, <3>1, SubSeqProperties
        <3>3. \A i \in 1 .. k - 1 : Values(m)[i] = F[i]
            BY <1>1, <2>4, <2>7, <3>2
        <3>4. Values(m) = F
            <4> HIDE DEF F
            <4> QED
                BY <2>4, <3>2, <3>3, SeqEqual
        <3>5. F = Atomic!Front(V) /\ V[k] = Atomic!Last(V)
            BY <1>1 DEF Atomic!Front, Atomic!Last
        <3> QED
            BY <2>1, <2>3, <2>5, <2>7, <3>4, <3>5
    <2> QED
        BY <1>8, <2>6, <2>7
<1>9. CASE o.op = "is_empty"
    <2>1. m = l /\ a = IF k = 0 THEN "yes" ELSE "no"
        BY <1>2, <1>9 DEF Changed, Answered
    <2>2. k = 0 <=> V = <<>>
        BY <1>1
    <2>3. o.op \notin PushOps
        BY <1>9 DEF PushOps
    <2> QED
        BY <1>1, <1>9, <2>1, <2>2, <2>3
<1> QED
    BY <1>5, <1>6, <1>7, <1>8, <1>9 DEF Operations

\* What a call of the deque answers.
Answers == Value \cup {"NULL", "yes", "no"}

CallRecord == [op : PushOps \cup {"none", "pop_front", "pop_back", "is_empty"},
               value : Answers, done : BOOLEAN]

\* Where a thread is says how far its call is.
CallsAreUnderWay ==
    /\ call \in [Thread -> CallRecord]
    /\ \A t \in Thread :
        /\ pc[t] = "out" => call[t] = NoCall
        /\ pc[t] \in {"load", "exchange", "read", "write"} => call[t] \in Operations
        /\ pc[t] = "unlock" => call[t].done = TRUE

\* The pushes that have not taken effect.
Pending == {t \in Thread : call[t].op \in PushOps /\ call[t].done = FALSE}

\* The list is in order, and there is a node for each pending push.
ListHasRoom ==
    \E s, k : Linked(list, s, k) /\ k + Cardinality(Pending) <= Cardinality(NodeId)

DequeInv == IInv /\ CallsAreUnderWay /\ ListHasRoom

\* The operations are the ones deque.c has.
LEMMA OperationsAre ==
    ASSUME NEW c \in Operations
    PROVE  c \in CallRecord /\ c.done = FALSE /\ c # NoCall
<1>1. PICK x \in PushOps \cup {"pop_front", "pop_back", "is_empty"}, v \in Answers :
        c = [op |-> x, value |-> v, done |-> FALSE]
    <2>1. CASE c \in {[op |-> o, value |-> v, done |-> FALSE] :
                          o \in {"push_front", "push_back"}, v \in Value}
        BY <2>1 DEF PushOps, Answers
    <2>2. CASE c \in {[op |-> o, value |-> "NULL", done |-> FALSE] :
                          o \in {"pop_front", "pop_back", "is_empty"}}
        BY <2>2 DEF PushOps, Answers
    <2> QED
        BY <2>1, <2>2 DEF Operations
<1> QED
    BY <1>1 DEF CallRecord, PushOps, NoCall

\* Finitely many threads push at a time.
LEMMA PendingIsFinite ==
    /\ IsFiniteSet(Pending) /\ Cardinality(Pending) \in Nat
    /\ Cardinality(NodeId) \in Nat
BY ThreadAssumption, ListAssumption, FS_Subset, FS_CardinalityType DEF Pending

\* A new deque has room for all, and is the empty atomic deque.
LEMMA InitDequeInv == Init => DequeInv /\ Atomic!DequeInit
<1> SUFFICES ASSUME Init
             PROVE  DequeInv /\ Atomic!DequeInit
    OBVIOUS
<1>1. IInv
    BY InitIInv
<1>2. call = [t \in Thread |-> NoCall] /\ pc = [t \in Thread |-> "out"] /\ list = list_new
    BY DEF Init
<1>3. CallsAreUnderWay
    BY <1>2 DEF CallsAreUnderWay, NoCall, CallRecord, Answers
<1>4. Pending = {}
    BY <1>2 DEF Pending, NoCall, PushOps
<1>5. ListHasRoom
    <2>1. 0 + Cardinality(Pending) <= Cardinality(NodeId)
        BY <1>4, FS_EmptySet, PendingIsFinite
    <2> QED
        BY <1>2, <2>1, NewIsLinked DEF ListHasRoom
<1>6. Values(list) = <<>>
    <2>1. Len(Values(list)) = 0 /\ Values(list) \in Seq(Value)
        BY <1>2, NewIsLinked, SeenAs
    <2> QED
        BY <2>1
<1> QED
    BY <1>1, <1>2, <1>3, <1>5, <1>6 DEF DequeInv, Atomic!DequeInit, NoCall, Atomic!NoCall

\* A call that begins is the atomic deque's invocation.
LEMMA EnterIsInvoke ==
    ASSUME DequeInv, NEW t \in Thread, Enter(t)
    PROVE  CallsAreUnderWay' /\ ListHasRoom' /\ Atomic!Invoke(t)
<1>1. /\ pc[t] = "out" /\ call[t] = NoCall /\ call \in [Thread -> CallRecord]
      /\ pc \in [Thread -> Stages]
      /\ pc' = [pc EXCEPT ![t] = "load"] /\ UNCHANGED list
    BY DEF Enter, Goto, DequeInv, CallsAreUnderWay, IInv, PcOK
<1>2. PICK o \in Operations : /\ call' = [call EXCEPT ![t] = o]
                              /\ o.op \in PushOps => Room
    BY DEF Enter, PushOps
<1>3. CallsAreUnderWay'
    <2>1. call' \in [Thread -> CallRecord] /\ call'[t] = o /\ \A u \in Thread \ {t} : call'[u] = call[u]
        BY <1>1, <1>2, OperationsAre
    <2>2. pc'[t] = "load" /\ \A u \in Thread \ {t} : pc'[u] = pc[u]
        BY <1>1
    <2> QED
        BY <2>1, <2>2 DEF CallsAreUnderWay, DequeInv
<1>4. PICK s, k : Linked(list, s, k) /\ k + Cardinality(Pending) <= Cardinality(NodeId)
    BY DEF DequeInv, ListHasRoom
<1>5. k + Cardinality(Pending') <= Cardinality(NodeId)
    <2>1. Pending' = IF o.op \in PushOps THEN Pending \cup {t} ELSE Pending
        <3>1. t \notin Pending
            BY <1>1 DEF Pending, NoCall, PushOps
        <3>2. o.done = FALSE
            BY OperationsAre
        <3> QED
            BY <1>1, <1>2, <3>1, <3>2 DEF Pending
    <2>2. CASE o.op \notin PushOps
        BY <1>4, <2>1, <2>2
    <2>3. CASE o.op \in PushOps
        <3> DEFINE P == {u \in Thread : call[u].op \in {"push_front", "push_back"}}
        <3>1. k + Cardinality(P) < Cardinality(NodeId)
            BY <1>2, <1>4, <2>3, CountOfAllocated DEF Room
        <3>2. Pending \subseteq P /\ IsFiniteSet(P) /\ t \notin Pending
            BY <1>1, ThreadAssumption, FS_Subset DEF Pending, PushOps, NoCall
        <3>3. Cardinality(Pending) <= Cardinality(P) /\ Cardinality(P) \in Nat
            BY <3>2, FS_Subset, FS_CardinalityType
        <3>4. Cardinality(Pending \cup {t}) = Cardinality(Pending) + 1
            BY <3>2, PendingIsFinite, FS_AddElement
        <3>5. k \in Nat
            BY <1>4 DEF Linked
        <3> HIDE DEF P
        <3> QED
            BY <2>1, <2>3, <3>1, <3>3, <3>4, <3>5, PendingIsFinite
    <2> QED BY <2>2, <2>3
<1>6. ListHasRoom'
    BY <1>1, <1>4, <1>5 DEF ListHasRoom
<1>7. Operations = Atomic!Operations
    BY DEF Operations, Atomic!Operations
<1> QED
    BY <1>1, <1>2, <1>3, <1>6, <1>7 DEF Atomic!Invoke, NoCall, Atomic!NoCall

\* Waiting for the lock and reading the list leave the calls and the list alone.
LEMMA WaitingIsStuttering ==
    ASSUME DequeInv, NEW t \in Thread, LoadLock(t) \/ ExchangeLock(t) \/ ReadList(t)
    PROVE  CallsAreUnderWay' /\ ListHasRoom' /\ UNCHANGED Atomic!dequeVars
<1>1. /\ pc[t] \in {"load", "exchange", "read"} /\ pc \in [Thread -> Stages]
      /\ UNCHANGED <<list, call>>
    BY DEF LoadLock, ExchangeLock, ReadList, DequeInv, IInv, PcOK
<1>2. PICK p \in {"load", "exchange", "read", "write"} : pc' = [pc EXCEPT ![t] = p]
    BY DEF LoadLock, ExchangeLock, ReadList, Goto
<1>3. pc'[t] = p /\ \A u \in Thread \ {t} : pc'[u] = pc[u]
    BY <1>1, <1>2
<1>4. CallsAreUnderWay'
    <2>1. call[t] \in Operations /\ \A u \in Thread : call'[u] = call[u]
        BY <1>1 DEF DequeInv, CallsAreUnderWay
    <2> QED
        BY <1>1, <1>2, <1>3, <2>1 DEF CallsAreUnderWay, DequeInv
<1>5. Pending' = Pending
    BY <1>1 DEF Pending
<1> QED
    BY <1>1, <1>4, <1>5 DEF DequeInv, ListHasRoom, Atomic!dequeVars

\* The write of the changed list is where the call takes effect.
LEMMA WriteTakesEffect ==
    ASSUME DequeInv, NEW t \in Thread, WriteList(t)
    PROVE  CallsAreUnderWay' /\ ListHasRoom' /\ Atomic!TakeEffect(t)
<1> DEFINE o == call[t]
           m == Changed(o.op, o.value, list)
           a == Answered(o.op, list)
<1>1. /\ pc[t] = "write" /\ o \in Operations /\ call \in [Thread -> CallRecord]
      /\ pc \in [Thread -> Stages] /\ seen[t] = list
    BY DEF WriteList, DequeInv, CallsAreUnderWay, IInv, PcOK, WritersAreUpToDate
<1>2. /\ list' = m /\ pc' = [pc EXCEPT ![t] = "unlock"]
      /\ call' = [call EXCEPT ![t].done = TRUE, ![t].value = a]
    BY <1>1 DEF WriteList, Goto
<1>3. PICK s, k : Linked(list, s, k) /\ k + Cardinality(Pending) <= Cardinality(NodeId)
    BY DEF DequeInv, ListHasRoom
<1>4. k \in Nat /\ o.done = FALSE /\ o \in CallRecord
    BY <1>1, <1>3, OperationsAre DEF Linked
<1>5. t \in Pending <=> o.op \in PushOps
    BY <1>4 DEF Pending
<1>6. o.op \in PushOps => k < Cardinality(NodeId)
    <2>1. t \in Pending => Cardinality(Pending) # 0
        BY PendingIsFinite, FS_EmptySet
    <2> QED
        BY <1>3, <1>4, <1>5, <2>1, PendingIsFinite
<1> HIDE DEF m, a
<1>7. /\ \E q, h : Linked(m, q, h) /\ h <= IF o.op \in PushOps THEN k + 1 ELSE k
      /\ \/ /\ o.op = "push_front" /\ a = "NULL"
            /\ Values(m) = <<o.value>> \o Values(list)
         \/ /\ o.op = "push_back" /\ a = "NULL"
            /\ Values(m) = Append(Values(list), o.value)
         \/ /\ o.op = "pop_front" /\ Values(list) # <<>>
            /\ Values(m) = Tail(Values(list)) /\ a = Head(Values(list))
         \/ /\ o.op = "pop_back" /\ Values(list) # <<>>
            /\ Values(m) = Atomic!Front(Values(list)) /\ a = Atomic!Last(Values(list))
         \/ /\ o.op \in {"pop_front", "pop_back"} /\ Values(list) = <<>>
            /\ Values(m) = Values(list) /\ a = "NULL"
         \/ /\ o.op = "is_empty" /\ Values(m) = Values(list)
            /\ a = IF Values(list) = <<>> THEN "yes" ELSE "no"
    <2> HIDE DEF o
    <2> QED
        BY <1>1, <1>3, <1>6, ChangedValues DEF m, a
<1>8. a \in Answers
    <2>1. Values(list) \in Seq(Value)
        BY <1>3, SeenAs
    <2>2. Values(list) # <<>> => Head(Values(list)) \in Value /\ Atomic!Last(Values(list)) \in Value
        BY <2>1 DEF Atomic!Last
    <2> QED
        BY <1>7, <2>2 DEF Answers
<1>9. /\ call'[t] = [o EXCEPT !.done = TRUE, !.value = a] /\ call' \in [Thread -> CallRecord]
      /\ \A u \in Thread \ {t} : call'[u] = call[u]
    BY <1>1, <1>2, <1>4, <1>8 DEF CallRecord
<1>10. call'[t].done = TRUE /\ call'[t].op = o.op
    BY <1>4, <1>9 DEF CallRecord
<1>11. CallsAreUnderWay'
    <2>1. pc'[t] = "unlock" /\ \A u \in Thread \ {t} : pc'[u] = pc[u]
        BY <1>1, <1>2
    <2> QED
        BY <1>9, <1>10, <2>1 DEF CallsAreUnderWay, DequeInv
<1>12. Pending' = Pending \ {t}
    BY <1>9, <1>10 DEF Pending
<1>13. ListHasRoom'
    <2>1. PICK q, h : Linked(m, q, h) /\ h <= IF o.op \in PushOps THEN k + 1 ELSE k
        BY <1>7
    <2>2. Cardinality(Pending') = IF o.op \in PushOps THEN Cardinality(Pending) - 1
                                  ELSE Cardinality(Pending)
        <3>1. CASE o.op \in PushOps
            BY <1>5, <1>12, <3>1, PendingIsFinite, FS_RemoveElement
        <3>2. CASE o.op \notin PushOps
            <4>1. Pending' = Pending
                BY <1>5, <1>12, <3>2
            <4> QED
                BY <3>2, <4>1
        <3> QED BY <3>1, <3>2
    <2>3. h \in Nat
        BY <2>1 DEF Linked
    <2>4. h + Cardinality(Pending') <= Cardinality(NodeId)
        BY <1>3, <1>4, <2>1, <2>2, <2>3, PendingIsFinite
    <2> QED
        BY <1>2, <2>1, <2>4 DEF ListHasRoom
<1>14. Values(list)' = Values(m)
    BY <1>2
<1>15. Atomic!Answer(t, a)
    BY <1>2 DEF Atomic!Answer
<1>16. ~call[t].done
    BY <1>4
<1>17. Atomic!TakeEffect(t)
    BY <1>7, <1>14, <1>15, <1>16 DEF Atomic!TakeEffect, Atomic!Popped
<1> QED
    BY <1>11, <1>13, <1>17

\* Unlocking is where the call returns.
LEMMA UnlockReturns ==
    ASSUME DequeInv, NEW t \in Thread, Unlock(t)
    PROVE  CallsAreUnderWay' /\ ListHasRoom' /\ Atomic!Return(t)
<1>1. /\ pc[t] = "unlock" /\ call[t].done = TRUE /\ call \in [Thread -> CallRecord]
      /\ pc \in [Thread -> Stages]
    BY DEF Unlock, DequeInv, CallsAreUnderWay, IInv, PcOK
<1>2. /\ pc' = [pc EXCEPT ![t] = "out"] /\ call' = [call EXCEPT ![t] = NoCall]
      /\ UNCHANGED list
    BY DEF Unlock, Goto
<1>3. NoCall \in CallRecord
    BY DEF NoCall, CallRecord, Answers
<1>4. /\ call' \in [Thread -> CallRecord] /\ call'[t] = NoCall
      /\ \A u \in Thread \ {t} : call'[u] = call[u]
    BY <1>1, <1>2, <1>3
<1>5. CallsAreUnderWay'
    <2>1. pc'[t] = "out" /\ \A u \in Thread \ {t} : pc'[u] = pc[u]
        BY <1>1, <1>2
    <2> QED
        BY <1>4, <2>1 DEF CallsAreUnderWay, DequeInv
<1>6. Pending' = Pending
    BY <1>1, <1>4 DEF Pending, NoCall, PushOps
<1> QED
    BY <1>1, <1>2, <1>5, <1>6 DEF DequeInv, ListHasRoom, Atomic!Return, NoCall, Atomic!NoCall

\* Every step of a thread is a step of the atomic deque, or none.
LEMMA DequeStep ==
    DequeInv /\ [Next]_vars => DequeInv' /\ [Atomic!DequeNext]_(Atomic!dequeVars)
<1> SUFFICES ASSUME DequeInv, [Next]_vars
             PROVE  DequeInv' /\ [Atomic!DequeNext]_(Atomic!dequeVars)
    OBVIOUS
<1>1. IInv'
    BY StepIInv DEF DequeInv
<1>2. ASSUME NEW t \in Thread, Enter(t) \/ Step(t)
      PROVE  CallsAreUnderWay' /\ ListHasRoom' /\ [Atomic!DequeNext]_(Atomic!dequeVars)
    BY <1>2, EnterIsInvoke, WaitingIsStuttering, WriteTakesEffect, UnlockReturns
       DEF Step, Atomic!DequeNext
<1>3. CASE UNCHANGED vars
    <2>1. UNCHANGED <<list, pc, call>>
        BY <1>3 DEF vars
    <2>2. CallsAreUnderWay' /\ UNCHANGED Atomic!dequeVars
        BY <2>1 DEF DequeInv, CallsAreUnderWay, Atomic!dequeVars
    <2>3. Pending' = Pending
        BY <2>1 DEF Pending
    <2>4. ListHasRoom'
        BY <2>1, <2>3 DEF DequeInv, ListHasRoom
    <2> QED
        BY <1>1, <2>2, <2>4 DEF DequeInv
<1> QED
    BY <1>1, <1>2, <1>3 DEF DequeInv, Next

\* The deque's invariant holds throughout.
LEMMA DequeInvHolds == Spec => []DequeInv
BY InitDequeInv, DequeStep, PTL DEF Spec

\* The calls of deque.c take effect one at a time, for any threads: its list,
\* read and written in two steps under the lock, implements the deque whose
\* calls are atomic.
THEOREM DequeRefinesAtomic == Spec => DequeIsAtomic
<1>1. Init => Atomic!DequeInit
    BY InitDequeInv
<1>2. DequeInv /\ [Next]_vars => [Atomic!DequeNext]_(Atomic!dequeVars)
    BY DequeStep
<1> QED
    BY <1>1, <1>2, DequeInvHolds, PTL DEF Spec, DequeIsAtomic, Atomic!DequeSpec

=============================================================================
