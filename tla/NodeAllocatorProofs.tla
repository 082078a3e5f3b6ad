------------------------ MODULE NodeAllocatorProofs ------------------------
(***************************************************************************)
(* Theorems about NodeAllocator, for every number of workers, cache size   *)
(* and batch size.  Where a bound counts nodes, every place they may be in *)
(* is finite because node_array is.                                        *)
(***************************************************************************)
EXTENDS NodeAllocator, FiniteSetTheorems, TLAPS

\* The most that all private stacks but one worker's can hold together.
OthersHoard == cache_size - 1 + (Cardinality(Worker) - 1) * (2 * cache_size)

\* The private stacks of workers that do not live are empty.
IdleStacksAreEmpty == ~running => \A w \in Worker : free_node_stack[w] = {}

PeakIsHighest == Cardinality(in_use) <= peak

\* The batches that the looping workers will make are already accounted for.
BatchesAreWanted ==
    node_count + Cardinality(looping) * batch_size
        <= peak + Cardinality(stranded) + OthersHoard + Cardinality(Worker) * batch_size

IInv ==
    /\ TypeOK
    /\ EachNodeInOnePlace
    /\ HoardBound
    /\ IdleStacksAreEmpty
    /\ PeakIsHighest

-----------------------------------------------------------------------------
(* Counting.                                                               *)

\* A finite union of sets of at most k members counts at most k for each.
LEMMA UnionBound ==
    ASSUME NEW S, IsFiniteSet(S), NEW k \in Nat, NEW f,
           \A s \in S : IsFiniteSet(f[s]) /\ Cardinality(f[s]) <= k
    PROVE  /\ IsFiniteSet(UNION {f[s] : s \in S})
           /\ Cardinality(UNION {f[s] : s \in S}) <= Cardinality(S) * k
<1> DEFINE U == UNION {f[s] : s \in S}
           e == [s \in S |-> CHOOSE b : b \in Bijection(1 .. Cardinality(f[s]), f[s])]
           own(x) == CHOOSE s \in S : x \in f[s]
           at(x) == CHOOSE i \in 1 .. k : e[own(x)][i] = x
           h == [x \in U |-> <<own(x), at(x)>>]
<1>1. ASSUME NEW s \in S
      PROVE  /\ Cardinality(f[s]) \in Nat
             /\ e[s] \in Bijection(1 .. Cardinality(f[s]), f[s])
    BY FS_CardinalityType DEF ExistsBijection
<1>2. ASSUME NEW x \in U
      PROVE  own(x) \in S /\ at(x) \in 1 .. k /\ e[own(x)][at(x)] = x
    <2>1. own(x) \in S /\ x \in f[own(x)]
        OBVIOUS
    <2>2. e[own(x)] \in Surjection(1 .. Cardinality(f[own(x)]), f[own(x)])
        BY <1>1, <2>1 DEF Bijection
    <2>3. PICK i \in 1 .. Cardinality(f[own(x)]) : e[own(x)][i] = x
        BY <2>1, <2>2 DEF Surjection
    <2> HIDE DEF own, e
    <2>4. i \in 1 .. k
        BY <1>1, <2>1, <2>3
    <2> QED
        BY <2>1, <2>3, <2>4
<1>3. h \in Injection(U, S \X (1 .. k))
    <2> HIDE DEF own, at, e, U
    <2>1. h \in [U -> S \X (1 .. k)]
        BY <1>2
    <2>2. ASSUME NEW x \in U, NEW y \in U, h[x] = h[y]
          PROVE  x = y
        BY <1>2, <2>2
    <2> HIDE DEF h
    <2> QED
        BY <2>1, <2>2 DEF Injection, IsInjective
<1>4. /\ IsFiniteSet(1 .. k)
      /\ Cardinality(1 .. k) = k
    BY FS_Interval
<1>5. /\ IsFiniteSet(S \X (1 .. k))
      /\ Cardinality(S \X (1 .. k)) = Cardinality(S) * k
    BY <1>4, FS_Product
<1> HIDE DEF h, U
<1>6. IsFiniteSet(U) /\ Cardinality(U) <= Cardinality(S) * k
    BY <1>3, <1>5, FS_Injection
<1> QED
    BY <1>6 DEF U

\* Two finite sets together count at most what each of them counts.
LEMMA UnionCounts ==
    ASSUME NEW S, IsFiniteSet(S), NEW T, IsFiniteSet(T)
    PROVE  /\ IsFiniteSet(S \union T)
           /\ Cardinality(S \union T) \in Nat
           /\ Cardinality(S \union T) <= Cardinality(S) + Cardinality(T)
           /\ Cardinality(S) <= Cardinality(S \union T)
<1>1. Cardinality(S \intersect T) \in Nat
    BY FS_Intersection, FS_CardinalityType
<1>2. /\ IsFiniteSet(S \union T)
      /\ Cardinality(S \union T)
            = Cardinality(S) + Cardinality(T) - Cardinality(S \intersect T)
    BY FS_Union
<1>3. Cardinality(S) \in Nat /\ Cardinality(T) \in Nat /\ Cardinality(S \union T) \in Nat
    BY <1>2, FS_CardinalityType
<1>4. Cardinality(S) <= Cardinality(S \union T)
    BY <1>2, FS_Subset
<1> QED
    BY <1>1, <1>2, <1>3, <1>4

\* The numbers up to count are finitely many, and so are any of them.
LEMMA NodesAreFinite ==
    ASSUME NEW count \in Nat, NEW S, S \subseteq 1 .. count
    PROVE  IsFiniteSet(S) /\ Cardinality(S) \in Nat
<1>1. IsFiniteSet(1 .. count)
    BY FS_Interval
<1> QED
    BY <1>1, FS_Subset, FS_CardinalityType

\* The parts of node_array are finite and count no more than they may.
LEMMA PlacesAreFinite ==
    ASSUME IInv
    PROVE  /\ \A w \in Thread : /\ IsFiniteSet(free_node_stack[w])
                               /\ Cardinality(free_node_stack[w]) \in Nat
           /\ IsFiniteSet(shared) /\ Cardinality(shared) \in Nat
           /\ IsFiniteSet(in_use) /\ Cardinality(in_use) \in Nat
           /\ IsFiniteSet(stranded) /\ Cardinality(stranded) \in Nat
           /\ IsFiniteSet(looping) /\ Cardinality(looping) \in Nat
           /\ Cardinality(Worker) \in Nat
<1>1. /\ node_count \in Nat
      /\ shared \subseteq 1 .. node_count
      /\ in_use \subseteq 1 .. node_count
      /\ stranded \subseteq 1 .. node_count
      /\ \A w \in Thread : free_node_stack[w] \subseteq 1 .. node_count
    BY DEF IInv, TypeOK, EachNodeInOnePlace, Private
<1>2. IsFiniteSet(looping)
    <2>1. looping \subseteq Worker \union {Loader}
        BY DEF IInv, TypeOK, Active
    <2>2. IsFiniteSet(Worker \union {Loader})
        BY AllocatorAssumption, FS_AddElement
    <2> QED
        BY <2>1, <2>2, FS_Subset
<1> QED
    BY <1>1, <1>2, NodesAreFinite, FS_CardinalityType, AllocatorAssumption

-----------------------------------------------------------------------------
(* The invariant.                                                          *)

LEMMA InitIInv == Init => IInv
<1> SUFFICES ASSUME Init
             PROVE  IInv
    OBVIOUS
<1> USE AllocatorAssumption DEF Init, Thread
<1>1. TypeOK
    <2>1. shared \subseteq Node
        BY DEF Node, Batch
    <2> QED
        BY <2>1 DEF TypeOK
<1>2. EachNodeInOnePlace
    BY DEF EachNodeInOnePlace, Private, Batch
<1>3. HoardBound
    BY FS_EmptySet, FS_CardinalityType DEF HoardBound
<1>4. IdleStacksAreEmpty /\ PeakIsHighest
    BY FS_EmptySet DEF IdleStacksAreEmpty, PeakIsHighest
<1> QED
    BY <1>1, <1>2, <1>3, <1>4 DEF IInv

\* What taking the node n out of available, into use, does to the counts.
LEMMA UseCounts ==
    ASSUME IInv, NEW w \in Thread, NEW n \in 1 .. node_count, NEW available,
           IsFiniteSet(available), Use(w, n, available), n \notin in_use
    PROVE  /\ Cardinality(available \ {n}) = Cardinality(available) - 1
           /\ Cardinality(in_use') = Cardinality(in_use) + 1
           /\ PeakIsHighest'
           /\ peak' \in Nat /\ peak' >= peak
<1>1. Cardinality(available \ {n}) = Cardinality(available) - 1
    BY FS_RemoveElement DEF Use
<1>2. /\ IsFiniteSet(in_use) /\ Cardinality(in_use) \in Nat
      /\ peak \in Nat
      /\ Cardinality(in_use) <= peak
    BY PlacesAreFinite DEF IInv, TypeOK, PeakIsHighest
<1>3. Cardinality(in_use') = Cardinality(in_use) + 1
    BY <1>2, FS_AddElement DEF Use
<1> QED
    BY <1>1, <1>2, <1>3 DEF Use, PeakIsHighest

LEMMA StepIInv == IInv /\ [Next]_vars => IInv'
<1> SUFFICES ASSUME IInv, [Next]_vars
             PROVE  IInv'
    OBVIOUS
<1> USE AllocatorAssumption
<1>0. /\ TypeOK
      /\ EachNodeInOnePlace
      /\ HoardBound
      /\ IdleStacksAreEmpty
      /\ PeakIsHighest
    BY DEF IInv
<1>1. ASSUME NEW w \in Thread, NEW n \in 1 .. node_count, AllocatePrivate(w, n)
      PROVE  IInv'
    <2> USE <1>1 DEF AllocatePrivate
    <2>1. TypeOK'
        <3>1. peak' \in Nat
            BY <1>0, PlacesAreFinite DEF TypeOK, Use
        <3>2. Use(w, n, free_node_stack[w])
            OBVIOUS
        <3> QED
            BY <1>0, <3>1, <3>2 DEF TypeOK, Use, Active, Node
    <2>2. EachNodeInOnePlace'
        BY <1>0 DEF EachNodeInOnePlace, Private, Use, TypeOK
    <2>3. n \notin in_use /\ n \in free_node_stack[w]
        BY <1>0 DEF EachNodeInOnePlace, Private, Use
    <2>4. /\ Cardinality(free_node_stack[w] \ {n}) = Cardinality(free_node_stack[w]) - 1
          /\ Cardinality(free_node_stack[w]) \in Nat
          /\ PeakIsHighest'
        BY <2>3, PlacesAreFinite, UseCounts
    <2>5. HoardBound'
        BY <1>0, <2>4 DEF HoardBound, Use, TypeOK, Thread
    <2>6. IdleStacksAreEmpty'
        BY <1>0, <2>3 DEF IdleStacksAreEmpty, Use, TypeOK, Thread
    <2> QED
        BY <2>1, <2>2, <2>4, <2>5, <2>6 DEF IInv
<1>2. ASSUME NEW w \in Thread, NEW n \in 1 .. node_count, AllocateShared(w, n)
      PROVE  IInv'
    <2>1. PICK refill \in SUBSET shared :
            /\ Refill(refill)
            /\ shared' = shared \ refill
            /\ Use(w, n, refill)
        BY <1>2 DEF AllocateShared, Without
    <2>2. /\ w \in Active \ looping
          /\ free_node_stack[w] = {}
          /\ UNCHANGED <<node_count, stranded, looping, running, runs>>
        BY <1>2 DEF AllocateShared
    <2>3. /\ IsFiniteSet(refill) /\ Cardinality(refill) \in Nat
          /\ Cardinality(refill) <= cache_size
        BY <2>1, PlacesAreFinite, FS_Subset, FS_CardinalityType DEF Refill
    <2>4. n \in refill /\ n \notin in_use
        BY <1>0, <2>1 DEF EachNodeInOnePlace, Use
    <2>5. /\ Cardinality(refill \ {n}) = Cardinality(refill) - 1
          /\ PeakIsHighest'
          /\ peak' \in Nat
        BY <2>1, <2>3, <2>4, UseCounts
    <2>6. TypeOK'
        BY <1>0, <2>1, <2>2, <2>5 DEF TypeOK, Use, Active, Node
    <2>7. EachNodeInOnePlace'
        <3>1. /\ free_node_stack' = [free_node_stack EXCEPT ![w] = refill \ {n}]
              /\ in_use' = in_use \union {n}
            BY <2>1 DEF Use
        <3>2. Private' = Private \union (refill \ {n})
            BY <1>0, <2>2, <3>1 DEF Private, TypeOK
        <3>3. \A v, u \in Thread :
                  v # u => free_node_stack'[v] \intersect free_node_stack'[u] = {}
            <4>1. ASSUME NEW v \in Thread, v # w
                  PROVE  /\ free_node_stack'[v] = free_node_stack[v]
                         /\ free_node_stack[v] \intersect refill = {}
                BY <1>0, <3>1, <4>1 DEF EachNodeInOnePlace, TypeOK, Private
            <4>2. free_node_stack'[w] = refill \ {n}
                BY <1>0, <3>1 DEF TypeOK
            <4> QED
                BY <1>0, <4>1, <4>2 DEF EachNodeInOnePlace
        <3>4. shared' \union Private' \union in_use' \union stranded' = 1 .. node_count'
            BY <1>0, <2>1, <2>2, <2>4, <3>1, <3>2 DEF EachNodeInOnePlace
        <3>5. /\ in_use' \intersect (shared' \union Private' \union stranded') = {}
              /\ shared' \intersect (Private' \union stranded') = {}
              /\ Private' \intersect stranded' = {}
            BY <1>0, <2>1, <2>2, <2>4, <3>1, <3>2 DEF EachNodeInOnePlace
        <3> QED
            BY <3>3, <3>4, <3>5 DEF EachNodeInOnePlace
    <2>8. HoardBound'
        BY <1>0, <2>1, <2>2, <2>3, <2>5 DEF HoardBound, Use, TypeOK, Thread
    <2>9. IdleStacksAreEmpty'
        BY <1>0, <2>1, <2>2 DEF IdleStacksAreEmpty, Use, TypeOK, Thread, Active
    <2> QED
        BY <2>5, <2>6, <2>7, <2>8, <2>9 DEF IInv
<1>3. ASSUME NEW w \in Thread, AllocateNone(w)
      PROVE  IInv'
    <2>1. TypeOK'
        BY <1>0, <1>3 DEF AllocateNone, TypeOK, Active
    <2> QED
        BY <1>0, <1>3, <2>1
        DEF AllocateNone, EachNodeInOnePlace, Private, HoardBound, IdleStacksAreEmpty,
            PeakIsHighest, IInv
<1>4. ASSUME NEW w \in Thread, PrepareBatch(w)
      PROVE  IInv'
    <2>1. TypeOK'
        BY <1>0, <1>4 DEF PrepareBatch, TypeOK, Active, Batch, Node
    <2>2. EachNodeInOnePlace'
        <3>1. /\ 1 .. node_count' = 1 .. node_count \union Batch(node_count)
              /\ 1 .. node_count \intersect Batch(node_count) = {}
            BY <1>0, <1>4 DEF PrepareBatch, TypeOK, Batch
        <3> QED
            BY <1>0, <1>4, <3>1 DEF PrepareBatch, EachNodeInOnePlace, Private
    <2> QED
        BY <1>0, <1>4, <2>1, <2>2
        DEF PrepareBatch, HoardBound, IdleStacksAreEmpty, PeakIsHighest, IInv
<1>5. ASSUME NEW w \in Thread, NEW n \in 1 .. node_count, Recycle(w, n)
      PROVE  IInv'
    <2>0. /\ running
          /\ w \in Worker
          /\ n \in in_use
          /\ in_use' = in_use \ {n}
          /\ UNCHANGED <<node_count, stranded, looping, running, runs, peak>>
        BY <1>5 DEF Recycle
    <2>1. PICK back \in SUBSET free_node_stack[w] :
            /\ free_node_stack' = [free_node_stack EXCEPT ![w] = (@ \ back) \union {n}]
            /\ shared' = shared \union back
            /\ \/ back = {} /\ ~Full(w)
               \/ Cardinality(back) = cache_size /\ Full(w)
        <3>1. CASE ~Full(w)
            BY <1>5, <3>1 DEF Recycle
        <3>2. CASE Full(w)
            BY <1>5, <3>2 DEF Recycle, kSubset
        <3> QED
            BY <3>1, <3>2
    <2>2. TypeOK'
        BY <1>0, <2>0, <2>1 DEF TypeOK, Active, Node
    <2>3. EachNodeInOnePlace'
        <3>1. Private' = (Private \ back) \union {n}
            BY <1>0, <2>0, <2>1 DEF EachNodeInOnePlace, Private, TypeOK
        <3>2. back \subseteq Private
            BY <2>1 DEF Private
        <3>3. \A v, u \in Thread :
                  v # u => free_node_stack'[v] \intersect free_node_stack'[u] = {}
            <4>1. ASSUME NEW v \in Thread, v # w
                  PROVE  /\ free_node_stack'[v] = free_node_stack[v]
                         /\ n \notin free_node_stack[v]
                BY <1>0, <2>0, <2>1, <4>1 DEF EachNodeInOnePlace, TypeOK, Private
            <4>2. free_node_stack'[w] = (free_node_stack[w] \ back) \union {n}
                BY <1>0, <2>1 DEF TypeOK
            <4> QED
                BY <1>0, <4>1, <4>2 DEF EachNodeInOnePlace
        <3> QED
            BY <1>0, <2>0, <2>1, <3>1, <3>2, <3>3 DEF EachNodeInOnePlace
    <2>4. Cardinality((free_node_stack[w] \ back) \union {n}) <= 2 * cache_size
        <3>1. /\ IsFiniteSet(free_node_stack[w])
              /\ Cardinality(free_node_stack[w]) \in Nat
              /\ Cardinality(free_node_stack[w]) <= 2 * cache_size
            BY <1>0, <2>0, PlacesAreFinite DEF HoardBound
        <3>2. /\ IsFiniteSet(free_node_stack[w] \ back)
              /\ Cardinality(free_node_stack[w] \ back)
                    = Cardinality(free_node_stack[w]) - Cardinality(back)
            <4>1. free_node_stack[w] \intersect back = back
                BY <2>1
            <4> QED
                BY <3>1, <4>1, FS_Difference
        <3>3. Cardinality(free_node_stack[w] \ back) <= 2 * cache_size - 1
            <4>1. CASE back = {} /\ ~Full(w)
                BY <3>1, <3>2, <4>1, FS_EmptySet DEF Full
            <4>2. CASE Cardinality(back) = cache_size /\ Full(w)
                BY <3>1, <3>2, <4>2
            <4> QED
                BY <2>1, <4>1, <4>2
        <3>4. Cardinality(free_node_stack[w] \ back) \in Nat
            BY <3>2, FS_CardinalityType
        <3> DEFINE kept == free_node_stack[w] \ back
        <3>5. Cardinality(kept \union {n}) <= Cardinality(kept) + 1
            <4> HIDE DEF kept
            <4>1. IsFiniteSet(kept) /\ Cardinality(kept) \in Nat
                BY <3>2, <3>4 DEF kept
            <4>2. Cardinality(kept \union {n})
                    = IF n \in kept THEN Cardinality(kept) ELSE Cardinality(kept) + 1
                BY <4>1, FS_AddElement
            <4> QED
                BY <4>1, <4>2
        <3>6. Cardinality(kept \union {n}) \in Nat
            BY <3>2, FS_AddElement, FS_CardinalityType
        <3> QED
            BY <3>3, <3>4, <3>5, <3>6
    <2>5. HoardBound'
        BY <1>0, <2>0, <2>1, <2>4 DEF HoardBound, TypeOK, Thread
    <2>6. PeakIsHighest'
        <3>1. Cardinality(in_use') = Cardinality(in_use) - 1
            BY <2>0, PlacesAreFinite, FS_RemoveElement
        <3> QED
            BY <1>0, <2>0, <3>1, PlacesAreFinite DEF PeakIsHighest, TypeOK
    <2>7. IdleStacksAreEmpty'
        BY <2>0 DEF IdleStacksAreEmpty
    <2> QED
        BY <2>2, <2>3, <2>5, <2>6, <2>7 DEF IInv
<1>6. CASE Run
    BY <1>0, <1>6
    DEF Run, IInv, TypeOK, Active, EachNodeInOnePlace, Private, HoardBound,
        IdleStacksAreEmpty, PeakIsHighest
<1>7. CASE DestroyWorkers
    <2> DEFINE left == UNION {free_node_stack[w] : w \in Worker}
    <2>1. /\ stranded' = stranded \union left
          /\ free_node_stack' = [w \in Thread |->
                                    IF w \in Worker THEN {} ELSE free_node_stack[w]]
          /\ runs' = runs + 1
          /\ UNCHANGED <<node_count, shared, in_use, looping, peak>>
          /\ looping = {} /\ running' = FALSE
        BY <1>7 DEF DestroyWorkers
    <2>2. TypeOK'
        <3>1. left \subseteq Node
            BY <1>0 DEF TypeOK, Thread
        <3>2. free_node_stack' \in [Thread -> SUBSET Node]
            BY <1>0, <2>1 DEF TypeOK
        <3> HIDE DEF left
        <3>3. stranded' \subseteq Node
            BY <1>0, <2>1, <3>1 DEF TypeOK
        <3>4. runs' \in Nat
            BY <1>0, <2>1 DEF TypeOK
        <3>5. looping' \subseteq Active'
            BY <2>1
        <3> QED
            BY <1>0, <2>1, <3>2, <3>3, <3>4, <3>5 DEF TypeOK
    <2>3. EachNodeInOnePlace'
        <3>1. /\ Private = left \union free_node_stack[Loader]
              /\ Private' = free_node_stack[Loader]
              /\ left \intersect free_node_stack[Loader] = {}
            <4>1. Private = left \union free_node_stack[Loader]
                BY DEF Private, Thread
            <4>2. Private' = free_node_stack[Loader]
                BY <2>1 DEF Private, Thread
            <4>3. left \intersect free_node_stack[Loader] = {}
                BY <1>0 DEF EachNodeInOnePlace, Thread
            <4> QED
                BY <4>1, <4>2, <4>3
        <3> HIDE DEF left
        <3> QED
            BY <1>0, <2>1, <3>1 DEF EachNodeInOnePlace, Thread
    <2>4. HoardBound'
        <3>1. /\ IsFiniteSet(left)
              /\ Cardinality(left) <= Cardinality(Worker) * (2 * cache_size)
              /\ Cardinality(left) \in Nat
            <4>1. \A w \in Worker : /\ IsFiniteSet(free_node_stack[w])
                                    /\ Cardinality(free_node_stack[w]) <= 2 * cache_size
                BY <1>0, PlacesAreFinite DEF HoardBound, Thread
            <4>2. 2 * cache_size \in Nat
                OBVIOUS
            <4>3. /\ IsFiniteSet(left)
                  /\ Cardinality(left) <= Cardinality(Worker) * (2 * cache_size)
                BY <4>1, <4>2, UnionBound
            <4> QED
                BY <4>3, FS_CardinalityType
        <3> HIDE DEF left
        <3>2. Cardinality(stranded') <= Cardinality(stranded) + Cardinality(left)
            <4>1. /\ IsFiniteSet(stranded) /\ Cardinality(stranded) \in Nat
                BY PlacesAreFinite
            <4> QED
                BY <2>1, <3>1, <4>1, UnionCounts
        <3>3. /\ Cardinality(stranded) <= runs * Cardinality(Worker) * 2 * cache_size
              /\ runs \in Nat
              /\ Cardinality(Worker) \in Nat
              /\ Cardinality(stranded) \in Nat
            BY <1>0, PlacesAreFinite DEF HoardBound, TypeOK
        <3>4. (runs + 1) * Cardinality(Worker) * 2 * cache_size
                 = runs * Cardinality(Worker) * 2 * cache_size
                   + Cardinality(Worker) * (2 * cache_size)
            BY <3>3
        <3>5. Cardinality(stranded') \in Nat
            BY <2>1, <3>1, PlacesAreFinite, FS_Union, FS_CardinalityType
        <3>6. Cardinality(stranded') <= runs' * Cardinality(Worker) * 2 * cache_size
            BY <2>1, <3>1, <3>2, <3>3, <3>4, <3>5
        <3> QED
            BY <1>0, <2>1, <3>6, FS_EmptySet DEF HoardBound, Thread
    <2>5. IdleStacksAreEmpty' /\ PeakIsHighest'
        BY <1>0, <2>1 DEF IdleStacksAreEmpty, PeakIsHighest, Thread
    <2> QED
        BY <2>2, <2>3, <2>4, <2>5 DEF IInv
<1>8. CASE UNCHANGED vars
    BY <1>0, <1>8
    DEF vars, IInv, TypeOK, Active, EachNodeInOnePlace, Private, HoardBound,
        IdleStacksAreEmpty, PeakIsHighest
<1> QED
    BY <1>1, <1>2, <1>3, <1>4, <1>5, <1>6, <1>7, <1>8 DEF Next

LEMMA IInvHolds == Spec => []IInv
<1>1. Init => IInv
    BY InitIInv
<1>2. IInv /\ [Next]_vars => IInv'
    BY StepIInv
<1> QED
    BY <1>1, <1>2, PTL DEF Spec

\* Every stack is one of nodes, and a worker that allocates is one that runs.
THEOREM TypeCorrect == Spec => []TypeOK
<1>1. IInv => TypeOK
    BY DEF IInv
<1> QED
    BY <1>1, IInvHolds, PTL

\* However many workers refill from the shared stack and give back to it, a
\* node is never in two places and never in none: no two threads are given the
\* same node (allocator.c, node_allocator.c).
THEOREM NodesAreInOnePlace == Spec => []EachNodeInOnePlace
<1>1. IInv => EachNodeInOnePlace
    BY DEF IInv
<1> QED
    BY <1>1, IInvHolds, PTL

\* No private stack, and no destroyed worker, ever withholds more than twice
\* NODE_ALLOCATOR_CACHE_SIZE nodes from the others.
THEOREM HoardIsBounded == Spec => []HoardBound
<1>1. IInv => HoardBound
    BY DEF IInv
<1> QED
    BY <1>1, IInvHolds, PTL

-----------------------------------------------------------------------------
(* Growth.                                                                 *)

\* A worker that finds no node sees all nodes in use, stranded or hoarded by
\* the others.
LEMMA NoneMeansHoarded ==
    ASSUME IInv, Worker # {}, NEW w \in Thread, AllocateNone(w)
    PROVE  node_count <= Cardinality(in_use) + Cardinality(stranded) + OthersHoard
<1> USE AllocatorAssumption
<1>0. /\ TypeOK /\ EachNodeInOnePlace /\ HoardBound /\ IdleStacksAreEmpty
      /\ w \in Active /\ shared = {} /\ free_node_stack[w] = {}
    BY DEF IInv, AllocateNone, NothingShared
<1> DEFINE others == UNION {free_node_stack[v] : v \in Worker \ {w}}
           mine == free_node_stack[Loader]
<1>1. /\ Cardinality(Worker) \in Nat /\ Cardinality(Worker) >= 1
      /\ IsFiniteSet(Worker \ {w})
      /\ w \in Worker => Cardinality(Worker \ {w}) = Cardinality(Worker) - 1
    <2>1. Cardinality(Worker) # 0
        BY FS_EmptySet
    <2> QED
        BY <2>1, FS_CardinalityType, FS_RemoveElement
<1>2. /\ IsFiniteSet(mine) /\ Cardinality(mine) \in Nat
      /\ Cardinality(mine) <= cache_size - 1
    BY <1>0, PlacesAreFinite DEF HoardBound, Thread
<1>3. /\ IsFiniteSet(others) /\ Cardinality(others) \in Nat
      /\ Cardinality(others) <= (Cardinality(Worker) - 1) * (2 * cache_size)
    <2>1. CASE w \in Worker
        <3>1. /\ \A v \in Worker \ {w} : /\ IsFiniteSet(free_node_stack[v])
                                         /\ Cardinality(free_node_stack[v]) <= 2 * cache_size
              /\ 2 * cache_size \in Nat
            BY <1>0, PlacesAreFinite DEF HoardBound, Thread
        <3>2. /\ IsFiniteSet(others)
              /\ Cardinality(others) <= Cardinality(Worker \ {w}) * (2 * cache_size)
            BY <1>1, <3>1, UnionBound
        <3> HIDE DEF others
        <3> QED
            BY <1>1, <2>1, <3>2, FS_CardinalityType
    <2>2. CASE w \notin Worker
        <3>1. others = {}
            <4>1. ~running
                BY <1>0, <2>2 DEF Active
            <4> QED
                BY <1>0, <4>1 DEF IdleStacksAreEmpty
        <3>2. (Cardinality(Worker) - 1) * (2 * cache_size) >= 0
            <4>1. /\ Cardinality(Worker) - 1 \in Nat
                  /\ 2 * cache_size \in Nat
                BY <1>1
            <4> QED
                BY <4>1
        <3> QED
            BY <3>1, <3>2, FS_EmptySet
    <2> QED
        BY <2>1, <2>2
<1>4. 1 .. node_count = (others \union mine) \union (in_use \union stranded)
    <2>1. Private = others \union mine
        BY <1>0 DEF Private, Thread
    <2> HIDE DEF others, mine
    <2> QED
        BY <1>0, <2>1 DEF EachNodeInOnePlace
<1> HIDE DEF others, mine
<1>5. /\ IsFiniteSet(others \union mine)
      /\ Cardinality(others \union mine) \in Nat
      /\ Cardinality(others \union mine) <= Cardinality(others) + Cardinality(mine)
    BY <1>2, <1>3, UnionCounts
<1>6. /\ IsFiniteSet(in_use \union stranded)
      /\ Cardinality(in_use \union stranded) \in Nat
      /\ Cardinality(in_use \union stranded) <= Cardinality(in_use) + Cardinality(stranded)
    BY PlacesAreFinite, UnionCounts
<1>7. Cardinality(1 .. node_count)
        <= Cardinality(others \union mine) + Cardinality(in_use \union stranded)
    BY <1>4, <1>5, <1>6, UnionCounts
<1>8. Cardinality(1 .. node_count) = node_count /\ node_count \in Nat
    BY <1>0, FS_Interval DEF TypeOK
<1>9. Cardinality(in_use) \in Nat /\ Cardinality(stranded) \in Nat
    BY PlacesAreFinite
<1> DEFINE hoard == (Cardinality(Worker) - 1) * (2 * cache_size)
<1>10. hoard \in Int
    BY <1>1
<1> HIDE DEF hoard
<1>11. OthersHoard = cache_size - 1 + hoard
    BY DEF OthersHoard, hoard
<1>12. Cardinality(others) <= hoard
    BY <1>3 DEF hoard
<1> QED
    BY <1>2, <1>3, <1>5, <1>6, <1>7, <1>8, <1>9, <1>10, <1>11, <1>12

LEMMA InitWanted == Worker # {} /\ Init => BatchesAreWanted
<1> SUFFICES ASSUME Worker # {}, Init
             PROVE  BatchesAreWanted
    OBVIOUS
<1> USE AllocatorAssumption
<1> DEFINE workers == Cardinality(Worker)
<1>1. workers \in Nat /\ workers >= 1
    BY FS_EmptySet, FS_CardinalityType
<1>2. /\ node_count = batch_size /\ peak = 0
      /\ Cardinality(looping) = 0 /\ Cardinality(stranded) = 0
    BY FS_EmptySet DEF Init
<1> HIDE DEF workers
<1>3. /\ (workers - 1) * (2 * cache_size) \in Nat
      /\ workers * batch_size >= batch_size
    <2>1. /\ workers - 1 \in Nat
          /\ 2 * cache_size \in Nat
          /\ (workers - 1) * batch_size \in Nat
        BY <1>1
    <2>2. workers * batch_size = (workers - 1) * batch_size + batch_size
        BY <1>1
    <2> QED
        BY <2>1, <2>2
<1> QED
    BY <1>1, <1>2, <1>3 DEF BatchesAreWanted, OthersHoard, workers

\* An action that makes no node and sends no worker to make a batch leaves the
\* account as it is.
LEMMA QuietKeepsWanted ==
    ASSUME IInv, BatchesAreWanted, Worker # {},
           node_count' = node_count, looping' = looping,
           peak' \in Nat, peak' >= peak,
           Cardinality(stranded') \in Nat, Cardinality(stranded') >= Cardinality(stranded)
    PROVE  BatchesAreWanted'
<1> USE AllocatorAssumption
<1> DEFINE pending == Cardinality(looping) * batch_size
           batches == Cardinality(Worker) * batch_size
<1>1. /\ pending \in Int /\ batches \in Int /\ OthersHoard \in Int
      /\ node_count \in Nat /\ peak \in Nat /\ Cardinality(stranded) \in Nat
    BY PlacesAreFinite DEF IInv, TypeOK, OthersHoard
<1>2. node_count + pending <= peak + Cardinality(stranded) + OthersHoard + batches
    BY DEF BatchesAreWanted
<1>3. BatchesAreWanted' <=>
         node_count + pending <= peak' + Cardinality(stranded') + OthersHoard + batches
    BY DEF BatchesAreWanted, OthersHoard
<1> HIDE DEF pending, batches
<1> QED
    BY <1>1, <1>2, <1>3

LEMMA StepWanted ==
    Worker # {} /\ IInv /\ BatchesAreWanted /\ [Next]_vars => BatchesAreWanted'
<1> SUFFICES ASSUME Worker # {}, IInv, BatchesAreWanted, [Next]_vars
             PROVE  BatchesAreWanted'
    OBVIOUS
<1> USE AllocatorAssumption
<1>0. /\ Cardinality(stranded) \in Nat /\ IsFiniteSet(stranded)
      /\ Cardinality(looping) \in Nat /\ IsFiniteSet(looping)
      /\ Cardinality(Worker) \in Nat
      /\ Cardinality(in_use) \in Nat
      /\ peak \in Nat /\ node_count \in Nat
      /\ OthersHoard \in Int
    BY PlacesAreFinite DEF IInv, TypeOK, OthersHoard
<1>1. ASSUME NEW w \in Thread, NEW n, NEW available, Use(w, n, available)
      PROVE  peak' \in Nat /\ peak' >= peak
    BY <1>0, <1>1 DEF Use
<1>2. ASSUME NEW w \in Thread, NEW n \in 1 .. node_count,
             AllocatePrivate(w, n) \/ AllocateShared(w, n) \/ Recycle(w, n)
      PROVE  BatchesAreWanted'
    <2>1. /\ node_count' = node_count /\ looping' = looping /\ stranded' = stranded
          /\ peak' \in Nat /\ peak' >= peak
        BY <1>0, <1>1, <1>2 DEF AllocatePrivate, AllocateShared, Recycle
    <2> QED
        BY <1>0, <2>1, QuietKeepsWanted
<1>3. ASSUME NEW w \in Thread, AllocateNone(w)
      PROVE  BatchesAreWanted'
    <2>1. /\ node_count' = node_count /\ stranded' = stranded /\ peak' = peak
          /\ looping' = looping \union {w}
        BY <1>3 DEF AllocateNone
    <2>2. node_count <= Cardinality(in_use) + Cardinality(stranded) + OthersHoard
        BY <1>3, NoneMeansHoarded
    <2>3. Cardinality(in_use) <= peak
        BY DEF IInv, PeakIsHighest
    <2>4. /\ Cardinality(looping') \in Nat
          /\ Cardinality(looping') <= Cardinality(Worker)
        <3>1. CASE running
            <4>1. looping' \subseteq Worker
                BY <1>3, <3>1 DEF AllocateNone, Active, IInv, TypeOK
            <4> QED
                BY <4>1, FS_Subset, FS_CardinalityType
        <3>2. CASE ~running
            <4>1. looping' \subseteq {Loader}
                BY <1>3, <3>2 DEF AllocateNone, Active, IInv, TypeOK
            <4>2. IsFiniteSet({Loader}) /\ Cardinality({Loader}) = 1
                BY FS_Singleton
            <4>3. Cardinality(looping') \in Nat /\ Cardinality(looping') <= 1
                BY <4>1, <4>2, FS_Subset, FS_CardinalityType
            <4>4. Cardinality(Worker) # 0
                BY FS_EmptySet
            <4> QED
                BY <1>0, <4>3, <4>4
        <3> QED
            BY <3>1, <3>2 DEF IInv, TypeOK
    <2>5. Cardinality(looping') * batch_size <= Cardinality(Worker) * batch_size
        <3>1. (Cardinality(Worker) - Cardinality(looping')) * batch_size \in Nat
            BY <1>0, <2>4
        <3>2. (Cardinality(Worker) - Cardinality(looping')) * batch_size
                = Cardinality(Worker) * batch_size - Cardinality(looping') * batch_size
            BY <1>0, <2>4
        <3> QED
            BY <1>0, <2>4, <3>1, <3>2
    <2> DEFINE pending == Cardinality(looping') * batch_size
               batches == Cardinality(Worker) * batch_size
    <2>6. pending \in Int /\ batches \in Int
        BY <1>0, <2>4
    <2>7. BatchesAreWanted' <=>
             node_count + pending <= peak + Cardinality(stranded) + OthersHoard + batches
        BY <2>1 DEF BatchesAreWanted, OthersHoard
    <2>8. pending <= batches
        BY <2>5
    <2> HIDE DEF pending, batches
    <2> QED
        BY <1>0, <2>2, <2>3, <2>6, <2>7, <2>8
<1>4. ASSUME NEW w \in Thread, PrepareBatch(w)
      PROVE  BatchesAreWanted'
    <2>1. /\ node_count' = node_count + batch_size
          /\ stranded' = stranded /\ peak' = peak
          /\ looping' = looping \ {w} /\ w \in looping
        BY <1>4 DEF PrepareBatch
    <2>2. Cardinality(looping') = Cardinality(looping) - 1
        BY <1>0, <2>1, FS_RemoveElement
    <2>3. node_count' + Cardinality(looping') * batch_size
             = node_count + Cardinality(looping) * batch_size
        BY <1>0, <2>1, <2>2
    <2> QED
        BY <2>1, <2>3 DEF BatchesAreWanted, OthersHoard
<1>5. CASE Run
    BY <1>0, <1>5, QuietKeepsWanted DEF Run
<1>6. CASE DestroyWorkers
    <2>1. /\ node_count' = node_count /\ looping' = looping /\ peak' = peak
          /\ stranded \subseteq stranded'
        BY <1>6 DEF DestroyWorkers
    <2>2. IsFiniteSet(stranded')
        <3>1. /\ stranded' \subseteq 1 .. node_count'
              /\ node_count' \in Nat
            BY StepIInv DEF IInv, TypeOK, EachNodeInOnePlace
        <3> QED
            BY <3>1, NodesAreFinite
    <2>3. /\ Cardinality(stranded') \in Nat
          /\ Cardinality(stranded') >= Cardinality(stranded)
        BY <2>1, <2>2, FS_Subset, FS_CardinalityType
    <2> QED
        BY <1>0, <2>1, <2>3, QuietKeepsWanted
<1>7. CASE UNCHANGED vars
    BY <1>0, <1>7, QuietKeepsWanted DEF vars
<1> QED
    BY <1>2, <1>3, <1>4, <1>5, <1>6, <1>7 DEF Next

\* The allocator never owns more nodes than the nets have needed at once, the
\* stranded ones, what the others can hoard, and one batch for every worker:
\* batches are made for want of nodes (node_allocator_allocate).
THEOREM GrowthIsBounded ==
    ASSUME Worker # {}
    PROVE  Spec => []GrowthBound
<1>1. Init => BatchesAreWanted
    BY InitWanted
<1>2. IInv /\ BatchesAreWanted /\ [Next]_vars => BatchesAreWanted'
    BY StepWanted
<1>3. IInv /\ BatchesAreWanted => GrowthBound
    <2> SUFFICES ASSUME IInv, BatchesAreWanted
                 PROVE  GrowthBound
        OBVIOUS
    <2>1. /\ Cardinality(looping) * batch_size \in Nat
          /\ node_count \in Nat
        BY PlacesAreFinite, AllocatorAssumption DEF IInv, TypeOK
    <2> DEFINE pending == Cardinality(looping) * batch_size
               hoard == (Cardinality(Worker) - 1) * (2 * cache_size)
               batches == Cardinality(Worker) * batch_size
    <2>2. /\ hoard \in Int /\ batches \in Int /\ peak \in Nat
          /\ Cardinality(stranded) \in Nat
          /\ cache_size \in Nat
        BY PlacesAreFinite, AllocatorAssumption DEF IInv, TypeOK
    <2>3. node_count + pending
            <= peak + Cardinality(stranded) + (cache_size - 1 + hoard) + batches
        BY DEF BatchesAreWanted, OthersHoard
    <2>4. GrowthBound <=>
             node_count <= peak + Cardinality(stranded) + cache_size - 1 + hoard + batches
        <3>1. (Cardinality(Worker) - 1) * 2 * cache_size = hoard
            BY PlacesAreFinite, AllocatorAssumption
        <3> HIDE DEF hoard
        <3> QED
            BY <3>1 DEF GrowthBound
    <2> HIDE DEF pending, hoard, batches
    <2>5. pending \in Nat
        BY <2>1 DEF pending
    <2> QED
        BY <2>1, <2>2, <2>3, <2>4, <2>5
<1> QED
    BY <1>1, <1>2, <1>3, IInvHolds, PTL DEF Spec
=============================================================================
