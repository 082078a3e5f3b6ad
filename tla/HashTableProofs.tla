--------------------------- MODULE HashTableProofs ---------------------------
(***************************************************************************)
(* The load of the hash table, and that it is a map: for every finite set  *)
(* of keys and every sequence of sizes that grow by at least two.          *)
(***************************************************************************)
EXTENDS HashTable, FiniteSetTheorems, SequenceTheorems, WellFoundedInduction, TLAPS

-----------------------------------------------------------------------------
(* The load.                                                               *)

\* LoadIsBounded is inductive once the index is known to stand for a size and
\* the length to be a number.
SizeIsKnown == prime_index \in DOMAIN Primes
LengthIsCounted == length \in Int
IInv == SizeIsKnown /\ LengthIsCounted /\ LoadIsBounded

\* Three quarters of a size, rounded down, are one more when the size grows by
\* two.
LEMMA GrowthMakesRoom ==
    ASSUME NEW m \in Nat, NEW n \in Nat, n >= m + 2
    PROVE  (m * 75) \div 100 + 1 <= (n * 75) \div 100
  <1>1. n * 75 >= m * 75 + 150
    OBVIOUS
  <1> QED  BY <1>1

\* Every size is positive.
LEMMA SizesAreNumbers ==
    ASSUME NEW i \in DOMAIN Primes
    PROVE  Primes[i] \in Nat \ {0}
  BY HashAssumption

\* The size that a table grows to has room for more.
LEMMA NextSizeIsLarger ==
    ASSUME NEW i \in DOMAIN Primes, i + 1 \in DOMAIN Primes
    PROVE  Primes[i + 1] >= Primes[i] + 2
  <1>1. DOMAIN Primes = 1 .. Len(Primes) /\ Len(Primes) \in Nat
    BY HashAssumption
  <1> QED  BY <1>1, HashAssumption

\* A new table has no load.
LEMMA InitLoad == Init => IInv
  <1> SUFFICES ASSUME Init PROVE IInv
    OBVIOUS
  <1>1. 1 \in DOMAIN Primes
    <2>1. Len(Primes) \in Nat /\ Len(Primes) # 0 /\ DOMAIN Primes = 1 .. Len(Primes)
      BY HashAssumption
    <2> QED  BY <2>1
  <1>2. 0 <= (Primes[1] * 75) \div 100
    <2>1. Primes[1] \in Nat /\ Primes[1] * 75 >= 0
      BY <1>1, SizesAreNumbers
    <2> QED  BY <2>1
  <1> QED
    BY <1>1, <1>2 DEF Init, IInv, SizeIsKnown, LengthIsCounted, LoadIsBounded, limit,
       LENGTH_REHASH_PERCENTAGE

\* A table that is not overloaded has room for one more; one that is gets the
\* room by growing.
LEMMA SetKeepsTheLoad ==
    ASSUME IInv, NEW k, NEW v, hash_set(k, v)
    PROVE  IInv'
  <1> DEFINE p == IF hash_is_overload THEN prime_index + 1 ELSE prime_index
  <1> USE DEF IInv, SizeIsKnown, LengthIsCounted, LoadIsBounded, limit,
              LENGTH_REHASH_PERCENTAGE
  <1>1. p \in DOMAIN Primes /\ prime_index' = p
    BY DEF hash_set
  <1>2. length' = length \/ length' = length + 1
    BY DEF hash_set
  <1>3. Primes[prime_index] \in Nat /\ Primes[p] \in Nat
    BY <1>1, SizesAreNumbers
  <1>4. CASE hash_is_overload
    <2>1. Primes[p] >= Primes[prime_index] + 2
      BY <1>1, <1>4, NextSizeIsLarger
    <2>2. (Primes[prime_index] * 75) \div 100 + 1 <= (Primes[p] * 75) \div 100
      BY <1>3, <2>1, GrowthMakesRoom
    <2> HIDE DEF p
    <2> QED  BY <1>1, <1>2, <1>3, <2>2
  <1>5. CASE ~hash_is_overload
    <2>1. p = prime_index /\ length < (Primes[prime_index] * 75) \div 100
      BY <1>3, <1>5 DEF hash_is_overload
    <2> HIDE DEF p
    <2> QED  BY <1>1, <1>2, <1>3, <2>1
  <1> QED  BY <1>4, <1>5

\* No call brings the load beyond the threshold.
LEMMA NextLoad == IInv /\ [Next]_hashVars => IInv'
  <1> SUFFICES ASSUME IInv, [Next]_hashVars PROVE IInv'
    OBVIOUS
  <1> USE DEF IInv, SizeIsKnown, LengthIsCounted, LoadIsBounded, limit
  <1>0. CASE UNCHANGED <<prime_index, length>>
    BY <1>0
  <1>1. ASSUME NEW k \in Key, Delete(k) PROVE IInv'
    <2>1. prime_index' = prime_index /\ (length' = length \/ length' = length - 1)
      BY <1>1 DEF Delete
    <2>2. (limit * LENGTH_REHASH_PERCENTAGE) \div 100 \in Int
      BY SizesAreNumbers DEF LENGTH_REHASH_PERCENTAGE
    <2> QED  BY <2>1, <2>2
  <1>2. ASSUME NEW k \in Key, NEW v \in Value, Set(k, v) \/ Put(k, v) PROVE IInv'
    <2>1. CASE hash_set(k, v)
      BY <2>1, SetKeepsTheLoad
    <2>2. CASE ~hash_set(k, v)
      BY <1>0, <1>2, <2>2 DEF Set, Put
    <2> QED  BY <2>1, <2>2
  <1>3. CASE Purge
    <2>1. prime_index' = 1 /\ length' = 0
      BY <1>3 DEF Purge
    <2>2. 1 \in DOMAIN Primes
      <3>1. Len(Primes) \in Nat /\ Len(Primes) # 0 /\ DOMAIN Primes = 1 .. Len(Primes)
        BY HashAssumption
      <3> QED  BY <3>1
    <2>3. 0 <= (Primes[1] * LENGTH_REHASH_PERCENTAGE) \div 100
      <3>1. Primes[1] \in Nat /\ Primes[1] * 75 >= 0
        BY <2>2, SizesAreNumbers
      <3> QED  BY <3>1 DEF LENGTH_REHASH_PERCENTAGE
    <2> QED  BY <2>1, <2>2, <2>3
  <1>4. CASE Ask \/ FirstEntry \/ NextEntry
    BY <1>0, <1>4 DEF Ask, FirstEntry, NextEntry, NextFrom, table
  <1>5. CASE UNCHANGED hashVars
    BY <1>0, <1>5 DEF hashVars, table
  <1> QED  BY <1>1, <1>2, <1>3, <1>4, <1>5 DEF Next

\* The table never holds more than three quarters of its size: hash_set grows
\* a table that has got there before it inserts, also when used_indexes_size
\* has fallen behind (hash_is_overload, hash_set, hash_delete, hash_purge).
THEOREM LoadStaysBounded == Spec => []LoadIsBounded
  <1>1. IInv => LoadIsBounded
    BY DEF IInv
  <1> QED  BY <1>1, InitLoad, NextLoad, PTL DEF Spec

-----------------------------------------------------------------------------
(* Chains.                                                                 *)

\* What a chain consists of.
Entry == [key : Key, value : Value]

\* No key is there twice.
Distinct(s) == \A i, j \in 1 .. Len(s) : s[i].key = s[j].key => i = j

\* The entries of a chain.
In(s) == {s[j] : j \in 1 .. Len(s)}

\* The keys from k on.
From(s, k) == {s[j].key : j \in {l \in 1 .. Len(s) : \E i \in 1 .. l : s[i].key = k}}

\* A chain is a function on its places.
LEMMA ChainIs ==
    ASSUME NEW s \in Seq(Entry)
    PROVE  /\ Len(s) \in Nat /\ DOMAIN s = 1 .. Len(s) /\ In(s) \subseteq Entry
           /\ \A j \in 1 .. Len(s) : s[j] \in Entry /\ s[j].key \in Key
<1>1. Len(s) \in Nat /\ DOMAIN s = 1 .. Len(s) /\ \A j \in 1 .. Len(s) : s[j] \in Entry
    OBVIOUS
<1>2. \A e \in Entry : e.key \in Key
    BY DEF Entry
<1>3. \A j \in 1 .. Len(s) : s[j].key \in Key
    BY <1>1, <1>2
<1>4. In(s) \subseteq Entry
    BY <1>1 DEF In
<1> QED
    BY <1>1, <1>3, <1>4

\* A new entry on top of a chain.
LEMMA OnTop ==
    ASSUME NEW s \in Seq(Entry), NEW e \in Entry
    PROVE  LET t == <<e>> \o s
           IN  /\ t \in Seq(Entry) /\ In(t) = In(s) \cup {e}
               /\ Distinct(s) /\ (\A d \in In(s) : d.key # e.key) => Distinct(t)
<1> DEFINE t == <<e>> \o s
<1>1. Len(s) \in Nat /\ \A j \in 1 .. Len(s) : s[j] \in Entry
    OBVIOUS
<1>2. t \in Seq(Entry) /\ Len(t) = Len(s) + 1 /\ t[1] = e
      /\ \A j \in 1 .. Len(s) : t[j + 1] = s[j]
    OBVIOUS
<1> HIDE DEF t
<1>3. \A j \in 1 .. Len(t) : j = 1 \/ (j - 1 \in 1 .. Len(s) /\ t[j] = s[j - 1])
    <2> SUFFICES ASSUME NEW j \in 1 .. Len(t), j # 1
                 PROVE  j - 1 \in 1 .. Len(s) /\ t[j] = s[j - 1]
        OBVIOUS
    <2>1. j - 1 \in 1 .. Len(s) /\ (j - 1) + 1 = j
        BY <1>1, <1>2
    <2> QED
        BY <1>2, <2>1
<1>4. In(t) = In(s) \cup {e}
    <2>1. In(t) \subseteq In(s) \cup {e}
        BY <1>2, <1>3 DEF In
    <2>2. \A j \in 1 .. Len(s) : j + 1 \in 1 .. Len(t)
        BY <1>1, <1>2
    <2>3. In(s) \subseteq In(t)
        BY <1>2, <2>2 DEF In
    <2>4. e \in In(t)
        BY <1>1, <1>2 DEF In
    <2> QED
        BY <2>1, <2>3, <2>4
<1>5. ASSUME Distinct(s), \A d \in In(s) : d.key # e.key PROVE Distinct(t)
    <2> SUFFICES ASSUME NEW i \in 1 .. Len(t), NEW j \in 1 .. Len(t), t[i].key = t[j].key
                 PROVE  i = j
        BY DEF Distinct
    <2>1. \A l \in 1 .. Len(s) : s[l].key # e.key
        BY <1>5 DEF In
    <2>2. (i = 1 /\ t[i] = e) \/ (i - 1 \in 1 .. Len(s) /\ t[i] = s[i - 1])
        BY <1>2, <1>3
    <2>3. (j = 1 /\ t[j] = e) \/ (j - 1 \in 1 .. Len(s) /\ t[j] = s[j - 1])
        BY <1>2, <1>3
    <2>4. i - 1 \in 1 .. Len(s) /\ j - 1 \in 1 .. Len(s) /\ s[i - 1].key = s[j - 1].key
          => i - 1 = j - 1
        BY <1>5 DEF Distinct
    <2> QED
        BY <2>1, <2>2, <2>3, <2>4
<1> QED
    BY <1>2, <1>4, <1>5 DEF t

\* Two chains one after the other.
LEMMA OneAfterTheOther ==
    ASSUME NEW s \in Seq(Entry), NEW u \in Seq(Entry)
    PROVE  LET t == s \o u
           IN  /\ t \in Seq(Entry) /\ In(t) = In(s) \cup In(u)
               /\ Distinct(s) /\ Distinct(u) /\ (\A d \in In(s), e \in In(u) : d.key # e.key)
                  => Distinct(t)
<1> DEFINE t == s \o u
           m == Len(s)
           n == Len(u)
<1>1. m \in Nat /\ n \in Nat
    OBVIOUS
<1>2. /\ t \in Seq(Entry) /\ Len(t) = m + n
      /\ \A j \in 1 .. m : t[j] = s[j]
      /\ \A j \in m + 1 .. m + n : t[j] = u[j - m]
    <2>1. t \in Seq(Entry) /\ Len(t) = m + n
        OBVIOUS
    <2>2. \A j \in 1 .. m + n : t[j] = IF j <= m THEN s[j] ELSE u[j - m]
        BY ConcatProperties
    <2> QED
        BY <1>1, <2>1, <2>2
<1> HIDE DEF t
<1>3. \A j \in 1 .. Len(t) : \/ j \in 1 .. m /\ t[j] = s[j]
                             \/ j - m \in 1 .. n /\ t[j] = u[j - m]
    BY <1>1, <1>2
<1>4. In(t) = In(s) \cup In(u)
    <2>1. In(t) \subseteq In(s) \cup In(u)
        BY <1>3 DEF In
    <2>2. In(s) \subseteq In(t)
        BY <1>1, <1>2 DEF In
    <2>3. \A j \in 1 .. n : m + j \in 1 .. Len(t) /\ t[m + j] = u[j]
        <3> SUFFICES ASSUME NEW j \in 1 .. n PROVE m + j \in 1 .. Len(t) /\ t[m + j] = u[j]
            OBVIOUS
        <3>1. m + j \in m + 1 .. m + n /\ (m + j) - m = j /\ m + j \in 1 .. Len(t)
            BY <1>1, <1>2
        <3> QED
            BY <1>2, <3>1
    <2>4. In(u) \subseteq In(t)
        BY <2>3 DEF In
    <2> QED
        BY <2>1, <2>2, <2>4
<1>5. ASSUME Distinct(s), Distinct(u), \A d \in In(s), e \in In(u) : d.key # e.key
      PROVE  Distinct(t)
    <2> SUFFICES ASSUME NEW i \in 1 .. Len(t), NEW j \in 1 .. Len(t), t[i].key = t[j].key
                 PROVE  i = j
        BY DEF Distinct
    <2>1. \A k \in 1 .. m, l \in 1 .. n : s[k].key # u[l].key
        BY <1>5 DEF In
    <2>2. \A k, l \in 1 .. m : s[k].key = s[l].key => k = l
        BY <1>5 DEF Distinct
    <2>3. \A k, l \in 1 .. n : u[k].key = u[l].key => k = l
        BY <1>5 DEF Distinct
    <2>4. (i \in 1 .. m /\ t[i] = s[i]) \/ (i - m \in 1 .. n /\ t[i] = u[i - m])
        BY <1>3
    <2>5. (j \in 1 .. m /\ t[j] = s[j]) \/ (j - m \in 1 .. n /\ t[j] = u[j - m])
        BY <1>3
    <2> HIDE DEF m, n
    <2> QED
        BY <1>1, <2>1, <2>2, <2>3, <2>4, <2>5
<1> QED
    BY <1>2, <1>4, <1>5 DEF t

\* A chain without the entry at one place.
LEMMA WithoutOne ==
    ASSUME NEW s \in Seq(Entry), Distinct(s), NEW p \in 1 .. Len(s)
    PROVE  LET t == RemoveAt(s, p)
           IN  /\ t \in Seq(Entry) /\ In(t) = In(s) \ {s[p]} /\ Distinct(t)
               /\ \A k \in Key : s[p].key \notin From(s, k) => From(t, k) = From(s, k)
<1> DEFINE t == RemoveAt(s, p)
           m == Len(s)
<1>1. m \in Nat /\ p \in 1 .. m /\ \A j \in 1 .. m : s[j] \in Entry
    OBVIOUS
<1>2. /\ t \in Seq(Entry) /\ Len(t) = m - 1
      /\ \A j \in 1 .. m - 1 : t[j] = IF j < p THEN s[j] ELSE s[j + 1]
    <2>1. t = SubSeq(s, 1, p - 1) \o SubSeq(s, p + 1, m)
        BY DEF RemoveAt
    <2>2. /\ SubSeq(s, 1, p - 1) \in Seq(Entry) /\ Len(SubSeq(s, 1, p - 1)) = p - 1
          /\ \A j \in 1 .. p - 1 : SubSeq(s, 1, p - 1)[j] = s[j]
        BY <1>1
    <2>3. /\ SubSeq(s, p + 1, m) \in Seq(Entry) /\ Len(SubSeq(s, p + 1, m)) = m - p
          /\ \A j \in 1 .. m - p : SubSeq(s, p + 1, m)[j] = s[p + j]
        BY <1>1
    <2>4. /\ t \in Seq(Entry) /\ Len(t) = m - 1
          /\ \A j \in 1 .. m - 1 :
                t[j] = IF j <= p - 1 THEN SubSeq(s, 1, p - 1)[j] ELSE SubSeq(s, p + 1, m)[j - (p - 1)]
        <3> DEFINE a == SubSeq(s, 1, p - 1)
                   b == SubSeq(s, p + 1, m)
        <3> HIDE DEF a, b
        <3>1. /\ a \o b \in Seq(Entry) /\ Len(a \o b) = Len(a) + Len(b)
              /\ \A j \in 1 .. Len(a) + Len(b) :
                    (a \o b)[j] = IF j <= Len(a) THEN a[j] ELSE b[j - Len(a)]
            BY <2>2, <2>3, ConcatProperties DEF a, b
        <3>2. t = a \o b
            BY <2>1 DEF a, b
        <3>3. Len(a) = p - 1 /\ Len(b) = m - p
            BY <2>2, <2>3 DEF a, b
        <3>4. (p - 1) + (m - p) = m - 1
            BY <1>1
        <3>5. /\ t \in Seq(Entry) /\ Len(t) = m - 1
              /\ \A j \in 1 .. m - 1 : t[j] = IF j <= p - 1 THEN a[j] ELSE b[j - (p - 1)]
            <4> HIDE DEF t, m
            <4> QED
                BY <3>1, <3>2, <3>3, <3>4
        <3> QED
            BY <3>5 DEF a, b
    <2>5. \A j \in 1 .. m - 1 : t[j] = IF j < p THEN s[j] ELSE s[j + 1]
        <3> SUFFICES ASSUME NEW j \in 1 .. m - 1 PROVE t[j] = IF j < p THEN s[j] ELSE s[j + 1]
            OBVIOUS
        <3>1. CASE j < p
            BY <1>1, <2>2, <2>4, <3>1
        <3>2. CASE ~(j < p)
            <4>1. j - (p - 1) \in 1 .. m - p /\ p + (j - (p - 1)) = j + 1 /\ ~(j <= p - 1)
                BY <1>1, <3>2
            <4> QED
                BY <2>3, <2>4, <3>2, <4>1
        <3> QED
            BY <3>1, <3>2
    <2> QED
        BY <2>4, <2>5
<1> HIDE DEF t, m
\* Where the entries of s are in t, and back.
<1> DEFINE To(j) == IF j < p THEN j ELSE j - 1
           Back(j) == IF j < p THEN j ELSE j + 1
<1>3. \A j \in 1 .. m - 1 : Back(j) \in 1 .. m /\ Back(j) # p /\ t[j] = s[Back(j)]
    BY <1>1, <1>2
<1>4. \A j \in 1 .. m : j # p => To(j) \in 1 .. m - 1 /\ t[To(j)] = s[j] /\ Back(To(j)) = j
    BY <1>1, <1>2
<1>5. \A i, j \in 1 .. m : s[i].key = s[j].key => i = j
    BY DEF Distinct, m
<1>6. Distinct(t)
    <2> SUFFICES ASSUME NEW i \in 1 .. m - 1, NEW j \in 1 .. m - 1, t[i].key = t[j].key
                 PROVE  i = j
        BY <1>2 DEF Distinct
    <2>1. s[Back(i)].key = s[Back(j)].key /\ Back(i) \in 1 .. m /\ Back(j) \in 1 .. m
        BY <1>3
    <2>2. Back(i) = Back(j)
        BY <1>5, <2>1
    <2> QED
        BY <1>1, <2>2
<1>7. In(s) = {s[j] : j \in 1 .. m} /\ In(t) = {t[j] : j \in 1 .. m - 1}
    BY <1>2 DEF In, m
<1>8. In(t) = In(s) \ {s[p]}
    <2>1. ASSUME NEW d \in In(t) PROVE d \in In(s) \ {s[p]}
        <3>1. PICK j \in 1 .. m - 1 : d = t[j]
            BY <1>7, <2>1
        <3>2. Back(j) \in 1 .. m /\ Back(j) # p /\ d = s[Back(j)]
            BY <1>3, <3>1
        <3>3. d # s[p]
            BY <1>1, <1>5, <3>2
        <3> QED
            BY <1>7, <3>2, <3>3
    <2>2. ASSUME NEW d \in In(s) \ {s[p]} PROVE d \in In(t)
        <3>1. PICK j \in 1 .. m : d = s[j]
            BY <1>7, <2>2
        <3>2. To(j) \in 1 .. m - 1 /\ t[To(j)] = d
            BY <1>4, <2>2, <3>1
        <3> QED
            BY <1>7, <3>2
    <2> QED
        BY <2>1, <2>2
<1>9. ASSUME NEW k \in Key, s[p].key \notin From(s, k) PROVE From(t, k) = From(s, k)
    <2>1. From(s, k) = {s[j].key : j \in {l \in 1 .. m : \E i \in 1 .. l : s[i].key = k}}
          /\ From(t, k) = {t[j].key : j \in {l \in 1 .. m - 1 : \E i \in 1 .. l : t[i].key = k}}
        BY <1>2 DEF From, m
    <2>2. ~ \E i \in 1 .. p : s[i].key = k
        BY <1>1, <1>9, <2>1
    <2>3. ASSUME NEW x \in From(s, k) PROVE x \in From(t, k)
        <3>1. PICK l \in 1 .. m : x = s[l].key /\ \E i \in 1 .. l : s[i].key = k
            BY <2>1, <2>3
        <3>2. PICK i \in 1 .. l : s[i].key = k
            BY <3>1
        <3>3. p < i /\ i \in 1 .. m /\ i <= l /\ l # p /\ i # p
            BY <1>1, <2>2, <3>2
        <3>4. To(l) \in 1 .. m - 1 /\ t[To(l)] = s[l] /\ t[To(i)] = s[i] /\ To(i) \in 1 .. To(l)
            BY <1>1, <1>4, <3>1, <3>2, <3>3
        <3> QED
            BY <2>1, <3>1, <3>2, <3>4
    <2>4. ASSUME NEW x \in From(t, k) PROVE x \in From(s, k)
        <3>1. PICK l \in 1 .. m - 1 : x = t[l].key /\ \E i \in 1 .. l : t[i].key = k
            BY <2>1, <2>4
        <3>2. PICK i \in 1 .. l : t[i].key = k
            BY <3>1
        <3>3. i \in 1 .. m - 1 /\ i <= l
            BY <1>1, <3>2
        <3>4. Back(l) \in 1 .. m /\ t[l] = s[Back(l)] /\ t[i] = s[Back(i)] /\ Back(i) \in 1 .. Back(l)
            BY <1>1, <1>3, <3>1, <3>3
        <3> QED
            BY <2>1, <3>1, <3>2, <3>4
    <2> QED
        BY <2>3, <2>4
<1> QED
    BY <1>2, <1>6, <1>8, <1>9 DEF t

\* t is the chain s with e at one place.
PutAt(s, p, e, t) ==
    t \in Seq(Entry) /\ Len(t) = Len(s) /\ \A j \in 1 .. Len(s) : t[j] = IF j = p THEN e ELSE s[j]

\* EXCEPT does it.
LEMMA ExceptPuts ==
    ASSUME NEW s \in Seq(Entry), NEW p \in 1 .. Len(s), NEW v \in Value
    PROVE  PutAt(s, p, [key |-> s[p].key, value |-> v], [s EXCEPT ![p] = [s[p] EXCEPT !.value = v]])
<1> DEFINE e == [s[p] EXCEPT !.value = v]
<1>1. s[p] \in Entry
    OBVIOUS
<1>2. e \in Entry /\ e = [key |-> s[p].key, value |-> v]
    BY <1>1 DEF Entry
<1> HIDE DEF e
<1>3. PutAt(s, p, e, [s EXCEPT ![p] = e])
    BY <1>2 DEF PutAt
<1> QED
    BY <1>2, <1>3 DEF e

\* A chain with another value at one place.
LEMMA OtherValue ==
    ASSUME NEW s \in Seq(Entry), Distinct(s), NEW p \in 1 .. Len(s),
           NEW e, e.key = s[p].key, NEW t, PutAt(s, p, e, t)
    PROVE  /\ t \in Seq(Entry) /\ Distinct(t) /\ In(t) = (In(s) \ {s[p]}) \cup {e}
           /\ \A k \in Key : From(t, k) = From(s, k)
<1>1. /\ t \in Seq(Entry) /\ Len(t) = Len(s)
      /\ \A j \in 1 .. Len(s) : t[j] = IF j = p THEN e ELSE s[j]
    BY DEF PutAt
<1>2. \A j \in 1 .. Len(s) : t[j].key = s[j].key
    BY <1>1
<1>3. Distinct(t)
    BY <1>1, <1>2 DEF Distinct
<1>4. In(t) = (In(s) \ {s[p]}) \cup {e}
    <2>1. \A j \in 1 .. Len(s) : s[j] = s[p] => j = p
        BY DEF Distinct
    <2> QED
        BY <1>1, <2>1 DEF In
<1>5. ASSUME NEW k \in Key PROVE From(t, k) = From(s, k)
    <2>1. Len(s) \in Nat
        OBVIOUS
    <2>2. \A l \in 1 .. Len(s) : (\E i \in 1 .. l : t[i].key = k) <=> \E i \in 1 .. l : s[i].key = k
        BY <1>2, <2>1
    <2>3. {l \in 1 .. Len(t) : \E i \in 1 .. l : t[i].key = k}
            = {l \in 1 .. Len(s) : \E i \in 1 .. l : s[i].key = k}
        BY <1>1, <2>2
    <2> QED
        BY <1>2, <2>3 DEF From
<1> QED
    BY <1>1, <1>3, <1>4, <1>5

\* The keys from the first one on are all, and those from the one behind another
\* are the same but for that other.
LEMMA FromOn ==
    ASSUME NEW s \in Seq(Entry), Distinct(s), NEW p \in 1 .. Len(s)
    PROVE  /\ From(s, s[1].key) = {e.key : e \in In(s)}
           /\ p < Len(s) => From(s, s[p + 1].key) = From(s, s[p].key) \ {s[p].key}
           /\ p = Len(s) => From(s, s[p].key) = {s[p].key}
           /\ s[p].key \in From(s, s[p].key)
           /\ From(s, s[p].key) = {s[j].key : j \in p .. Len(s)}
<1>1. Len(s) \in Nat /\ \A i, j \in 1 .. Len(s) : s[i].key = s[j].key => i = j
    BY DEF Distinct
<1>2. ASSUME NEW q \in 1 .. Len(s) PROVE From(s, s[q].key) = {s[j].key : j \in q .. Len(s)}
    <2>1. {l \in 1 .. Len(s) : \E i \in 1 .. l : s[i].key = s[q].key} = q .. Len(s)
        BY <1>1
    <2> QED
        BY <2>1, Zenon DEF From
<1>3. From(s, s[1].key) = {e.key : e \in In(s)}
    <2>1. 1 \in 1 .. Len(s)
        BY <1>1
    <2>2. From(s, s[1].key) = {s[j].key : j \in 1 .. Len(s)}
        BY <1>2, <2>1
    <2> QED
        BY <2>2 DEF In
<1>4. p < Len(s) => From(s, s[p + 1].key) = From(s, s[p].key) \ {s[p].key}
    <2> SUFFICES ASSUME p < Len(s) PROVE From(s, s[p + 1].key) = From(s, s[p].key) \ {s[p].key}
        OBVIOUS
    <2>1. p + 1 \in 1 .. Len(s)
        BY <1>1
    <2>2. From(s, s[p + 1].key) = {s[j].key : j \in p + 1 .. Len(s)}
        BY <1>2, <2>1
    <2>3. From(s, s[p].key) = {s[j].key : j \in p .. Len(s)}
        BY <1>2
    <2>4. \A j \in p + 1 .. Len(s) : j \in 1 .. Len(s) /\ j # p
        BY <1>1
    <2>5. \A j \in p + 1 .. Len(s) : s[j].key # s[p].key
        BY <1>1, <2>4
    <2>6. p .. Len(s) = (p + 1 .. Len(s)) \cup {p}
        BY <1>1
    <2> QED
        BY <2>2, <2>3, <2>5, <2>6
<1>5. p = Len(s) => From(s, s[p].key) = {s[p].key}
    <2>1. From(s, s[p].key) = {s[j].key : j \in p .. Len(s)}
        BY <1>2
    <2>2. p = Len(s) => p .. Len(s) = {p}
        BY <1>1
    <2> QED
        BY <2>1, <2>2
<1>6. s[p].key \in From(s, s[p].key)
    <2>1. From(s, s[p].key) = {s[j].key : j \in p .. Len(s)}
        BY <1>2
    <2>2. p \in p .. Len(s)
        BY <1>1
    <2> QED
        BY <2>1, <2>2
<1> QED
    BY <1>2, <1>3, <1>4, <1>5, <1>6

-----------------------------------------------------------------------------
(* Tables.                                                                 *)

\* A table of size p whose entries are where they are looked for, each key once.
TableFits(p, c) ==
    /\ p \in DOMAIN Primes /\ c \in [0 .. Primes[p] - 1 -> Seq(Entry)]
    /\ \A i \in 0 .. Primes[p] - 1 :
        Distinct(c[i]) /\ \A e \in In(c[i]) : hash_key_index(p, e.key) = i

\* What is in a table.
EntriesOf(c) == UNION {In(c[i]) : i \in DOMAIN c}

\* The keys of entries.
KeysOf(E) == {e.key : e \in E}

\* The value of a key among entries.
ValueOf(E, k) == (CHOOSE e \in E : e.key = k).value

\* The map that entries stand for.
MapOf(E) == [k \in KeysOf(E) |-> ValueOf(E, k)]

\* Every key has a bucket.
LEMMA IndexIs ==
    ASSUME NEW p \in DOMAIN Primes, NEW k \in Key
    PROVE  hash_key_index(p, k) \in 0 .. Primes[p] - 1
<1>1. k \in Nat /\ Primes[p] \in Nat \ {0}
    BY HashAssumption, SizesAreNumbers
<1> QED
    BY <1>1 DEF hash_key_index

\* The entries of a table, one for each key, are in the bucket of their key.
LEMMA EntriesAre ==
    ASSUME NEW p, NEW c, TableFits(p, c)
    PROVE  /\ EntriesOf(c) \subseteq Entry
           /\ \A e \in EntriesOf(c) : e.key \in Key /\ e \in In(c[hash_key_index(p, e.key)])
           /\ \A i \in 0 .. Primes[p] - 1 : In(c[i]) \subseteq EntriesOf(c)
           /\ \A d, e \in EntriesOf(c) : d.key = e.key => d = e
<1>1. DOMAIN c = 0 .. Primes[p] - 1 /\ \A i \in DOMAIN c : c[i] \in Seq(Entry)
    BY DEF TableFits
<1>2. \A i \in DOMAIN c : In(c[i]) \subseteq Entry
    BY <1>1, ChainIs
<1>3. \A e \in EntriesOf(c) : e \in In(c[hash_key_index(p, e.key)])
    BY <1>1 DEF EntriesOf, TableFits
<1>4. ASSUME NEW d \in EntriesOf(c), NEW e \in EntriesOf(c), d.key = e.key PROVE d = e
    <2>1. PICK i \in DOMAIN c : d \in In(c[i])
        BY DEF EntriesOf
    <2>2. e \in In(c[i]) /\ Distinct(c[i])
        BY <1>1, <1>3, <1>4, <2>1 DEF TableFits
    <2> QED
        BY <1>4, <2>1, <2>2 DEF In, Distinct
<1>5. \A e \in Entry : e.key \in Key
    BY DEF Entry
<1>6. EntriesOf(c) \subseteq Entry
    BY <1>2 DEF EntriesOf
<1>7. \A i \in 0 .. Primes[p] - 1 : In(c[i]) \subseteq EntriesOf(c)
    BY <1>1 DEF EntriesOf
<1> QED
    BY <1>3, <1>4, <1>5, <1>6, <1>7

\* The places of a bucket's chain at which a key is found: one if it is in the table.
LEMMA PlacesAre ==
    ASSUME NEW p, NEW c, TableFits(p, c), NEW k \in Key
    PROVE  LET s == c[hash_key_index(p, k)]
               P == {i \in DOMAIN s : s[i].key = k}
           IN  /\ s \in Seq(Entry) /\ Distinct(s) /\ DOMAIN s = 1 .. Len(s)
               /\ P # {} <=> k \in KeysOf(EntriesOf(c))
               /\ \A i \in P : P = {i} /\ s[i] \in EntriesOf(c)
                               /\ s[i].value = ValueOf(EntriesOf(c), k)
<1> DEFINE s == c[hash_key_index(p, k)]
           P == {i \in DOMAIN s : s[i].key = k}
           E == EntriesOf(c)
<1>1. hash_key_index(p, k) \in 0 .. Primes[p] - 1
    BY IndexIs DEF TableFits
<1>2. s \in Seq(Entry) /\ Distinct(s) /\ In(s) \subseteq E
    BY <1>1, EntriesAre DEF TableFits
<1>3. DOMAIN s = 1 .. Len(s)
    BY <1>2, ChainIs
<1>4. \A e \in E : e.key = k => e \in In(s)
    BY EntriesAre
<1>5. \A d, e \in E : d.key = e.key => d = e
    BY EntriesAre
<1> HIDE DEF s, E
<1>6. P # {} <=> k \in KeysOf(E)
    <2>1. \A i \in P : s[i] \in E /\ s[i].key = k
        BY <1>2, <1>3 DEF In
    <2>2. \A e \in E : e.key = k => \E i \in P : e = s[i]
        BY <1>3, <1>4 DEF In
    <2> HIDE DEF P
    <2> QED
        BY <2>1, <2>2 DEF KeysOf
<1>7. ASSUME NEW i \in P
      PROVE  P = {i} /\ s[i] \in E /\ s[i].value = ValueOf(E, k)
    <2>1. P = {i}
        BY <1>2, <1>3 DEF Distinct
    <2>2. s[i] \in E /\ s[i].key = k
        BY <1>2, <1>3 DEF In
    <2>3. (CHOOSE e \in E : e.key = k) = s[i]
        BY <1>5, <2>2
    <2> QED
        BY <2>1, <2>2, <2>3 DEF ValueOf
<1> QED
    BY <1>2, <1>3, <1>6, <1>7 DEF s, E

\* d is c with the chain s in bucket i.
Changed(p, c, i, s, d) ==
    /\ d \in [0 .. Primes[p] - 1 -> Seq(Entry)] /\ d[i] = s
    /\ \A j \in 0 .. Primes[p] - 1 : j # i => d[j] = c[j]

\* EXCEPT is such a change.
LEMMA ExceptChanges ==
    ASSUME NEW p, NEW c, TableFits(p, c), NEW i \in 0 .. Primes[p] - 1, NEW s \in Seq(Entry),
           NEW d, d = [c EXCEPT ![i] = s]
    PROVE  Changed(p, c, i, s, d)
BY DEF TableFits, Changed

\* A table with another chain in one bucket.
LEMMA OtherChain ==
    ASSUME NEW p, NEW c, TableFits(p, c), NEW i \in 0 .. Primes[p] - 1,
           NEW s \in Seq(Entry), Distinct(s), \A e \in In(s) : hash_key_index(p, e.key) = i,
           NEW d, Changed(p, c, i, s, d)
    PROVE  TableFits(p, d) /\ EntriesOf(d) = (EntriesOf(c) \ In(c[i])) \cup In(s)
<1>1. /\ DOMAIN c = 0 .. Primes[p] - 1 /\ d \in [0 .. Primes[p] - 1 -> Seq(Entry)]
      /\ DOMAIN d = DOMAIN c /\ d[i] = s /\ \A j \in DOMAIN c : j # i => d[j] = c[j]
    BY DEF TableFits, Changed
<1>2. TableFits(p, d)
    BY <1>1 DEF TableFits
<1>3. \A j \in DOMAIN c : j # i => In(c[j]) \intersect In(c[i]) = {}
    BY <1>1 DEF TableFits
<1>4. EntriesOf(d) = (EntriesOf(c) \ In(c[i])) \cup In(s)
    <2>1. \A e : e \in EntriesOf(d) <=> e \in In(s) \/ \E j \in DOMAIN c : j # i /\ e \in In(c[j])
        BY <1>1 DEF EntriesOf
    <2>2. \A e : e \in EntriesOf(c) <=> e \in In(c[i]) \/ \E j \in DOMAIN c : j # i /\ e \in In(c[j])
        BY <1>1 DEF EntriesOf
    <2> QED
        BY <1>3, <2>1, <2>2
<1> QED
    BY <1>2, <1>4

\* A table without entries.
LEMMA NoEntries ==
    ASSUME NEW p \in DOMAIN Primes
    PROVE  LET c == [i \in 0 .. Primes[p] - 1 |-> <<>>]
           IN  TableFits(p, c) /\ EntriesOf(c) = {}
<1> DEFINE c == [i \in 0 .. Primes[p] - 1 |-> <<>>]
<1>1. <<>> \in Seq(Entry) /\ Len(<<>>) = 0
    OBVIOUS
<1>2. In(<<>>) = {} /\ Distinct(<<>>)
    BY <1>1 DEF In, Distinct
<1> QED
    BY <1>1, <1>2 DEF TableFits, EntriesOf

\* A new key's entry on top of its chain.
LEMMA OneMore ==
    ASSUME NEW p, NEW c, TableFits(p, c), NEW e \in Entry, e.key \notin KeysOf(EntriesOf(c)),
           NEW d, LET i == hash_key_index(p, e.key) IN Changed(p, c, i, <<e>> \o c[i], d)
    PROVE  TableFits(p, d) /\ EntriesOf(d) = EntriesOf(c) \cup {e}
<1> DEFINE i == hash_key_index(p, e.key)
           s == <<e>> \o c[i]
<1>1. e.key \in Key /\ p \in DOMAIN Primes
    BY DEF Entry, TableFits
<1>2. i \in 0 .. Primes[p] - 1
    BY <1>1, IndexIs
<1>3. c[i] \in Seq(Entry) /\ Distinct(c[i]) /\ In(c[i]) \subseteq EntriesOf(c)
    BY <1>2, EntriesAre DEF TableFits
<1>4. \A x \in In(c[i]) : x.key # e.key
    BY <1>3 DEF KeysOf
<1>5. s \in Seq(Entry) /\ In(s) = In(c[i]) \cup {e} /\ Distinct(s)
    BY <1>3, <1>4, OnTop
<1>6. \A x \in In(s) : hash_key_index(p, x.key) = i
    BY <1>2, <1>5 DEF TableFits
<1>7. Changed(p, c, i, s, d)
    OBVIOUS
<1> HIDE DEF i, s
<1>8. TableFits(p, d) /\ EntriesOf(d) = (EntriesOf(c) \ In(c[i])) \cup In(s)
    BY <1>2, <1>5, <1>6, <1>7, OtherChain
<1> QED
    BY <1>3, <1>5, <1>8

-----------------------------------------------------------------------------
(* Growth.                                                                 *)

\* A property of 0 that goes from each number below k to the next holds up to k.
LEMMA Induct ==
    ASSUME NEW k \in Nat, NEW S, 0 \in S, \A i \in 0 .. k - 1 : i \in S => i + 1 \in S
    PROVE  0 .. k \subseteq S
<1> DEFINE T == {i \in 0 .. k : i \notin S}
<1> SUFFICES ASSUME T # {} PROVE FALSE
    OBVIOUS
<1>1. \E x \in T : \A y \in T : <<y, x>> \notin OpToRel(<, Nat)
    <2>1. T \subseteq Nat
        OBVIOUS
    <2> HIDE DEF T
    <2> QED
        BY <2>1, WFMin, NatLessThanWellFounded, Zenon
<1>2. PICK x \in T : \A y \in T : ~(y < x)
    <2>1. \A y \in T : y \in Nat
        OBVIOUS
    <2> HIDE DEF T
    <2> QED
        BY <1>1, <2>1, Zenon DEF OpToRel
<1>3. x - 1 \in 0 .. k - 1 /\ x - 1 \in S
    BY <1>2
<1> QED
    BY <1>2, <1>3

\* The chains of a sequence up to each, one after the other (FlattenSeq).
Joined(f, s, n) == f = [i \in 1 .. n |-> IF i = 1 THEN s[i] ELSE f[i - 1] \o s[i]]

\* There is a function like this.
LEMMA JoinedIs == ASSUME NEW s, NEW n \in Nat PROVE \E f : Joined(f, s, n)
<1> DEFINE S == {k \in 0 .. n : \E f : Joined(f, s, k)}
<1>1. 0 \in S
    <2>1. Joined([i \in 1 .. 0 |-> s], s, 0)
        BY DEF Joined
    <2> QED
        BY <2>1
<1>2. ASSUME NEW k \in 0 .. n - 1, k \in S PROVE k + 1 \in S
    <2>1. PICK f : Joined(f, s, k)
        BY <1>2
    <2> DEFINE last == IF k = 0 THEN s[1] ELSE f[k] \o s[k + 1]
               g == [i \in 1 .. k + 1 |-> IF i = k + 1 THEN last ELSE f[i]]
               h == [i \in 1 .. k + 1 |-> IF i = 1 THEN s[i] ELSE g[i - 1] \o s[i]]
    <2>2. \A i \in 1 .. k : f[i] = IF i = 1 THEN s[i] ELSE f[i - 1] \o s[i]
        BY <2>1 DEF Joined
    <2>3. g[k + 1] = last /\ \A i \in 1 .. k : g[i] = f[i]
        <3>1. k + 1 \in 1 .. k + 1 /\ \A i \in 1 .. k : i \in 1 .. k + 1 /\ i # k + 1
            OBVIOUS
        <3> HIDE DEF last
        <3> QED
            BY <3>1
    <2>4. ASSUME NEW i \in 1 .. k + 1 PROVE g[i] = h[i]
        <3>1. h[i] = IF i = 1 THEN s[i] ELSE g[i - 1] \o s[i]
            OBVIOUS
        <3>2. CASE i = 1
            <4> HIDE DEF g, h
            <4>1. k # 0 => 1 \in 1 .. k /\ f[1] = s[1]
                BY <2>2
            <4> QED
                BY <2>3, <3>1, <3>2, <4>1
        <3>3. CASE i # 1 /\ i \in 1 .. k
            <4>1. i - 1 \in 1 .. k
                BY <3>3
            <4> HIDE DEF g, h
            <4> QED
                BY <2>2, <2>3, <3>1, <3>3, <4>1
        <3>4. CASE i # 1 /\ i = k + 1
            <4>1. k \in 1 .. k /\ i - 1 = k /\ k # 0
                BY <3>4
            <4> HIDE DEF g, h
            <4> QED
                BY <2>3, <3>1, <3>4, <4>1
        <3> QED
            BY <3>2, <3>3, <3>4
    <2>5. g = h
        BY <2>4
    <2>6. Joined(g, s, k + 1)
        BY <2>5 DEF Joined
    <2> HIDE DEF g
    <2> QED
        BY <2>6
<1>3. 0 .. n \subseteq S
    <2> HIDE DEF S
    <2> QED
        BY <1>1, <1>2, Induct
<1> QED
    BY <1>3

\* All entries of a table, in the order of buckets and chains: each once.
LEMMA AllEntries ==
    ASSUME NEW p, NEW c, TableFits(p, c)
    PROVE  LET all == FlattenSeq([i \in 1 .. Primes[p] |-> c[i - 1]])
           IN  all \in Seq(Entry) /\ Distinct(all) /\ In(all) = EntriesOf(c)
<1> DEFINE n == Primes[p]
           s == [i \in 1 .. n |-> c[i - 1]]
           all == FlattenSeq(s)
           Rec(f) == Joined(f, s, n)
           f == CHOOSE g : Rec(g)
           Before(k) == UNION {In(c[i]) : i \in 0 .. k}
           Good(k) == f[k + 1] \in Seq(Entry) /\ Distinct(f[k + 1]) /\ In(f[k + 1]) = Before(k)
           S == {k \in 0 .. n - 1 : Good(k)}
<1>1. n \in Nat \ {0} /\ n - 1 \in Nat
    <2>1. n \in Nat \ {0}
        BY SizesAreNumbers DEF TableFits
    <2> HIDE DEF n
    <2> QED
        BY <2>1
<1>2. /\ \A i \in 0 .. n - 1 : c[i] \in Seq(Entry) /\ Distinct(c[i])
                               /\ \A e \in In(c[i]) : hash_key_index(p, e.key) = i
      /\ DOMAIN c = 0 .. n - 1
    BY DEF TableFits
<1> HIDE DEF n
<1>3. Len(s) = n /\ \A i \in 1 .. n : s[i] = c[i - 1]
    BY <1>1
<1>4. all = f[n]
    <2> HIDE DEF s
    <2> QED
        BY <1>1, <1>3 DEF FlattenSeq, Joined
<1> HIDE DEF s, all
<1>5. Rec(f)
    <2>1. \E g : Rec(g)
        BY <1>1, JoinedIs
    <2> HIDE DEF Rec
    <2> QED
        BY <2>1
<1> HIDE DEF f
<1>6. \A i \in 1 .. n : f[i] = IF i = 1 THEN s[i] ELSE f[i - 1] \o s[i]
    BY <1>5 DEF Joined
<1>7. 0 \in S
    <2>1. f[1] = c[0] /\ 0 \in 0 .. n - 1 /\ 0 .. 0 = {0}
        BY <1>1, <1>3, <1>6
    <2>2. Before(0) = In(c[0])
        BY <2>1
    <2> QED
        BY <1>2, <2>1, <2>2
<1>8. ASSUME NEW k \in 0 .. (n - 1) - 1, k \in S PROVE k + 1 \in S
    <2>1. k + 1 \in 0 .. n - 1 /\ k \in 0 .. n - 1 /\ (k + 1) + 1 \in 1 .. n
          /\ (k + 1) + 1 # 1 /\ ((k + 1) + 1) - 1 = k + 1
        BY <1>1, <1>8
    <2>2. f[(k + 1) + 1] = f[k + 1] \o c[k + 1]
        <3>1. f[(k + 1) + 1] = f[((k + 1) + 1) - 1] \o s[(k + 1) + 1]
            BY <1>6, <2>1
        <3>2. s[(k + 1) + 1] = c[((k + 1) + 1) - 1]
            BY <1>3, <2>1
        <3> QED
            BY <2>1, <3>1, <3>2
    <2>3. /\ f[k + 1] \in Seq(Entry) /\ Distinct(f[k + 1]) /\ In(f[k + 1]) = Before(k)
          /\ c[k + 1] \in Seq(Entry) /\ Distinct(c[k + 1])
        BY <1>2, <1>8, <2>1
    <2>4. \A d \in Before(k), e \in In(c[k + 1]) : d.key # e.key
        <3> SUFFICES ASSUME NEW d \in Before(k), NEW e \in In(c[k + 1]), d.key = e.key PROVE FALSE
            OBVIOUS
        <3>1. PICK i \in 0 .. k : d \in In(c[i])
            OBVIOUS
        <3>2. i \in 0 .. n - 1 /\ i # k + 1
            BY <1>1, <2>1
        <3>3. hash_key_index(p, d.key) = i /\ hash_key_index(p, e.key) = k + 1
            BY <1>2, <2>1, <3>1, <3>2
        <3> QED
            BY <3>2, <3>3
    <2>5. Before(k + 1) = Before(k) \cup In(c[k + 1])
        <3>1. 0 .. k + 1 = (0 .. k) \cup {k + 1}
            BY <2>1
        <3> QED
            BY <3>1
    <2> HIDE DEF Before
    <2>6. Good(k + 1)
        <3> DEFINE u == f[k + 1]
                   v == c[k + 1]
        <3> HIDE DEF u, v
        <3>1. /\ u \o v \in Seq(Entry) /\ In(u \o v) = In(u) \cup In(v)
              /\ Distinct(u) /\ Distinct(v) /\ (\A d \in In(u), e \in In(v) : d.key # e.key)
                 => Distinct(u \o v)
            BY <2>3, OneAfterTheOther DEF u, v
        <3>2. f[(k + 1) + 1] = u \o v
            BY <2>2 DEF u, v
        <3>3. Distinct(u \o v)
            BY <2>3, <2>4, <3>1 DEF u, v
        <3>4. In(u \o v) = Before(k + 1)
            BY <2>3, <2>5, <3>1 DEF u, v
        <3> QED
            BY <3>1, <3>2, <3>3, <3>4
    <2> QED
        BY <2>1, <2>6
<1>9. 0 .. n - 1 \subseteq S
    <2> HIDE DEF S
    <2> QED
        BY <1>1, <1>7, <1>8, Induct
<1>10. Good(n - 1) /\ (n - 1) + 1 = n
    <2>1. n - 1 \in 0 .. n - 1 /\ (n - 1) + 1 = n
        BY <1>1
    <2> QED
        BY <1>9, <2>1
<1>11. Before(n - 1) = EntriesOf(c)
    BY <1>2 DEF EntriesOf
<1> HIDE DEF Before
<1> QED
    BY <1>4, <1>10, <1>11 DEF all, s, n

\* A table that the first i of a sequence of entries were put into, for each i.
Moving(g, p, all, n) ==
    g = [i \in 0 .. n |->
            IF i = 0 THEN [j \in 0 .. Primes[p] - 1 |-> <<>>]
            ELSE [g[i - 1] EXCEPT ![hash_key_index(p, all[i].key)] = <<all[i]>> \o @]]

\* There is a function like this.
LEMMA MovingIs == ASSUME NEW p, NEW all, NEW n \in Nat PROVE \E g : Moving(g, p, all, n)
<1> DEFINE Put1(c, i) == [c EXCEPT ![hash_key_index(p, all[i].key)] = <<all[i]>> \o @]
           none == [j \in 0 .. Primes[p] - 1 |-> <<>>]
           Runs(g, k) == g = [i \in 0 .. k |-> IF i = 0 THEN none ELSE Put1(g[i - 1], i)]
           S == {k \in 0 .. n : \E g : Runs(g, k)}
<1>1. 0 \in S
    <2> DEFINE g == [i \in 0 .. 0 |-> none]
    <2>1. Runs(g, 0)
        <3> HIDE DEF none, Put1
        <3> QED
            OBVIOUS
    <2> HIDE DEF g, Runs
    <2> QED
        BY <2>1
<1>2. ASSUME NEW k \in 0 .. n - 1, k \in S PROVE k + 1 \in S
    <2>1. PICK f : Runs(f, k)
        BY <1>2
    <2> HIDE DEF none, Put1
    <2> DEFINE g == [i \in 0 .. k + 1 |-> IF i = k + 1 THEN Put1(f[k], i) ELSE f[i]]
               h == [i \in 0 .. k + 1 |-> IF i = 0 THEN none ELSE Put1(g[i - 1], i)]
    <2>2. \A i \in 0 .. k : f[i] = IF i = 0 THEN none ELSE Put1(f[i - 1], i)
        BY <2>1
    <2>3. g[k + 1] = Put1(f[k], k + 1) /\ \A i \in 0 .. k : g[i] = f[i]
        OBVIOUS
    <2>4. ASSUME NEW i \in 0 .. k + 1 PROVE g[i] = h[i]
        <3>1. h[i] = IF i = 0 THEN none ELSE Put1(g[i - 1], i)
            OBVIOUS
        <3>2. CASE i = 0
            <4>1. 0 \in 0 .. k
                OBVIOUS
            <4> HIDE DEF g, h
            <4> QED
                BY <2>2, <2>3, <3>1, <3>2, <4>1
        <3>3. CASE i # 0 /\ i \in 0 .. k
            <4>1. i - 1 \in 0 .. k
                BY <3>3
            <4> HIDE DEF g, h
            <4> QED
                BY <2>2, <2>3, <3>1, <3>3, <4>1
        <3>4. CASE i # 0 /\ i = k + 1
            <4>1. k \in 0 .. k /\ i - 1 = k
                BY <3>4
            <4> HIDE DEF g, h
            <4> QED
                BY <2>3, <3>1, <3>4, <4>1
        <3> QED
            BY <3>2, <3>3, <3>4
    <2>5. g = h
        BY <2>4
    <2>6. Runs(g, k + 1)
        BY <2>5
    <2> HIDE DEF g, Runs
    <2> QED
        BY <2>6
<1> HIDE DEF Runs
<1>3. 0 .. n \subseteq S
    <2> HIDE DEF S
    <2> QED
        BY <1>1, <1>2, Induct
<1>4. PICK g : Runs(g, n)
    BY <1>3
<1>5. Moving(g, p, all, n)
    BY <1>4 DEF Moving, Runs
<1> QED
    BY <1>5

\* hash_rehash keeps every entry, and finds the place of each.
LEMMA Growth ==
    ASSUME TableFits(prime_index, entries), NEW p \in DOMAIN Primes
    PROVE  TableFits(p, Rehashed(p)) /\ EntriesOf(Rehashed(p)) = EntriesOf(entries)
<1> DEFINE all == FlattenSeq([i \in 1 .. Primes[prime_index] |-> entries[i - 1]])
           n == Len(all)
           Rec(g) == Moving(g, p, all, n)
           g == CHOOSE h : Rec(h)
           First1(i) == {all[j] : j \in 1 .. i}
           S == {i \in 0 .. n : TableFits(p, g[i]) /\ EntriesOf(g[i]) = First1(i)}
<1>1. all \in Seq(Entry) /\ Distinct(all) /\ In(all) = EntriesOf(entries)
    BY AllEntries, Zenon
<1>2. Rehashed(p) = g[n]
    BY Zenon DEF Rehashed, Moving, limit
<1> HIDE DEF all
<1>3. n \in Nat /\ \A j \in 1 .. n : all[j] \in Entry
    BY <1>1
<1>4. Rec(g)
    <2>1. \E h : Rec(h)
        BY <1>3, MovingIs
    <2> HIDE DEF Rec
    <2> QED
        BY <2>1
<1> HIDE DEF g
<1>5. /\ g[0] = [j \in 0 .. Primes[p] - 1 |-> <<>>]
      /\ \A i \in 1 .. n :
            g[i] = [g[i - 1] EXCEPT ![hash_key_index(p, all[i].key)] = <<all[i]>> \o @]
    <2>1. \A i \in 0 .. n :
            g[i] = IF i = 0 THEN [j \in 0 .. Primes[p] - 1 |-> <<>>]
                   ELSE [g[i - 1] EXCEPT ![hash_key_index(p, all[i].key)] = <<all[i]>> \o @]
        BY <1>4 DEF Moving
    <2> HIDE DEF n
    <2>2. \A i \in 1 .. n : i \in 0 .. n /\ i # 0
        BY <1>3
    <2>3. 0 \in 0 .. n
        BY <1>3
    <2> QED
        BY <2>1, <2>2, <2>3
<1>6. 0 \in S
    <2>1. TableFits(p, g[0]) /\ EntriesOf(g[0]) = {}
        BY <1>5, NoEntries
    <2> QED
        BY <1>3, <2>1
<1>7. ASSUME NEW k \in 0 .. n - 1, k \in S PROVE k + 1 \in S
    <2> DEFINE e == all[k + 1]
    <2>1. k + 1 \in 1 .. n /\ (k + 1) - 1 = k /\ k + 1 \in 0 .. n /\ k \in Nat
        BY <1>3
    <2>2. TableFits(p, g[k]) /\ EntriesOf(g[k]) = First1(k) /\ e \in Entry
        BY <1>3, <1>7, <2>1
    <2>3. e.key \notin KeysOf(EntriesOf(g[k]))
        <3>1. \A j \in 1 .. k : j \in 1 .. n /\ j # k + 1
            BY <1>3, <2>1
        <3>2. \A j \in 1 .. k : all[j].key # e.key
            BY <1>1, <2>1, <3>1 DEF Distinct
        <3> QED
            BY <2>2, <3>2 DEF KeysOf
    <2>4. g[k + 1] = [g[k] EXCEPT ![hash_key_index(p, e.key)] = <<e>> \o @]
        BY <1>5, <2>1
    <2>5. /\ hash_key_index(p, e.key) \in 0 .. Primes[p] - 1
          /\ g[k][hash_key_index(p, e.key)] \in Seq(Entry)
        BY <2>2, IndexIs DEF Entry, TableFits
    <2>6. LET i == hash_key_index(p, e.key) IN Changed(p, g[k], i, <<e>> \o g[k][i], g[k + 1])
        <3> DEFINE i == hash_key_index(p, e.key)
                   t == <<e>> \o g[k][i]
        <3>1. t \in Seq(Entry)
            BY <2>2, <2>5
        <3>2. g[k + 1] = [g[k] EXCEPT ![i] = t]
            BY <2>4
        <3> HIDE DEF e, t, i
        <3>3. Changed(p, g[k], i, t, g[k + 1])
            BY <2>2, <2>5, <3>1, <3>2, ExceptChanges DEF i
        <3> QED
            BY <3>3 DEF i, t
    <2>7. First1(k + 1) = First1(k) \cup {e}
        <3>1. 1 .. k + 1 = (1 .. k) \cup {k + 1}
            BY <2>1
        <3> QED
            BY <3>1
    <2> HIDE DEF e, First1
    <2>8. TableFits(p, g[k + 1]) /\ EntriesOf(g[k + 1]) = EntriesOf(g[k]) \cup {e}
        BY <2>2, <2>3, <2>6, OneMore
    <2> QED
        BY <2>1, <2>2, <2>7, <2>8
<1>8. 0 .. n \subseteq S
    <2> HIDE DEF S
    <2> QED
        BY <1>3, <1>6, <1>7, Induct
<1>9. n \in S
    <2>1. n \in 0 .. n
        <3> HIDE DEF n
        <3> QED
            BY <1>3
    <2> HIDE DEF S
    <2> QED
        BY <1>8, <2>1
<1> QED
    BY <1>1, <1>2, <1>9 DEF In

-----------------------------------------------------------------------------
(* The map.                                                                *)

\* Every key of entries has the value of its entry.
LEMMA ValueIs ==
    ASSUME NEW E, \A d, e \in E : d.key = e.key => d = e, NEW e \in E
    PROVE  ValueOf(E, e.key) = e.value
<1>1. (CHOOSE d \in E : d.key = e.key) = e
    OBVIOUS
<1> QED
    BY <1>1 DEF ValueOf

\* Entries with one for a key, in the place of the one it had.
WithEntry(E, k, v) == {e \in E : e.key # k} \cup {[key |-> k, value |-> v]}

\* A key's entry binds it.
LEMMA MapBinds ==
    ASSUME NEW E, \A d, e \in E : d.key = e.key => d = e, NEW k, NEW v
    PROVE  /\ MapOf(WithEntry(E, k, v))
              = [x \in KeysOf(E) \cup {k} |-> IF x = k THEN v ELSE MapOf(E)[x]]
           /\ KeysOf(WithEntry(E, k, v)) = KeysOf(E) \cup {k}
<1> DEFINE F == WithEntry(E, k, v)
<1> DEFINE e1 == [key |-> k, value |-> v]
<1>1. e1.key = k /\ e1.value = v
    OBVIOUS
<1>2. e1 \in F /\ \A e \in F : e = e1 \/ (e \in E /\ e.key # k)
    BY DEF WithEntry
<1>3. \A e \in E : e.key # k => e \in F
    BY DEF WithEntry
<1> HIDE DEF e1, F
<1>4. \A d, e \in F : d.key = e.key => d = e
    BY <1>1, <1>2
<1>5. KeysOf(F) = KeysOf(E) \cup {k}
    BY <1>1, <1>2, <1>3 DEF KeysOf
<1>6. ValueOf(F, k) = v
    BY <1>1, <1>2, <1>4, ValueIs
<1>7. ASSUME NEW x \in KeysOf(E), x # k PROVE ValueOf(F, x) = ValueOf(E, x)
    <2>1. PICK e \in E : e.key = x
        BY DEF KeysOf
    <2>2. e \in F
        BY <1>3, <1>7, <2>1
    <2>3. ValueOf(E, x) = e.value
        BY <2>1, ValueIs
    <2>4. ValueOf(F, x) = e.value
        BY <1>4, <2>1, <2>2, ValueIs
    <2> QED
        BY <2>3, <2>4
<1>8. \A x \in KeysOf(E) \cup {k} :
        ValueOf(F, x) = IF x = k THEN v ELSE MapOf(E)[x]
    BY <1>6, <1>7 DEF MapOf
<1> QED
    BY <1>5, <1>8 DEF MapOf, F

\* Without its entry a key is not bound.
LEMMA MapForgets ==
    ASSUME NEW E, \A d, e \in E : d.key = e.key => d = e, NEW e \in E
    PROVE  /\ MapOf(E \ {e}) = [x \in KeysOf(E) \ {e.key} |-> MapOf(E)[x]]
           /\ KeysOf(E \ {e}) = KeysOf(E) \ {e.key}
<1> DEFINE F == E \ {e}
<1>1. \A d \in F : d \in E /\ d.key # e.key
    OBVIOUS
<1>2. \A d \in E : d.key # e.key => d \in F
    OBVIOUS
<1> HIDE DEF F
<1>3. KeysOf(F) = KeysOf(E) \ {e.key}
    BY <1>1, <1>2 DEF KeysOf
<1>4. ASSUME NEW x \in KeysOf(F) PROVE ValueOf(F, x) = MapOf(E)[x]
    <2>1. PICK d \in F : d.key = x
        BY DEF KeysOf
    <2>2. \A a, b \in F : a.key = b.key => a = b
        BY <1>1
    <2>3. ValueOf(F, x) = d.value
        BY <2>1, <2>2, ValueIs
    <2>4. ValueOf(E, x) = d.value
        BY <1>1, <2>1, ValueIs
    <2> QED
        BY <1>3, <2>3, <2>4 DEF MapOf
<1> QED
    BY <1>3, <1>4 DEF MapOf, F

\* What the table says of a key is what its entry says.
LEMMA Looked ==
    ASSUME TableFits(prime_index, entries), NEW k \in Key
    PROVE  LET E == EntriesOf(entries)
           IN  /\ hash_has(k) <=> k \in KeysOf(E)
               /\ hash_get(k) = IF k \in KeysOf(E) THEN ValueOf(E, k) ELSE "NULL"
               /\ Bucket(k) \in Seq(Entry) /\ Distinct(Bucket(k))
               /\ hash_has(k) => /\ Position(k) \in 1 .. Len(Bucket(k))
                                 /\ Bucket(k)[Position(k)].key = k
                                 /\ Bucket(k)[Position(k)] \in E
<1> DEFINE E == EntriesOf(entries)
<1>1. /\ Bucket(k) \in Seq(Entry) /\ Distinct(Bucket(k)) /\ DOMAIN Bucket(k) = 1 .. Len(Bucket(k))
      /\ Positions(k) # {} <=> k \in KeysOf(E)
      /\ \A i \in Positions(k) : /\ Positions(k) = {i} /\ Bucket(k)[i] \in E
                                 /\ Bucket(k)[i].value = ValueOf(E, k)
    BY PlacesAre DEF Positions, Bucket
<1>2. Positions(k) # {} => Position(k) \in Positions(k)
    BY DEF Position
<1>3. \A i \in Positions(k) : i \in DOMAIN Bucket(k) /\ Bucket(k)[i].key = k
    BY DEF Positions
<1> HIDE DEF E
<1>4. hash_has(k) <=> k \in KeysOf(E)
    BY <1>1 DEF hash_has
<1>5. hash_get(k) = IF k \in KeysOf(E) THEN ValueOf(E, k) ELSE "NULL"
    BY <1>1, <1>2 DEF hash_get, hash_has
<1> QED
    BY <1>1, <1>2, <1>3, <1>4, <1>5 DEF E, hash_has

\* What can be read off the chains.
LEMMA ChainedIs ==
    ASSUME TableFits(prime_index, entries)
    PROVE  Chained = EntriesOf(entries)
<1>1. \A i \in DOMAIN entries : {entries[i][j] : j \in DOMAIN entries[i]} = In(entries[i])
    <2> SUFFICES ASSUME NEW i \in DOMAIN entries
                 PROVE  {entries[i][j] : j \in DOMAIN entries[i]} = In(entries[i])
        OBVIOUS
    <2>1. entries[i] \in Seq(Entry)
        BY DEF TableFits
    <2>2. DOMAIN entries[i] = 1 .. Len(entries[i])
        BY <2>1
    <2> QED
        BY <2>2 DEF In
<1> QED
    BY <1>1 DEF Chained, EntriesOf

\* The table stands for the map of its entries.
LEMMA ContentsAre ==
    TableFits(prime_index, entries) => Contents = MapOf(EntriesOf(entries))
<1> SUFFICES ASSUME TableFits(prime_index, entries)
             PROVE  Contents = MapOf(EntriesOf(entries))
    OBVIOUS
<1>1. KeysOf(EntriesOf(entries)) \subseteq Key
    BY EntriesAre DEF KeysOf
<1>2. \A k \in KeysOf(EntriesOf(entries)) : hash_get(k) = ValueOf(EntriesOf(entries), k)
    BY <1>1, Looked
<1> QED
    BY <1>2, ChainedIs DEF Contents, MapOf, KeysOf

\* What an iteration has still to come by from a bucket and an entry on.
UnreadOf(p, c, index, entry) ==
    {k \in KeysOf(EntriesOf(c)) : hash_key_index(p, k) > index}
    \cup (IF entry = NoKey THEN {} ELSE From(c[hash_key_index(p, entry)], entry))

\* A cursor is in its bucket.
CursorFits(p, c, index, entry) ==
    /\ index \in 0 .. Primes[p] - 1
    /\ entry # NoKey => entry \in KeysOf(EntriesOf(c)) /\ hash_key_index(p, entry) = index

\* An iteration has passed over what it returned last.
IterationFits ==
    iterating =>
        /\ CursorFits(prime_index, entries, cursor_index, cursor_entry)
        /\ cursor_key \notin UnreadOf(prime_index, entries, cursor_index, cursor_entry)

\* The inductive invariant of the refinement.
MapInv ==
    /\ TableFits(prime_index, entries)
    /\ length = Cardinality(KeysOf(EntriesOf(entries)))
    /\ IterationFits

\* The buckets and the rest of a chain are what is unread.
LEMMA UnreadIs ==
    TableFits(prime_index, entries) /\ IterationFits
    => Unread = IF iterating THEN UnreadOf(prime_index, entries, cursor_index, cursor_entry) ELSE {}
<1> SUFFICES ASSUME TableFits(prime_index, entries), IterationFits, iterating
             PROVE  Unread = UnreadOf(prime_index, entries, cursor_index, cursor_entry)
    BY DEF Unread
<1> DEFINE E == EntriesOf(entries)
           later == {e.key : e \in UNION {{entries[i][j] : j \in DOMAIN entries[i]} :
                                   i \in cursor_index + 1 .. limit - 1}}
<1>1. CursorFits(prime_index, entries, cursor_index, cursor_entry) /\ limit \in Nat
    BY SizesAreNumbers DEF IterationFits, TableFits, limit
<1>2. /\ cursor_index \in 0 .. limit - 1
      /\ cursor_entry # NoKey => cursor_entry \in KeysOf(E)
    BY <1>1 DEF CursorFits, limit
<1>3. \A i \in 0 .. limit - 1 : {entries[i][j] : j \in DOMAIN entries[i]} = In(entries[i])
    <2> SUFFICES ASSUME NEW i \in 0 .. limit - 1
                 PROVE  {entries[i][j] : j \in DOMAIN entries[i]} = In(entries[i])
        OBVIOUS
    <2>1. entries[i] \in Seq(Entry)
        BY DEF TableFits, limit
    <2>2. DOMAIN entries[i] = 1 .. Len(entries[i])
        BY <2>1
    <2> QED
        BY <2>2 DEF In
<1>4. later = {k \in KeysOf(E) : hash_key_index(prime_index, k) > cursor_index}
    <2>1. \A i \in cursor_index + 1 .. limit - 1 : i \in 0 .. limit - 1 /\ i > cursor_index
        BY <1>1, <1>2
    <2>2. ASSUME NEW k \in later
          PROVE  k \in KeysOf(E) /\ hash_key_index(prime_index, k) > cursor_index
        <3>0. PICK i \in cursor_index + 1 .. limit - 1 :
                \E e \in {entries[i][j] : j \in DOMAIN entries[i]} : k = e.key
            BY <2>2
        <3>1. PICK e \in {entries[i][j] : j \in DOMAIN entries[i]} : k = e.key
            BY <3>0
        <3>2. e \in In(entries[i]) /\ i \in 0 .. limit - 1 /\ i > cursor_index
            BY <1>3, <2>1, <3>1
        <3>3. e \in E /\ hash_key_index(prime_index, e.key) = i
            BY <3>2, EntriesAre DEF TableFits, limit
        <3> QED
            BY <3>1, <3>2, <3>3 DEF KeysOf
    <2>3. ASSUME NEW k \in KeysOf(E), hash_key_index(prime_index, k) > cursor_index
          PROVE  k \in later
        <3>1. PICK e \in E : e.key = k
            BY DEF KeysOf
        <3> DEFINE i == hash_key_index(prime_index, k)
        <3>2. k \in Key /\ e \in In(entries[i])
            BY <3>1, EntriesAre
        <3>3. i \in 0 .. limit - 1
            BY <3>2, IndexIs DEF limit, TableFits
        <3>4. i \in cursor_index + 1 .. limit - 1
            BY <1>1, <1>2, <2>3, <3>3
        <3>5. e \in {entries[i][j] : j \in DOMAIN entries[i]}
            BY <1>3, <3>2, <3>3
        <3> QED
            BY <3>1, <3>4, <3>5
    <2> QED
        BY <2>2, <2>3
<1>5. ASSUME cursor_entry # NoKey
      PROVE  {Bucket(cursor_entry)[j].key : j \in Position(cursor_entry) .. Len(Bucket(cursor_entry))}
             = From(entries[hash_key_index(prime_index, cursor_entry)], cursor_entry)
    <2>1. cursor_entry \in Key
        BY <1>2, <1>5, EntriesAre DEF KeysOf
    <2>2. /\ Bucket(cursor_entry) \in Seq(Entry) /\ Distinct(Bucket(cursor_entry))
          /\ Position(cursor_entry) \in 1 .. Len(Bucket(cursor_entry))
          /\ Bucket(cursor_entry)[Position(cursor_entry)].key = cursor_entry
        BY <1>2, <1>5, <2>1, Looked
    <2>3. {Bucket(cursor_entry)[j].key : j \in Position(cursor_entry) .. Len(Bucket(cursor_entry))}
          = From(Bucket(cursor_entry), cursor_entry)
        BY <2>2, FromOn
    <2> QED
        BY <2>3 DEF Bucket
<1> HIDE DEF later
<1> QED
    BY <1>4, <1>5 DEF Unread, UnreadOf, later

\* Both hold after a step, too.
LEMMA After ==
    /\ TableFits(prime_index', entries') => Contents' = MapOf(EntriesOf(entries'))
    /\ TableFits(prime_index', entries') /\ IterationFits'
       => Unread' = IF iterating'
                    THEN UnreadOf(prime_index', entries', cursor_index', cursor_entry') ELSE {}
<1>1. (TableFits(prime_index, entries) => Contents = MapOf(EntriesOf(entries)))'
    BY ContentsAre, PTL
<1>2. (TableFits(prime_index, entries) /\ IterationFits
       => Unread = IF iterating THEN UnreadOf(prime_index, entries, cursor_index, cursor_entry)
                   ELSE {})'
    BY UnreadIs, PTL
<1> QED
    BY <1>1, <1>2

-----------------------------------------------------------------------------
(* The steps of the table are steps of the map.                            *)

\* The map's modules count and restrict as the table's do.
LEMMA SameCounting == \A S : Map!Cardinality(S) = Cardinality(S)
BY DEF Map!Cardinality, Cardinality

LEMMA SameRestriction == \A f, S : Map!Restrict(f, S) = Restrict(f, S)
BY DEF Map!Restrict, Restrict

\* What the calls go by: the entries now.
Now == EntriesOf(entries)

\* The keys are counted.
LEMMA KeysAre ==
    ASSUME NEW p, NEW c, TableFits(p, c)
    PROVE  LET K == KeysOf(EntriesOf(c))
           IN  /\ K \subseteq Key /\ Cardinality(K) \in Nat /\ Cardinality(Key) \in Nat
               /\ \A k \in Key : k \notin K => /\ Cardinality(K \cup {k}) = Cardinality(K) + 1
                                               /\ Cardinality(K) < Cardinality(Key)
               /\ \A k \in K : Cardinality(K \ {k}) = Cardinality(K) - 1
<1> DEFINE K == KeysOf(EntriesOf(c))
<1>1. K \subseteq Key /\ IsFiniteSet(Key)
    BY EntriesAre, HashAssumption DEF KeysOf
<1> HIDE DEF K
<1>2. IsFiniteSet(K) /\ Cardinality(K) <= Cardinality(Key) /\ (Cardinality(Key) = Cardinality(K) => Key = K)
    BY <1>1, FS_Subset
<1>3. Cardinality(K) \in Nat /\ Cardinality(Key) \in Nat
    BY <1>1, <1>2, FS_CardinalityType
<1>4. \A k \in Key : k \notin K => /\ Cardinality(K \cup {k}) = Cardinality(K) + 1
                                   /\ Cardinality(K) < Cardinality(Key)
    <2> SUFFICES ASSUME NEW k \in Key, k \notin K
                 PROVE  /\ Cardinality(K \cup {k}) = Cardinality(K) + 1
                        /\ Cardinality(K) < Cardinality(Key)
        OBVIOUS
    <2>1. Cardinality(K \cup {k}) = Cardinality(K) + 1
        BY <1>2, FS_AddElement
    <2>2. Cardinality(Key) # Cardinality(K)
        BY <1>2
    <2> QED
        BY <1>2, <1>3, <2>1, <2>2
<1>5. \A k \in K : Cardinality(K \ {k}) = Cardinality(K) - 1
    BY <1>2, FS_RemoveElement
<1> QED
    BY <1>1, <1>3, <1>4, <1>5 DEF K

\* What the map says before a step.
LEMMA Before ==
    ASSUME MapInv
    PROVE  /\ Contents = MapOf(Now) /\ DOMAIN Contents = KeysOf(Now)
           /\ Unread = IF iterating
                       THEN UnreadOf(prime_index, entries, cursor_index, cursor_entry) ELSE {}
           /\ \A k \in Key : /\ Map!Has(k) <=> hash_has(k)
                             /\ Map!Has(k) <=> k \in KeysOf(Now)
                             /\ Map!Get(k) = hash_get(k)
<1>1. Contents = MapOf(Now)
    BY ContentsAre DEF MapInv, Now
<1>2. DOMAIN Contents = KeysOf(Now)
    BY <1>1 DEF MapOf
<1>3. \A k \in KeysOf(Now) : Contents[k] = ValueOf(Now, k)
    BY <1>1 DEF MapOf
<1>4. ASSUME NEW k \in Key
      PROVE  /\ hash_has(k) <=> k \in KeysOf(Now)
             /\ hash_get(k) = IF k \in KeysOf(Now) THEN ValueOf(Now, k) ELSE "NULL"
    BY Looked DEF MapInv, Now
<1> QED
    BY <1>1, <1>2, <1>3, <1>4, UnreadIs DEF MapInv, Map!Has, Map!Get

\* An iteration that has been given up leaves nothing to be said of it.
LEMMA Stopped ==
    ASSUME TableFits(prime_index', entries'), iterating' = FALSE,
           length' = Cardinality(KeysOf(EntriesOf(entries'))), cursor_key' = cursor_key
    PROVE  MapInv' /\ Map!Stop /\ Contents' = MapOf(EntriesOf(entries'))
<1>1. IterationFits'
    BY DEF IterationFits
<1>2. Unread' = {} /\ Contents' = MapOf(EntriesOf(entries'))
    BY <1>1, After
<1> QED
    BY <1>1, <1>2 DEF MapInv, Map!Stop

\* hash_set keeps the entries, grown or not, and adds one for a new key.
LEMMA SetAdds ==
    ASSUME MapInv, NEW k \in Key, NEW v \in Value, hash_set(k, v)
    PROVE  /\ TableFits(prime_index', entries')
           /\ EntriesOf(entries') = IF hash_has(k) THEN Now
                                    ELSE Now \cup {[key |-> k, value |-> v]}
           /\ length' = IF hash_has(k) THEN length ELSE length + 1
           /\ iterating' = FALSE /\ cursor_key' = cursor_key
<1> DEFINE p == IF hash_is_overload THEN prime_index + 1 ELSE prime_index
           chains == IF hash_is_overload THEN Rehashed(p) ELSE entries
           i == hash_key_index(p, k)
           e == [key |-> k, value |-> v]
           s == <<e>> \o chains[i]
<1>1. /\ p \in DOMAIN Primes /\ prime_index' = p
      /\ hash_has(k) => entries' = chains /\ length' = length
      /\ ~hash_has(k) => entries' = [chains EXCEPT ![i] = s] /\ length' = length + 1
      /\ iterating' = FALSE /\ cursor_key' = cursor_key
    BY DEF hash_set, cursor
<1>2. TableFits(p, chains) /\ EntriesOf(chains) = Now
    BY <1>1, Growth DEF MapInv, Now
<1> HIDE DEF p, chains
<1>3. e \in Entry /\ e.key = k
    BY DEF Entry
<1>4. i \in 0 .. Primes[p] - 1
    BY <1>1, IndexIs
<1>5. s \in Seq(Entry)
    BY <1>2, <1>3, <1>4 DEF TableFits
<1>6. hash_has(k) <=> k \in KeysOf(Now)
    BY Before
<1>7. CASE ~hash_has(k)
    <2> HIDE DEF i, s, e
    <2>1. Changed(p, chains, i, s, entries')
        BY <1>1, <1>2, <1>4, <1>5, <1>7, ExceptChanges
    <2>2. e.key \notin KeysOf(EntriesOf(chains))
        BY <1>2, <1>3, <1>6, <1>7
    <2>3. LET j == hash_key_index(p, e.key) IN Changed(p, chains, j, <<e>> \o chains[j], entries')
        BY <1>3, <2>1 DEF i, s
    <2>4. TableFits(p, entries') /\ EntriesOf(entries') = EntriesOf(chains) \cup {e}
        BY <1>2, <1>3, <2>2, <2>3, OneMore
    <2> QED
        BY <1>1, <1>2, <1>7, <2>4 DEF e
<1> QED
    BY <1>1, <1>2, <1>7

\* The entry of a new key is a binding.
LEMMA NewIsBound ==
    ASSUME MapInv, NEW k \in Key, NEW v \in Value, hash_set(k, v), ~hash_has(k)
    PROVE  /\ MapInv' /\ Map!Stop /\ Map!Bind(k, v)
           /\ Cardinality(DOMAIN Contents) < Cardinality(Key)
<1>1. /\ TableFits(prime_index', entries')
      /\ EntriesOf(entries') = Now \cup {[key |-> k, value |-> v]}
      /\ length' = length + 1 /\ iterating' = FALSE /\ cursor_key' = cursor_key
    BY SetAdds
<1>2. k \notin KeysOf(Now) /\ Contents = MapOf(Now) /\ DOMAIN Contents = KeysOf(Now)
    BY Before
<1>3. TableFits(prime_index, entries) /\ length = Cardinality(KeysOf(Now))
    BY DEF MapInv, Now
<1>4. {e \in Now : e.key # k} = Now
    BY <1>2 DEF KeysOf
<1>5. \A d, e \in Now : d.key = e.key => d = e
    BY <1>3, EntriesAre DEF Now
<1> DEFINE F == EntriesOf(entries')
<1>6. /\ MapOf(F) = [x \in KeysOf(Now) \cup {k} |-> IF x = k THEN v ELSE MapOf(Now)[x]]
      /\ KeysOf(F) = KeysOf(Now) \cup {k}
    <2>1. F = WithEntry(Now, k, v)
        BY <1>1, <1>4 DEF WithEntry
    <2>2. /\ MapOf(WithEntry(Now, k, v))
             = [x \in KeysOf(Now) \cup {k} |-> IF x = k THEN v ELSE MapOf(Now)[x]]
          /\ KeysOf(WithEntry(Now, k, v)) = KeysOf(Now) \cup {k}
        BY <1>5, MapBinds
    <2> QED
        BY <2>1, <2>2
<1>7. /\ Cardinality(KeysOf(Now) \cup {k}) = Cardinality(KeysOf(Now)) + 1
      /\ Cardinality(KeysOf(Now)) < Cardinality(Key)
    BY <1>2, <1>3, KeysAre DEF Now
<1>8. MapInv' /\ Map!Stop /\ Contents' = MapOf(EntriesOf(entries'))
    BY <1>1, <1>3, <1>6, <1>7, Stopped
<1> QED
    BY <1>2, <1>6, <1>7, <1>8 DEF Map!Bind

\* hash_set is Set.
LEMMA SetIsSet ==
    ASSUME MapInv, NEW k \in Key, NEW v \in Value, Set(k, v)
    PROVE  MapInv' /\ Map!Set(k, v)
<1>1. hash_set(k, v) /\ reply' = <<"hash_set", ~hash_has(k)>>
    BY DEF Set, Return
<1>2. (Map!Has(k) <=> hash_has(k)) /\ Contents = MapOf(Now)
    BY Before
<1>3. Map!Return("hash_set", ~Map!Has(k))
    <2>1. hash_has(k) = Map!Has(k)
        BY <1>2 DEF hash_has, Map!Has
    <2> QED
        BY <1>1, <2>1 DEF Map!Return
<1>4. CASE hash_has(k)
    <2>1. /\ TableFits(prime_index', entries') /\ EntriesOf(entries') = Now
          /\ length' = length /\ iterating' = FALSE /\ cursor_key' = cursor_key
        BY <1>1, <1>4, SetAdds
    <2>2. length' = Cardinality(KeysOf(EntriesOf(entries')))
        BY <2>1 DEF MapInv, Now
    <2>3. MapInv' /\ Map!Stop /\ Contents' = Contents
        BY <1>2, <2>1, <2>2, Stopped
    <2> QED
        BY <1>2, <1>3, <1>4, <2>3 DEF Map!Set
<1>5. CASE ~hash_has(k)
    <2>1. /\ MapInv' /\ Map!Stop /\ Map!Bind(k, v)
          /\ Cardinality(DOMAIN Contents) < Cardinality(Key)
        BY <1>1, <1>5, NewIsBound
    <2>2. ~Map!Has(k)
        BY <1>2, <1>5
    <2> QED
        BY <1>3, <2>1, <2>2, SameCounting DEF Map!Set
<1> QED
    BY <1>4, <1>5

\* A table that has kept the keys and the cursor, and what is behind it, goes on.
LEMMA GoesOn ==
    ASSUME MapInv, TableFits(prime_index', entries'),
           length' = Cardinality(KeysOf(EntriesOf(entries'))),
           UNCHANGED <<prime_index, cursor, iterating>>,
           iterating => /\ cursor_entry # NoKey => cursor_entry \in KeysOf(EntriesOf(entries'))
                        /\ UnreadOf(prime_index, entries', cursor_index, cursor_entry)
                           = UnreadOf(prime_index, entries, cursor_index, cursor_entry)
    PROVE  MapInv' /\ UNCHANGED Map!iteration /\ Contents' = MapOf(EntriesOf(entries'))
<1>1. /\ prime_index' = prime_index /\ cursor_index' = cursor_index
      /\ cursor_entry' = cursor_entry /\ cursor_key' = cursor_key /\ iterating' = iterating
    BY DEF cursor
<1>2. iterating => /\ CursorFits(prime_index, entries', cursor_index, cursor_entry)
                   /\ cursor_key \notin UnreadOf(prime_index, entries', cursor_index, cursor_entry)
    BY DEF MapInv, IterationFits, CursorFits
<1>3. IterationFits'
    BY <1>1, <1>2 DEF IterationFits
<1>4. Unread' = Unread /\ Contents' = MapOf(EntriesOf(entries'))
    BY <1>1, <1>3, After, Before
<1> QED
    BY <1>1, <1>3, <1>4 DEF MapInv, Map!iteration

\* hash_put leaves the table as it is but for the value of the key.
LEMMA PutIsPut ==
    ASSUME MapInv, NEW k \in Key, NEW v \in Value, Put(k, v)
    PROVE  MapInv' /\ Map!Put(k, v)
<1>1. Map!Return("hash_put", TRUE)
    BY DEF Put, Return, Map!Return
<1>2. /\ Map!Has(k) <=> hash_has(k)
      /\ Map!Has(k) <=> k \in KeysOf(Now)
      /\ Contents = MapOf(Now) /\ DOMAIN Contents = KeysOf(Now)
    BY Before
<1>3. CASE ~hash_has(k)
    <2>1. hash_set(k, v)
        BY <1>3 DEF Put
    <2>2. /\ MapInv' /\ Map!Stop /\ Map!Bind(k, v)
          /\ Cardinality(DOMAIN Contents) < Cardinality(Key)
        BY <1>3, <2>1, NewIsBound
    <2>3. ~Map!Has(k)
        BY <1>2, <1>3
    <2> QED
        BY <1>1, <2>2, <2>3, SameCounting DEF Map!Put
<1>4. CASE hash_has(k)
    <2> DEFINE i == hash_key_index(prime_index, k)
               s == entries[i]
               q == Position(k)
               e == [key |-> k, value |-> v]
               t == [s EXCEPT ![q] = [s[q] EXCEPT !.value = v]]
    <2>1. /\ entries' = [entries EXCEPT ![i][q].value = v]
          /\ UNCHANGED <<prime_index, length, cursor, iterating>>
        BY <1>4 DEF Put
    <2>2. /\ TableFits(prime_index, entries) /\ i \in 0 .. Primes[prime_index] - 1
          /\ s \in Seq(Entry) /\ Distinct(s) /\ q \in 1 .. Len(s) /\ s[q].key = k
        BY <1>4, Looked, IndexIs DEF MapInv, Bucket, TableFits
    <2>3. /\ t \in Seq(Entry) /\ Distinct(t) /\ e = [key |-> k, value |-> v]
          /\ In(t) = (In(s) \ {s[q]}) \cup {e}
          /\ \A x \in Key : From(t, x) = From(s, x)
        <3> HIDE DEF s, q, i
        <3>1. PutAt(s, q, e, t)
            BY <2>2, ExceptPuts
        <3>2. e.key = s[q].key
            BY <2>2
        <3> HIDE DEF t, e
        <3> QED
            BY <2>2, <3>1, <3>2, OtherValue DEF e
    <2>4. entries' = [entries EXCEPT ![i] = t]
        BY <2>1
    <2> HIDE DEF s, t, q, e, i
    <2>5. Changed(prime_index, entries, i, t, entries')
        BY <2>2, <2>3, <2>4, ExceptChanges
    <2>6. \A x \in In(t) : hash_key_index(prime_index, x.key) = i
        BY <2>2, <2>3 DEF TableFits, s, i
    <2>7. TableFits(prime_index, entries') /\ EntriesOf(entries') = (Now \ In(s)) \cup In(t)
        BY <2>2, <2>3, <2>5, <2>6, OtherChain DEF Now, s
    <2>8. s[q] \in In(s) /\ In(s) \subseteq Now /\ \A d, x \in Now : d.key = x.key => d = x
        BY <2>2, EntriesAre DEF Now, s, In
    <2>9. EntriesOf(entries') = WithEntry(Now, k, v)
        BY <2>2, <2>3, <2>7, <2>8 DEF WithEntry
    <2>10. /\ MapOf(WithEntry(Now, k, v))
              = [x \in KeysOf(Now) \cup {k} |-> IF x = k THEN v ELSE MapOf(Now)[x]]
           /\ KeysOf(WithEntry(Now, k, v)) = KeysOf(Now) \cup {k}
        BY <2>8, MapBinds
    <2>11. KeysOf(EntriesOf(entries')) = KeysOf(Now)
        BY <1>2, <1>4, <2>9, <2>10
    <2>12. \A x \in Key : From(entries'[hash_key_index(prime_index, x)], x)
                          = From(entries[hash_key_index(prime_index, x)], x)
        <3> SUFFICES ASSUME NEW x \in Key
                     PROVE  From(entries'[hash_key_index(prime_index, x)], x)
                            = From(entries[hash_key_index(prime_index, x)], x)
            OBVIOUS
        <3>1. hash_key_index(prime_index, x) \in 0 .. Primes[prime_index] - 1
            BY <2>2, IndexIs DEF TableFits
        <3>2. CASE hash_key_index(prime_index, x) = i
            BY <2>3, <2>5, <3>2 DEF Changed, s
        <3>3. CASE hash_key_index(prime_index, x) # i
            BY <2>5, <3>1, <3>3 DEF Changed
        <3> QED
            BY <3>2, <3>3
    <2>13. iterating =>
             /\ cursor_entry # NoKey => cursor_entry \in KeysOf(EntriesOf(entries'))
             /\ UnreadOf(prime_index, entries', cursor_index, cursor_entry)
                = UnreadOf(prime_index, entries, cursor_index, cursor_entry)
        <3>1. KeysOf(Now) \subseteq Key
            BY <2>2, KeysAre DEF Now
        <3> SUFFICES ASSUME iterating
                     PROVE  /\ cursor_entry # NoKey => cursor_entry \in KeysOf(EntriesOf(entries'))
                            /\ UnreadOf(prime_index, entries', cursor_index, cursor_entry)
                               = UnreadOf(prime_index, entries, cursor_index, cursor_entry)
            OBVIOUS
        <3>2. cursor_entry # NoKey => cursor_entry \in KeysOf(Now)
            BY DEF MapInv, IterationFits, CursorFits, Now
        <3>3. cursor_entry # NoKey =>
                From(entries'[hash_key_index(prime_index, cursor_entry)], cursor_entry)
                = From(entries[hash_key_index(prime_index, cursor_entry)], cursor_entry)
            BY <2>12, <3>1, <3>2
        <3> QED
            BY <2>11, <3>2, <3>3 DEF UnreadOf, Now
    <2>14. prime_index' = prime_index /\ length' = length /\ UNCHANGED <<prime_index, cursor, iterating>>
        BY <2>1
    <2>15. length' = Cardinality(KeysOf(EntriesOf(entries'))) /\ TableFits(prime_index', entries')
        BY <2>7, <2>11, <2>14 DEF MapInv, Now
    <2>16. MapInv' /\ UNCHANGED Map!iteration /\ Contents' = MapOf(EntriesOf(entries'))
        BY <2>13, <2>14, <2>15, GoesOn
    <2>17. Map!Bind(k, v)
        BY <1>2, <2>9, <2>10, <2>16 DEF Map!Bind
    <2> QED
        BY <1>1, <1>2, <1>4, <2>16, <2>17 DEF Map!Put
<1> QED
    BY <1>3, <1>4

\* hash_delete forgets the key, and leaves an iteration that has just returned
\* it as it is.
LEMMA DeleteIsDelete ==
    ASSUME MapInv, NEW k \in Key, Delete(k)
    PROVE  MapInv' /\ Map!Delete(k)
<1>1. reply' = <<"hash_delete", hash_has(k)>> /\ UNCHANGED <<prime_index, cursor>>
    BY DEF Delete, Return
<1>2. /\ Map!Has(k) <=> hash_has(k)
      /\ Map!Has(k) <=> k \in KeysOf(Now)
      /\ Contents = MapOf(Now) /\ DOMAIN Contents = KeysOf(Now)
      /\ Unread = IF iterating
                  THEN UnreadOf(prime_index, entries, cursor_index, cursor_entry) ELSE {}
    BY Before
<1>3. Map!Return("hash_delete", Map!Has(k))
    <2>1. hash_has(k) = Map!Has(k)
        BY <1>2 DEF hash_has, Map!Has
    <2> QED
        BY <1>1, <2>1 DEF Map!Return
<1>4. CASE ~hash_has(k)
    <2>1. UNCHANGED <<entries, length, iterating>>
        BY <1>4 DEF Delete
    <2>2. /\ TableFits(prime_index', entries') /\ length' = Cardinality(KeysOf(EntriesOf(entries')))
          /\ entries' = entries /\ UNCHANGED <<prime_index, cursor, iterating>>
        BY <1>1, <2>1 DEF MapInv
    <2>3. iterating =>
             /\ cursor_entry # NoKey => cursor_entry \in KeysOf(EntriesOf(entries'))
             /\ UnreadOf(prime_index, entries', cursor_index, cursor_entry)
                = UnreadOf(prime_index, entries, cursor_index, cursor_entry)
        BY <2>2 DEF MapInv, IterationFits, CursorFits
    <2>4. MapInv' /\ UNCHANGED Map!iteration /\ Contents' = MapOf(Now)
        BY <2>2, <2>3, GoesOn DEF Now
    <2>5. Restrict(Contents, DOMAIN Contents \ {k}) = MapOf(Now)
        BY <1>2, <1>4 DEF Restrict, MapOf
    <2> QED
        BY <1>2, <1>3, <1>4, <2>4, <2>5, SameRestriction DEF Map!Delete
<1>5. CASE hash_has(k)
    <2> DEFINE i == hash_key_index(prime_index, k)
               s == entries[i]
               q == Position(k)
               t == RemoveAt(s, q)
    <2>1. /\ entries' = [entries EXCEPT ![i] = t] /\ length' = length - 1
          /\ iterating' = (iterating /\ k = cursor_key /\ k # cursor_entry)
        BY <1>5 DEF Delete
    <2>2. /\ TableFits(prime_index, entries) /\ i \in 0 .. Primes[prime_index] - 1
          /\ s \in Seq(Entry) /\ Distinct(s) /\ q \in 1 .. Len(s) /\ s[q].key = k
        BY <1>5, Looked, IndexIs DEF MapInv, Bucket, TableFits
    <2>3. /\ t \in Seq(Entry) /\ Distinct(t) /\ In(t) = In(s) \ {s[q]}
          /\ \A x \in Key : s[q].key \notin From(s, x) => From(t, x) = From(s, x)
        BY <2>2, WithoutOne
    <2> HIDE DEF s, t, q, i
    <2>4. Changed(prime_index, entries, i, t, entries')
        BY <2>1, <2>2, <2>3, ExceptChanges
    <2>5. \A x \in In(t) : hash_key_index(prime_index, x.key) = i
        BY <2>2, <2>3 DEF TableFits, s, i
    <2>6. TableFits(prime_index, entries') /\ EntriesOf(entries') = (Now \ In(s)) \cup In(t)
        BY <2>2, <2>3, <2>4, <2>5, OtherChain DEF Now, s
    <2>7. s[q] \in In(s) /\ In(s) \subseteq Now /\ \A d, x \in Now : d.key = x.key => d = x
        BY <2>2, EntriesAre DEF Now, s, In
    <2>8. EntriesOf(entries') = Now \ {s[q]}
        BY <2>3, <2>6, <2>7
    <2> DEFINE F == EntriesOf(entries')
    <2>9. /\ MapOf(F) = [x \in KeysOf(Now) \ {k} |-> MapOf(Now)[x]]
          /\ KeysOf(F) = KeysOf(Now) \ {k}
        <3> DEFINE d == s[q]
        <3>1. d \in Now /\ d.key = k /\ F = Now \ {d}
            BY <2>2, <2>7, <2>8
        <3> HIDE DEF d
        <3>2. /\ MapOf(Now \ {d}) = [x \in KeysOf(Now) \ {d.key} |-> MapOf(Now)[x]]
              /\ KeysOf(Now \ {d}) = KeysOf(Now) \ {d.key}
            BY <2>7, <3>1, MapForgets
        <3> QED
            BY <3>1, <3>2
    <2>10. length' = Cardinality(KeysOf(EntriesOf(entries')))
        BY <1>2, <1>5, <2>1, <2>2, <2>9, KeysAre DEF MapInv, Now
    <2>11. TableFits(prime_index', entries') /\ cursor_key' = cursor_key
        BY <1>1, <2>6 DEF cursor
    <2>12. Restrict(Contents, DOMAIN Contents \ {k}) = MapOf(EntriesOf(entries'))
        BY <1>2, <2>9 DEF Restrict
    <2>13. CASE iterating /\ k = cursor_key
        <3>1. /\ CursorFits(prime_index, entries, cursor_index, cursor_entry)
              /\ k \notin UnreadOf(prime_index, entries, cursor_index, cursor_entry)
            BY <2>13 DEF MapInv, IterationFits
        <3>2. ~(hash_key_index(prime_index, k) > cursor_index)
            BY <1>2, <1>5, <3>1 DEF UnreadOf, Now
        <3>3. {x \in KeysOf(F) : hash_key_index(prime_index, x) > cursor_index}
              = {x \in KeysOf(Now) : hash_key_index(prime_index, x) > cursor_index}
            BY <2>9, <3>2
        <3>4. ASSUME cursor_entry # NoKey
              PROVE  /\ cursor_entry \in KeysOf(F)
                     /\ From(entries'[hash_key_index(prime_index, cursor_entry)], cursor_entry)
                        = From(entries[hash_key_index(prime_index, cursor_entry)], cursor_entry)
            <4> DEFINE j == hash_key_index(prime_index, cursor_entry)
            <4>1. cursor_entry \in KeysOf(Now) /\ cursor_entry \in Key
                BY <2>2, <3>1, <3>4, KeysAre DEF CursorFits, Now
            <4>2. k \notin From(entries[j], cursor_entry)
                BY <3>1, <3>4 DEF UnreadOf
            <4>3. /\ j \in 0 .. Primes[prime_index] - 1
                  /\ entries[j] \in Seq(Entry) /\ Distinct(entries[j])
                  /\ Position(cursor_entry) \in 1 .. Len(entries[j])
                  /\ entries[j][Position(cursor_entry)].key = cursor_entry
                BY <2>2, <4>1, Looked, IndexIs DEF Bucket, Now, TableFits
            <4>4. cursor_entry \in From(entries[j], cursor_entry)
                BY <4>3, FromOn
            <4>5. cursor_entry \in KeysOf(F)
                BY <2>9, <4>1, <4>2, <4>4
            <4>6. CASE j = i
                BY <2>2, <2>3, <2>4, <4>1, <4>2, <4>5, <4>6 DEF Changed, s
            <4>7. CASE j # i
                BY <2>4, <4>3, <4>5, <4>7 DEF Changed
            <4> QED
                BY <4>5, <4>6, <4>7
        <3>5. k # cursor_entry
            BY <2>9, <3>4, HashAssumption
        <3>6. UnreadOf(prime_index, entries', cursor_index, cursor_entry)
              = UnreadOf(prime_index, entries, cursor_index, cursor_entry)
            BY <3>3, <3>4 DEF UnreadOf, Now
        <3>7. UNCHANGED <<prime_index, cursor, iterating>>
            BY <1>1, <2>1, <2>13, <3>5
        <3>8. MapInv' /\ UNCHANGED Map!iteration /\ Contents' = MapOf(EntriesOf(entries'))
            BY <2>10, <2>11, <3>4, <3>6, <3>7, GoesOn
        <3> QED
            BY <1>2, <1>3, <1>5, <2>12, <2>13, <3>1, <3>8, SameRestriction DEF Map!Delete
    <2>14. CASE ~(iterating /\ k = cursor_key)
        <3>1. iterating' = FALSE
            BY <2>1, <2>14
        <3>2. MapInv' /\ Map!Stop /\ Contents' = MapOf(EntriesOf(entries'))
            BY <2>10, <2>11, <3>1, Stopped
        <3> QED
            BY <1>2, <1>3, <1>5, <2>12, <2>14, <3>2, SameRestriction DEF Map!Delete
    <2> QED
        BY <2>13, <2>14
<1> QED
    BY <1>4, <1>5

\* hash_purge leaves no key.
LEMMA PurgeIsPurge == ASSUME MapInv, Purge PROVE MapInv' /\ Map!Purge
<1> DEFINE c == [i \in 0 .. Primes[1] - 1 |-> <<>>]
<1>1. /\ prime_index' = 1 /\ entries' = c /\ length' = 0 /\ iterating' = FALSE
      /\ cursor_key' = cursor_key /\ reply' = <<"hash_purge", TRUE>>
    BY DEF Purge, Return
<1>2. 1 \in DOMAIN Primes
    <2>1. Len(Primes) \in Nat /\ Len(Primes) # 0 /\ DOMAIN Primes = 1 .. Len(Primes)
        BY HashAssumption
    <2> QED
        BY <2>1
<1>3. TableFits(1, c) /\ EntriesOf(c) = {}
    BY <1>2, NoEntries
<1> HIDE DEF c
<1>4. KeysOf({}) = {} /\ Cardinality({}) = 0
    BY FS_EmptySet DEF KeysOf
<1>5. MapInv' /\ Map!Stop /\ Contents' = MapOf({})
    BY <1>1, <1>3, <1>4, Stopped
<1>6. Restrict(Contents, {}) = MapOf({})
    BY <1>4 DEF Restrict, MapOf
<1> QED
    BY <1>1, <1>5, <1>6, SameRestriction DEF Map!Purge, Map!Return

\* hash_get and hash_length answer for the map.
LEMMA AskIsAsk == ASSUME MapInv, Ask PROVE MapInv' /\ Map!Ask
<1>1. UNCHANGED <<table, cursor, iterating>>
    BY DEF Ask
<1>2. /\ prime_index' = prime_index /\ entries' = entries /\ length' = length
      /\ cursor_index' = cursor_index /\ cursor_entry' = cursor_entry
      /\ cursor_key' = cursor_key /\ iterating' = iterating
    BY <1>1 DEF table, cursor
<1>3. MapInv' /\ UNCHANGED Map!iteration /\ Contents' = MapOf(EntriesOf(entries'))
    <2>1. /\ TableFits(prime_index', entries')
          /\ length' = Cardinality(KeysOf(EntriesOf(entries')))
          /\ UNCHANGED <<prime_index, cursor, iterating>>
          /\ iterating => (cursor_entry # NoKey => cursor_entry \in KeysOf(EntriesOf(entries')))
          /\ UnreadOf(prime_index, entries', cursor_index, cursor_entry)
             = UnreadOf(prime_index, entries, cursor_index, cursor_entry)
        BY <1>1, <1>2 DEF MapInv, IterationFits, CursorFits
    <2> QED
        BY <2>1, GoesOn
<1>4. /\ Contents' = Contents /\ length = Cardinality(DOMAIN Contents)
      /\ \A k \in Key : Map!Get(k) = hash_get(k)
    BY <1>2, <1>3, Before DEF MapInv, Now
<1>5. \/ \E k \in Key : Map!Return("hash_get", Map!Get(k))
      \/ Map!Return("hash_length", Map!Cardinality(DOMAIN Contents))
    <2>1. CASE \E k \in Key : Return("hash_get", hash_get(k))
        BY <1>4, <2>1 DEF Return, Map!Return
    <2>2. CASE Return("hash_length", length)
        BY <1>4, <2>2, SameCounting DEF Return, Map!Return
    <2> QED
        BY <2>1, <2>2 DEF Ask
<1> QED
    BY <1>3, <1>4, <1>5 DEF Map!Ask

\* The keys of a bucket.
LEMMA OfBucket ==
    ASSUME TableFits(prime_index, entries), NEW i \in 0 .. limit - 1
    PROVE  /\ {k \in KeysOf(Now) : hash_key_index(prime_index, k) = i} = KeysOf(In(entries[i]))
           /\ entries[i] # <<>> => /\ First(entries[i]) \in KeysOf(Now)
                                   /\ First(entries[i]) # NoKey
                                   /\ hash_key_index(prime_index, First(entries[i])) = i
                                   /\ From(entries[i], First(entries[i])) = KeysOf(In(entries[i]))
           /\ entries[i] = <<>> => KeysOf(In(entries[i])) = {} /\ First(entries[i]) = NoKey
<1> DEFINE s == entries[i]
<1>1. /\ s \in Seq(Entry) /\ Distinct(s) /\ In(s) \subseteq Now
      /\ \A e \in In(s) : hash_key_index(prime_index, e.key) = i
    BY EntriesAre DEF TableFits, limit, Now
<1>2. \A e \in Now : hash_key_index(prime_index, e.key) = i => e \in In(s)
    BY EntriesAre DEF Now
<1> HIDE DEF s
<1>3. {k \in KeysOf(Now) : hash_key_index(prime_index, k) = i} = KeysOf(In(s))
    BY <1>1, <1>2 DEF KeysOf
<1>4. s = <<>> => KeysOf(In(s)) = {} /\ First(s) = NoKey
    BY DEF First, KeysOf, In
<1>5. ASSUME s # <<>>
      PROVE  /\ First(s) \in KeysOf(Now) /\ First(s) # NoKey
             /\ hash_key_index(prime_index, First(s)) = i
             /\ From(s, First(s)) = KeysOf(In(s))
    <2>1. 1 \in 1 .. Len(s) /\ First(s) = s[1].key
        BY <1>1, <1>5 DEF First
    <2>2. s[1] \in In(s)
        BY <2>1 DEF In
    <2>3. From(s, First(s)) = KeysOf(In(s))
        BY <1>1, <2>1, FromOn DEF KeysOf
    <2>4. First(s) \in KeysOf(Now) /\ hash_key_index(prime_index, First(s)) = i
        BY <1>1, <2>1, <2>2 DEF KeysOf
    <2>5. First(s) \in Key
        BY <2>4, KeysAre DEF Now
    <2> QED
        BY <2>3, <2>4, <2>5, HashAssumption
<1> QED
    BY <1>3, <1>4, <1>5 DEF s

\* To pass over a key leaves the others.
LEMMA PassedOver ==
    ASSUME TableFits(prime_index, entries), NEW k \in KeysOf(Now)
    PROVE  LET i == hash_key_index(prime_index, k)
           IN  /\ CursorFits(prime_index, entries, i, Behind(k))
               /\ UnreadOf(prime_index, entries, i, Behind(k))
                  = UnreadOf(prime_index, entries, i, k) \ {k}
               /\ k \in UnreadOf(prime_index, entries, i, k)
<1> DEFINE i == hash_key_index(prime_index, k)
           s == entries[i]
           q == Position(k)
<1>1. k \in Key /\ k # NoKey
    BY KeysAre, HashAssumption DEF Now
<1>2. i \in 0 .. limit - 1 /\ limit \in Nat
    BY <1>1, IndexIs, SizesAreNumbers DEF TableFits, limit
<1>3. /\ s \in Seq(Entry) /\ Distinct(s) /\ q \in 1 .. Len(s) /\ s[q].key = k
    BY <1>1, Looked DEF Now, Bucket
<1>4. \A j \in 1 .. Len(s) : s[j] \in In(s) /\ s[j].key \in KeysOf(In(s))
    BY DEF In, KeysOf
<1>5. \A x \in KeysOf(In(s)) : x \in KeysOf(Now) /\ hash_key_index(prime_index, x) = i
    BY <1>2, OfBucket
<1>6. Behind(k) = IF q < Len(s) THEN s[q + 1].key ELSE NoKey
    BY DEF Behind, Bucket
<1> HIDE DEF s, q, i
<1>7. q < Len(s) => q + 1 \in 1 .. Len(s)
    BY <1>3
<1>8. Behind(k) # NoKey => Behind(k) \in KeysOf(Now) /\ hash_key_index(prime_index, Behind(k)) = i
    BY <1>4, <1>5, <1>6, <1>7
<1>9. q < Len(s) => Behind(k) # NoKey
    BY <1>4, <1>5, <1>6, <1>7, KeysAre, HashAssumption DEF Now
<1>10. (IF Behind(k) = NoKey THEN {} ELSE From(s, Behind(k))) = From(s, k) \ {k}
    <2>1. q < Len(s) \/ q = Len(s)
        BY <1>3
    <2>2. CASE q < Len(s)
        BY <1>3, <1>6, <1>9, <2>2, FromOn
    <2>3. CASE q = Len(s)
        <3>1. Behind(k) = NoKey
            BY <1>3, <1>6, <2>3
        <3>2. From(s, k) = {k}
            BY <1>3, <2>3, FromOn
        <3> QED
            BY <3>1, <3>2
    <2> QED
        BY <2>1, <2>2, <2>3
<1>11. k \in From(s, k)
    BY <1>3, FromOn
<1>12. ~(hash_key_index(prime_index, k) > i)
    BY <1>2 DEF i
<1>13. UnreadOf(prime_index, entries, i, Behind(k))
       = {x \in KeysOf(Now) : hash_key_index(prime_index, x) > i} \cup (From(s, k) \ {k})
    BY <1>8, <1>10 DEF UnreadOf, Now, s
<1>14. UnreadOf(prime_index, entries, i, k)
       = {x \in KeysOf(Now) : hash_key_index(prime_index, x) > i} \cup From(s, k)
    BY <1>1 DEF UnreadOf, Now, s, i
<1>15. CursorFits(prime_index, entries, i, Behind(k))
    BY <1>2, <1>8 DEF CursorFits, limit, Now
<1> QED
    BY <1>11, <1>12, <1>13, <1>14, <1>15 DEF i

\* There is a first bucket among some.
LEMMA FirstOfSome ==
    ASSUME NEW S, S \subseteq Nat, S # {}
    PROVE  \E i \in S : \A j \in S : i <= j
<1>1. \E i \in S : \A j \in S : <<j, i>> \notin OpToRel(<, Nat)
    BY WFMin, NatLessThanWellFounded, Zenon
<1>2. PICK i \in S : \A j \in S : ~(j < i)
    BY <1>1, Zenon DEF OpToRel
<1> QED
    BY <1>2

\* The bucket and the entry that hash_next gets to from a bucket and an entry:
\* nothing that is unread is left behind.
LEMMA GetsTo ==
    ASSUME TableFits(prime_index, entries), NEW index, NEW entry,
           CursorFits(prime_index, entries, index, entry)
    PROVE  LET U == UnreadOf(prime_index, entries, index, entry)
               ahead == {i \in index + 1 .. limit - 1 : entries[i] # <<>>}
               to == IF entry # NoKey THEN index
                     ELSE IF ahead = {} THEN limit - 1
                          ELSE CHOOSE i \in ahead : \A j \in ahead : i <= j
               found == IF entry # NoKey THEN entry
                        ELSE IF ahead = {} THEN NoKey ELSE First(entries[to])
           IN  /\ found = NoKey => to = limit - 1 /\ U = {}
               /\ found # NoKey => /\ found \in KeysOf(Now)
                                   /\ hash_key_index(prime_index, found) = to
                                   /\ U = UnreadOf(prime_index, entries, to, found)
<1> DEFINE U == UnreadOf(prime_index, entries, index, entry)
           ahead == {i \in index + 1 .. limit - 1 : entries[i] # <<>>}
           min == CHOOSE i \in ahead : \A j \in ahead : i <= j
<1>1. /\ index \in 0 .. limit - 1 /\ limit \in Nat
      /\ entry # NoKey => entry \in KeysOf(Now) /\ hash_key_index(prime_index, entry) = index
    BY SizesAreNumbers DEF CursorFits, limit, TableFits, Now
<1>2. entry = NoKey => U = {k \in KeysOf(Now) : hash_key_index(prime_index, k) > index}
    BY DEF UnreadOf, Now
<1>3. \A k \in KeysOf(Now) : hash_key_index(prime_index, k) \in 0 .. limit - 1
    BY KeysAre, IndexIs DEF Now, limit, TableFits
<1>4. \A k \in KeysOf(Now) : hash_key_index(prime_index, k) > index
                              => hash_key_index(prime_index, k) \in ahead
    <2> SUFFICES ASSUME NEW k \in KeysOf(Now), hash_key_index(prime_index, k) > index
                 PROVE  hash_key_index(prime_index, k) \in ahead
        OBVIOUS
    <2> DEFINE i == hash_key_index(prime_index, k)
    <2>1. i \in 0 .. limit - 1
        BY <1>3
    <2>2. k \in KeysOf(In(entries[i]))
        BY <2>1, OfBucket
    <2>3. entries[i] # <<>>
        BY <2>1, <2>2, OfBucket
    <2> QED
        BY <1>1, <2>1, <2>3
<1>5. \A i \in ahead : i \in 0 .. limit - 1 /\ i > index /\ entries[i] # <<>>
    BY <1>1
<1> HIDE DEF ahead
<1>6. entry = NoKey /\ ahead = {} => U = {}
    BY <1>2, <1>4
<1>7. ahead # {} => min \in ahead /\ \A j \in ahead : min <= j
    <2>1. ahead \subseteq Nat
        BY <1>5
    <2>2. ahead # {} => \E i \in ahead : \A j \in ahead : i <= j
        BY <2>1, FirstOfSome
    <2> QED
        BY <2>2
<1> HIDE DEF min, U
<1>8. ASSUME entry = NoKey, ahead # {}
      PROVE  /\ First(entries[min]) # NoKey /\ First(entries[min]) \in KeysOf(Now)
             /\ hash_key_index(prime_index, First(entries[min])) = min
             /\ U = UnreadOf(prime_index, entries, min, First(entries[min]))
    <2> DEFINE k == First(entries[min])
               s == entries[min]
    <2>1. min \in 0 .. limit - 1 /\ min > index /\ s # <<>>
        BY <1>5, <1>7, <1>8
    <2>2. /\ k \in KeysOf(Now) /\ k # NoKey /\ hash_key_index(prime_index, k) = min
          /\ From(s, k) = {x \in KeysOf(Now) : hash_key_index(prime_index, x) = min}
        BY <2>1, OfBucket
    <2> HIDE DEF k, s
    <2>3. UnreadOf(prime_index, entries, min, k)
          = {x \in KeysOf(Now) : hash_key_index(prime_index, x) > min} \cup From(s, k)
        BY <2>2 DEF UnreadOf, Now, s
    <2>4. \A x \in KeysOf(Now) : hash_key_index(prime_index, x) > index
                                 <=> \/ hash_key_index(prime_index, x) > min
                                     \/ hash_key_index(prime_index, x) = min
        <3> SUFFICES ASSUME NEW x \in KeysOf(Now)
                     PROVE  hash_key_index(prime_index, x) > index
                            <=> \/ hash_key_index(prime_index, x) > min
                                \/ hash_key_index(prime_index, x) = min
            OBVIOUS
        <3>1. hash_key_index(prime_index, x) > index => min <= hash_key_index(prime_index, x)
            BY <1>4, <1>7, <1>8
        <3> QED
            BY <1>1, <1>3, <2>1, <3>1
    <2>5. U = UnreadOf(prime_index, entries, min, k)
        BY <1>2, <1>8, <2>2, <2>3, <2>4
    <2> QED
        BY <2>2, <2>5 DEF k
<1> DEFINE to == IF entry # NoKey THEN index ELSE IF ahead = {} THEN limit - 1 ELSE min
           found == IF entry # NoKey THEN entry
                    ELSE IF ahead = {} THEN NoKey ELSE First(entries[to])
<1>9. /\ found = NoKey => to = limit - 1 /\ U = {}
      /\ found # NoKey => /\ found \in KeysOf(Now)
                          /\ hash_key_index(prime_index, found) = to
                          /\ U = UnreadOf(prime_index, entries, to, found)
    <2>1. CASE entry # NoKey
        BY <1>1, <2>1 DEF U
    <2>2. CASE entry = NoKey /\ ahead = {}
        BY <1>6, <2>2
    <2>3. CASE entry = NoKey /\ ahead # {}
        BY <1>8, <2>3
    <2> QED
        BY <2>1, <2>2, <2>3
<1> QED
    BY <1>9, Zenon DEF U, ahead, min

\* hash_next comes by a key that is unread, if there is one.
LEMMA NextComesBy ==
    ASSUME MapInv, NEW op, NEW index, NEW entry, NextFrom(op, index, entry),
           CursorFits(prime_index, entries, index, entry),
           NEW U, U = UnreadOf(prime_index, entries, index, entry)
    PROVE  MapInv' /\ Map!ComeBy(op, U)
<1> DEFINE ahead == {i \in index + 1 .. limit - 1 : entries[i] # <<>>}
           to == IF entry # NoKey THEN index
                 ELSE IF ahead = {} THEN limit - 1
                      ELSE CHOOSE i \in ahead : \A j \in ahead : i <= j
           found == IF entry # NoKey THEN entry
                    ELSE IF ahead = {} THEN NoKey ELSE First(entries[to])
<1>1. /\ cursor_index' = to /\ iterating' = TRUE /\ UNCHANGED table
      /\ found = NoKey => /\ cursor_entry' = NoKey /\ cursor_key' = cursor_key
                          /\ reply' = <<op, "NULL">>
      /\ found # NoKey => /\ cursor_entry' = Behind(found) /\ cursor_key' = found
                          /\ reply' = <<op, hash_get(found)>>
    BY DEF NextFrom, Return
<1>2. TableFits(prime_index, entries)
    BY DEF MapInv
<1>3. /\ found = NoKey => to = limit - 1 /\ U = {}
      /\ found # NoKey => /\ found \in KeysOf(Now) /\ hash_key_index(prime_index, found) = to
                          /\ U = UnreadOf(prime_index, entries, to, found)
    BY <1>2, GetsTo
<1> HIDE DEF to, found
<1>4. prime_index' = prime_index /\ entries' = entries /\ length' = length
    BY <1>1 DEF table
<1>5. limit \in Nat \ {0}
    BY <1>2, SizesAreNumbers DEF TableFits, limit
<1>6. CASE found = NoKey
    <2>1. CursorFits(prime_index, entries, to, NoKey)
        BY <1>3, <1>5, <1>6 DEF CursorFits, limit
    <2>2. UnreadOf(prime_index, entries, to, NoKey) = {}
        <3>1. \A k \in KeysOf(Now) : hash_key_index(prime_index, k) \in 0 .. limit - 1
            BY <1>2, KeysAre, IndexIs DEF Now, limit, TableFits
        <3>2. \A k \in KeysOf(Now) : ~(hash_key_index(prime_index, k) > to)
            BY <1>3, <1>5, <1>6, <3>1
        <3> QED
            BY <3>2 DEF UnreadOf, Now
    <2>3. IterationFits'
        BY <1>1, <1>4, <1>6, <2>1, <2>2 DEF IterationFits
    <2>4. Unread' = {} /\ Contents' = Contents
        BY <1>1, <1>2, <1>4, <1>6, <2>2, <2>3, After, Before DEF Now
    <2>5. MapInv'
        BY <1>4, <2>3 DEF MapInv
    <2> QED
        BY <1>1, <1>3, <1>6, <2>4, <2>5 DEF Map!ComeBy, Map!Return
<1>7. CASE found # NoKey
    <2>1. /\ CursorFits(prime_index, entries, to, Behind(found))
          /\ UnreadOf(prime_index, entries, to, Behind(found)) = U \ {found}
          /\ found \in U
        BY <1>2, <1>3, <1>7, PassedOver
    <2>2. IterationFits'
        BY <1>1, <1>4, <1>7, <2>1 DEF IterationFits
    <2>3. Unread' = U \ {found} /\ Contents' = Contents
        BY <1>1, <1>2, <1>4, <1>7, <2>1, <2>2, After, Before DEF Now
    <2>4. MapInv'
        BY <1>4, <2>2 DEF MapInv
    <2>5. hash_get(found) = Contents[found]
        <3>1. found \in Key /\ found \in KeysOf(Now)
            BY <1>2, <1>3, <1>7, KeysAre DEF Now
        <3> QED
            BY <3>1, Before DEF Map!Get, Map!Has
    <2> QED
        BY <1>1, <1>7, <2>1, <2>3, <2>4, <2>5 DEF Map!ComeBy, Map!Return
<1> QED
    BY <1>6, <1>7

\* hash_first comes by one of all keys.
LEMMA FirstComesBy ==
    ASSUME MapInv, FirstEntry PROVE MapInv' /\ Map!ComeBy("hash_first", DOMAIN Contents)
<1> DEFINE k == First(entries[0])
<1>1. /\ TableFits(prime_index, entries) /\ 0 \in 0 .. limit - 1 /\ limit \in Nat
      /\ NextFrom("hash_first", 0, k)
    BY SizesAreNumbers DEF MapInv, TableFits, limit, FirstEntry
<1>2. /\ {x \in KeysOf(Now) : hash_key_index(prime_index, x) = 0} = KeysOf(In(entries[0]))
      /\ entries[0] # <<>> => /\ k \in KeysOf(Now) /\ k # NoKey
                              /\ hash_key_index(prime_index, k) = 0
                              /\ From(entries[0], k) = KeysOf(In(entries[0]))
      /\ entries[0] = <<>> => KeysOf(In(entries[0])) = {} /\ k = NoKey
    BY <1>1, OfBucket
<1> HIDE DEF k
<1>3. CursorFits(prime_index, entries, 0, k)
    BY <1>1, <1>2 DEF CursorFits, limit, Now
<1>4. \A x \in KeysOf(Now) : \/ hash_key_index(prime_index, x) > 0
                             \/ hash_key_index(prime_index, x) = 0
    <2>1. \A x \in KeysOf(Now) : hash_key_index(prime_index, x) \in 0 .. limit - 1
        BY <1>1, KeysAre, IndexIs DEF Now, limit, TableFits
    <2> QED
        BY <1>1, <2>1
<1>5. UnreadOf(prime_index, entries, 0, k) = KeysOf(Now)
    <2>1. UnreadOf(prime_index, entries, 0, k)
          = {x \in KeysOf(Now) : hash_key_index(prime_index, x) > 0} \cup KeysOf(In(entries[0]))
        BY <1>2 DEF UnreadOf, Now
    <2> QED
        BY <1>2, <1>4, <2>1
<1>6. DOMAIN Contents = KeysOf(Now)
    BY Before
<1>7. MapInv' /\ Map!ComeBy("hash_first", KeysOf(Now))
    BY <1>1, <1>3, <1>5, NextComesBy
<1> QED
    BY <1>6, <1>7

\* Every step of the table is one of the map.
LEMMA MapStep ==
    MapInv /\ [Next]_hashVars => MapInv' /\ [Map!MapNext]_(Map!mapVars)
<1> SUFFICES ASSUME MapInv, [Next]_hashVars
             PROVE  MapInv' /\ [Map!MapNext]_(Map!mapVars)
    OBVIOUS
<1>1. ASSUME NEW k \in Key, Delete(k) PROVE MapInv' /\ [Map!MapNext]_(Map!mapVars)
    BY <1>1, DeleteIsDelete DEF Map!MapNext
<1>2. ASSUME NEW k \in Key, NEW v \in Value, Set(k, v) \/ Put(k, v)
      PROVE  MapInv' /\ [Map!MapNext]_(Map!mapVars)
    BY <1>2, SetIsSet, PutIsPut DEF Map!MapNext
<1>3. CASE Purge
    BY <1>3, PurgeIsPurge DEF Map!MapNext
<1>4. CASE Ask
    BY <1>4, AskIsAsk DEF Map!MapNext
<1>5. CASE FirstEntry
    BY <1>5, FirstComesBy DEF Map!MapNext
<1>6. CASE NextEntry
    <2>1. iterating /\ NextFrom("hash_next", cursor_index, cursor_entry)
        BY <1>6 DEF NextEntry
    <2>2. /\ CursorFits(prime_index, entries, cursor_index, cursor_entry)
          /\ Unread = UnreadOf(prime_index, entries, cursor_index, cursor_entry)
        BY <2>1, Before DEF MapInv, IterationFits
    <2>3. MapInv' /\ Map!ComeBy("hash_next", Unread)
        BY <2>1, <2>2, NextComesBy
    <2> QED
        BY <2>1, <2>3 DEF Map!MapNext
<1>7. CASE UNCHANGED hashVars
    <2>1. /\ prime_index' = prime_index /\ entries' = entries /\ length' = length
          /\ cursor_index' = cursor_index /\ cursor_entry' = cursor_entry
          /\ cursor_key' = cursor_key /\ iterating' = iterating /\ reply' = reply
        BY <1>7 DEF hashVars, table, cursor
    <2>2. MapInv'
        BY <2>1 DEF MapInv, IterationFits
    <2>3. IterationFits' /\ TableFits(prime_index', entries')
        BY <2>2 DEF MapInv
    <2>4. Contents' = Contents /\ Unread' = Unread
        BY <2>1, <2>3, After, Before DEF Now
    <2> QED
        BY <2>1, <2>2, <2>4 DEF Map!mapVars
<1> QED
    BY <1>1, <1>2, <1>3, <1>4, <1>5, <1>6, <1>7 DEF Next

\* A new table is an empty map.
LEMMA InitMap == Init => MapInv /\ Map!MapInit
<1> SUFFICES ASSUME Init PROVE MapInv /\ Map!MapInit
    OBVIOUS
<1> DEFINE c == [i \in 0 .. Primes[prime_index] - 1 |-> <<>>]
<1>1. prime_index = 1 /\ entries = c /\ length = 0 /\ iterating = FALSE
      /\ cursor_key = NoKey /\ reply = <<"hash_new">>
    BY DEF Init, limit
<1>2. prime_index \in DOMAIN Primes
    <2>1. Len(Primes) \in Nat /\ Len(Primes) # 0 /\ DOMAIN Primes = 1 .. Len(Primes)
        BY HashAssumption
    <2> QED
        BY <1>1, <2>1
<1>3. TableFits(prime_index, c) /\ EntriesOf(c) = {}
    BY <1>2, NoEntries
<1> HIDE DEF c
<1>4. KeysOf({}) = {} /\ Cardinality({}) = 0
    BY FS_EmptySet DEF KeysOf
<1>5. MapInv /\ Now = {}
    BY <1>1, <1>3, <1>4 DEF MapInv, IterationFits, Now
<1>6. Contents = MapOf({}) /\ Unread = {}
    BY <1>1, <1>5, Before
<1>7. MapOf({}) = [k \in {} |-> "NULL"]
    BY <1>4 DEF MapOf
<1> QED
    BY <1>1, <1>5, <1>6, <1>7 DEF Map!MapInit

\* The table is a map, for every finite set of keys and every growing sequence
\* of sizes: also while hash_set rehashes it, whatever bucket an entry hangs in,
\* and an iteration comes by every key exactly once, although hash_delete may
\* take away the one it has just returned.
THEOREM TableIsAMap == Spec => HashIsMap
<1>1. Init => Map!MapInit
    BY InitMap
<1>2. Spec => []MapInv
    BY InitMap, MapStep, PTL DEF Spec
<1>3. MapInv /\ [Next]_hashVars => [Map!MapNext]_(Map!mapVars)
    BY MapStep
<1> QED
    BY <1>1, <1>2, <1>3, PTL DEF Spec, HashIsMap, Map!MapSpec

=============================================================================
