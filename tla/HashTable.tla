------------------------------ MODULE HashTable ------------------------------
(***************************************************************************)
(* The hash table of packages/std/hash/hash.c, with its chains, its growth *)
(* and its cursor.  A key stands for its hash, as without a hash_fn.       *)
(***************************************************************************)
EXTENDS Naturals, FiniteSets, Functions, SequencesExt

CONSTANTS Key,       \* a set of numbers
          Value,
          Primes,    \* hash_primes: the sizes the table grows through
          Word,      \* number of values of a size_t
          NoKey      \* the NULL of a pointer to a key or an entry

ASSUME HashAssumption ==
    /\ Key \subseteq Nat /\ IsFiniteSet(Key) /\ NoKey \notin Key /\ Word \in Nat \ {0}
    /\ Primes \in Seq(Nat \ {0}) /\ Primes # <<>>
    /\ \A i \in 1 .. Len(Primes) - 1 : Primes[i + 1] >= Primes[i] + 2

INDEX_REHASH_PERCENTAGE == 50
LENGTH_REHASH_PERCENTAGE == 75

VARIABLES
    prime_index,         \* from 1
    entries,             \* entries[i]: the chain of bucket i, [key, value]
    used_indexes_size,
    length,
    cursor_index,
    cursor_entry,        \* the key of the entry it points to, or NoKey
    cursor_key,
    iterating,           \* the client may go on with hash_next
    reply

table == <<prime_index, entries, used_indexes_size, length>>
cursor == <<cursor_index, cursor_entry, cursor_key>>
hashVars == <<table, cursor, iterating, reply>>

limit == Primes[prime_index]

hash_key_index(p, k) == k % Primes[p]

Init ==
    /\ prime_index = 1
    /\ entries = [i \in 0 .. limit - 1 |-> <<>>]
    /\ used_indexes_size = 0 /\ length = 0
    /\ cursor_index = 0 /\ cursor_entry = NoKey /\ cursor_key = NoKey
    /\ iterating = FALSE
    /\ reply = <<"hash_new">>

Bucket(k) == entries[hash_key_index(prime_index, k)]
Positions(k) == {i \in DOMAIN Bucket(k) : Bucket(k)[i].key = k}
Position(k) == CHOOSE i \in Positions(k) : TRUE

\* hash_get_entry finds an entry.
hash_has(k) == Positions(k) # {}
hash_get(k) == IF hash_has(k) THEN Bucket(k)[Position(k)].value ELSE "NULL"

Return(op, answer) == reply' = <<op, answer>>

\* Fault: overloaded only beyond the threshold.
hash_is_overload_Beyond ==
    \/ length > (limit * LENGTH_REHASH_PERCENTAGE) \div 100
    \/ used_indexes_size > (limit * INDEX_REHASH_PERCENTAGE) \div 100

hash_is_overload ==
    \/ length >= (limit * LENGTH_REHASH_PERCENTAGE) \div 100
    \/ used_indexes_size >= (limit * INDEX_REHASH_PERCENTAGE) \div 100

\* Fault: only the first entry of a chain is moved.
Rehashed_FirstOnly(p) ==
    LET firsts == SelectSeq([i \in 1 .. limit |-> entries[i - 1]], LAMBDA c : c # <<>>)
        all == [i \in DOMAIN firsts |-> Head(firsts[i])]
    IN  [i \in 0 .. Primes[p] - 1 |->
            Reverse(SelectSeq(all, LAMBDA e : hash_key_index(p, e.key) = i))]

\* hash_rehash goes by the old buckets and their chains and puts each entry on
\* top of its new chain; moved[n] has the first n entries.
Rehashed(p) ==
    LET all == FlattenSeq([i \in 1 .. limit |-> entries[i - 1]])
        moved[n \in 0 .. Len(all)] ==
            IF n = 0 THEN [i \in 0 .. Primes[p] - 1 |-> <<>>]
            ELSE [moved[n - 1] EXCEPT ![hash_key_index(p, all[n].key)] = <<all[n]>> \o @]
    IN  moved[Len(all)]

UsedIn(chains) == Cardinality({i \in DOMAIN chains : chains[i] # <<>>})

\* hash_set: a table that is overloaded grows first, whether or not the key is
\* there already; a new entry goes on top of its chain.
hash_set(k, v) ==
    LET p == IF hash_is_overload THEN prime_index + 1 ELSE prime_index
        chains == IF hash_is_overload THEN Rehashed(p) ELSE entries
        used == IF hash_is_overload THEN UsedIn(chains) ELSE used_indexes_size
        i == hash_key_index(p, k)
    IN  /\ p \in DOMAIN Primes
        /\ prime_index' = p
        /\ IF hash_has(k)
           THEN /\ entries' = chains
                /\ used_indexes_size' = used
                /\ UNCHANGED length
           ELSE /\ entries' = [chains EXCEPT ![i] = <<[key |-> k, value |-> v]>> \o @]
                /\ used_indexes_size' = IF chains[i] = <<>> THEN (used + 1) % Word ELSE used
                /\ length' = length + 1
        /\ UNCHANGED cursor
        /\ iterating' = FALSE

Set(k, v) == hash_set(k, v) /\ Return("hash_set", ~hash_has(k))

\* hash_put replaces the value of an entry that is there.
Put(k, v) ==
    /\ \/ /\ hash_has(k)
          /\ entries' = [entries EXCEPT ![hash_key_index(prime_index, k)]
                                        [Position(k)].value = v]
          /\ UNCHANGED <<prime_index, used_indexes_size, length, cursor, iterating>>
       \/ ~hash_has(k) /\ hash_set(k, v)
    /\ Return("hash_put", TRUE)

\* A size_t: one less than none is the largest.
OneLess(n) == (n + Word - 1) % Word

\* hash_delete: whenever the first entry of a chain goes, the bucket is counted
\* as no longer used, although others may be left in it.  The cursor is not
\* looked at: only the deletion of the entry just returned leaves the iteration
\* sound.
Delete(k) ==
    /\ IF hash_has(k)
       THEN /\ entries' = [entries EXCEPT ![hash_key_index(prime_index, k)] =
                              RemoveAt(@, Position(k))]
            /\ length' = length - 1
            /\ used_indexes_size' = IF Position(k) = 1 THEN OneLess(used_indexes_size)
                                    ELSE used_indexes_size
            /\ iterating' = (iterating /\ k = cursor_key /\ k # cursor_entry)
       ELSE UNCHANGED <<entries, length, used_indexes_size, iterating>>
    /\ Return("hash_delete", hash_has(k))
    /\ UNCHANGED <<prime_index, cursor>>

\* hash_purge shrinks the table to the first prime.
Purge ==
    /\ prime_index' = 1
    /\ entries' = [i \in 0 .. Primes[1] - 1 |-> <<>>]
    /\ used_indexes_size' = 0 /\ length' = 0
    /\ cursor_index' = 0 /\ cursor_entry' = NoKey
    /\ iterating' = FALSE
    /\ Return("hash_purge", TRUE)
    /\ UNCHANGED cursor_key

Ask ==
    /\ (\E k \in Key : Return("hash_get", hash_get(k))) \/ Return("hash_length", length)
    /\ UNCHANGED <<table, cursor, iterating>>

First(chain) == IF chain = <<>> THEN NoKey ELSE Head(chain).key

\* The entry behind the one with key k in its chain.
Behind(k) ==
    IF Position(k) < Len(Bucket(k)) THEN Bucket(k)[Position(k) + 1].key ELSE NoKey

\* hash_next from a bucket and an entry: the next used bucket is looked for
\* when the chain is at its end; the entry is returned and passed over.
NextFrom(op, index, entry) ==
    LET ahead == {i \in index + 1 .. limit - 1 : entries[i] # <<>>}
        to == IF entry # NoKey THEN index
              ELSE IF ahead = {} THEN limit - 1 ELSE CHOOSE i \in ahead : \A j \in ahead : i <= j
        found == IF entry # NoKey THEN entry ELSE IF ahead = {} THEN NoKey ELSE First(entries[to])
    IN  /\ cursor_index' = to
        /\ IF found = NoKey
           THEN cursor_entry' = NoKey /\ UNCHANGED cursor_key /\ Return(op, "NULL")
           ELSE cursor_entry' = Behind(found) /\ cursor_key' = found /\ Return(op, hash_get(found))
        /\ iterating' = TRUE
        /\ UNCHANGED table

\* hash_first starts at the first bucket.
FirstEntry == NextFrom("hash_first", 0, First(entries[0]))
NextEntry == iterating /\ NextFrom("hash_next", cursor_index, cursor_entry)

Next ==
    \/ \E k \in Key : Delete(k) \/ \E v \in Value : Set(k, v) \/ Put(k, v)
    \/ Purge \/ Ask \/ FirstEntry \/ NextEntry

Spec == Init /\ [][Next]_hashVars

-----------------------------------------------------------------------------
Chained == UNION {{entries[i][j] : j \in DOMAIN entries[i]} : i \in DOMAIN entries}

\* The table never holds more than LENGTH_REHASH_PERCENTAGE of its size,
\* whatever used_indexes_size has come to be.
LoadIsBounded == length <= (limit * LENGTH_REHASH_PERCENTAGE) \div 100

\* What the iteration has still to come by: the rest of its chain and the
\* buckets behind.
Unread ==
    IF ~iterating THEN {}
    ELSE {e.key : e \in UNION {{entries[i][j] : j \in DOMAIN entries[i]} :
                                   i \in cursor_index + 1 .. limit - 1}}
         \cup (IF cursor_entry = NoKey THEN {}
               ELSE {Bucket(cursor_entry)[j].key :
                        j \in Position(cursor_entry) .. Len(Bucket(cursor_entry))})

\* What the table says of the keys of its entries.
Contents == [k \in {e.key : e \in Chained} |-> hash_get(k)]

Map == INSTANCE HashMap
    WITH map <- Contents, unread <- Unread,
         MaxLength <- Cardinality(Key)

\* The table is a map, also while it grows, and an iteration comes by every key
\* exactly once.
HashIsMap == Map!MapSpec
=============================================================================
