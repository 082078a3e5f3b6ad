-------------------------- MODULE SpscQueueProofs --------------------------
(***************************************************************************)
(* Theorems about SpscQueue, for every size of the ring and every width of *)
(* the cursors that is a multiple of it.  The arithmetic of the cursors    *)
(* comes first: everything else counts in distances, Minus(later, earlier),*)
(* and in slots at a distance from the front.                              *)
(***************************************************************************)
EXTENDS SpscQueue, Integers, SequenceTheorems, TLAPS

-----------------------------------------------------------------------------
(* Remainders.                                                             *)

\* Division with remainder.
LEMMA Division ==
    ASSUME NEW x \in Nat, NEW w \in Nat \ {0}
    PROVE  /\ x \div w \in Int
           /\ x % w \in Int /\ x % w >= 0 /\ x % w < w
           /\ x = w * (x \div w) + (x % w)
<1>1. /\ x \div w \in Int /\ x % w \in Int
      /\ x % w >= 0
    OBVIOUS
<1>2. x % w < w
    OBVIOUS
<1>3. x = w * (x \div w) + (x % w)
    OBVIOUS
<1> QED
    BY <1>1, <1>2, <1>3

\* No positive number below w is a multiple of w.
LEMMA NoSmallMultiple ==
    ASSUME NEW w \in Nat \ {0}, NEW m \in Int, NEW e \in Nat, e > 0, e < w, e = w * m
    PROVE  FALSE
OBVIOUS

\* Different numbers closer than w have different remainders.
LEMMA CloseRemaindersDiffer ==
    ASSUME NEW x \in Nat, NEW y \in Nat, NEW w \in Nat \ {0}, x > y, x - y < w
    PROVE  x % w # y % w
<1> SUFFICES ASSUME x % w = y % w
             PROVE  FALSE
    OBVIOUS
<1> DEFINE p == x \div w
           q == y \div w
           r == x % w
<1>1. /\ p \in Int /\ q \in Int /\ r \in Int
      /\ x = w * p + r /\ y = w * q + r
    BY Division
<1> HIDE DEF p, q, r
<1>2. x - y = w * (p - q)
    BY <1>1
<1> QED
    BY <1>1, <1>2, NoSmallMultiple

\* Numbers that are a multiple of w apart have the same one.
LEMMA MultiplesApart ==
    ASSUME NEW x \in Nat, NEW y \in Nat, NEW w \in Nat \ {0}, NEW c \in Nat, x = y + c * w
    PROVE  x % w = y % w
<1> DEFINE p == x \div w
           q == y \div w
           r == x % w
           s == y % w
<1>1. /\ p \in Int /\ q \in Int
      /\ r \in Int /\ r >= 0 /\ r < w
      /\ s \in Int /\ s >= 0 /\ s < w
      /\ x = w * p + r /\ y = w * q + s
    BY Division
<1> HIDE DEF p, q, r, s
<1>2. /\ r - s = w * (q + c - p)
      /\ s - r = w * (p - c - q)
    BY <1>1
<1>3. ~(r > s)
    BY <1>1, <1>2, NoSmallMultiple
<1>4. ~(s > r)
    BY <1>1, <1>2, NoSmallMultiple
<1> QED
    BY <1>1, <1>3, <1>4 DEF r, s

-----------------------------------------------------------------------------
(* Cursors.                                                                *)

\* The cursors have room for two rings.
LEMMA WrapIsTwice == Size \in Nat /\ Size > 1 /\ Wrap \in Nat /\ Wrap >= 2 * Size
<1>1. /\ Size \in Nat /\ Size > 1 /\ Wrap \in Nat
      /\ \E k \in 2 .. Wrap : Wrap = k * Size
    BY QueueAssumption
<1>2. PICK k \in 2 .. Wrap : Wrap = k * Size
    BY <1>1
<1>3. (k - 2) * Size \in Nat /\ k * Size = (k - 2) * Size + 2 * Size
    BY <1>1
<1> QED
    BY <1>1, <1>2, <1>3

\* What the unsigned difference is.
LEMMA MinusIs ==
    ASSUME NEW a \in Cursor, NEW b \in Cursor
    PROVE  /\ Minus(a, b) = IF a >= b THEN a - b ELSE Wrap + a - b
           /\ Minus(a, b) \in Cursor
<1> DEFINE x == Wrap + a - b
<1>1. /\ Wrap \in Nat \ {0} /\ a \in 0 .. Wrap - 1 /\ b \in 0 .. Wrap - 1
      /\ x \in Nat /\ x < 2 * Wrap
    BY WrapIsTwice DEF Cursor
<1>2. CASE a >= b
    <2>1. x % Wrap = x - Wrap
        BY <1>1, <1>2
    <2> QED
        BY <1>1, <1>2, <2>1 DEF Minus, Cursor
<1>3. CASE ~(a >= b)
    <2>1. x % Wrap = x
        BY <1>1, <1>3
    <2> QED
        BY <1>1, <1>3, <2>1 DEF Minus, Cursor
<1> QED
    BY <1>2, <1>3

\* What the increment is.
LEMMA AfterIs ==
    ASSUME NEW c \in Cursor
    PROVE  /\ After(c) = IF c + 1 = Wrap THEN 0 ELSE c + 1
           /\ After(c) \in Cursor
<1>1. Wrap \in Nat \ {0} /\ c \in 0 .. Wrap - 1
    BY WrapIsTwice DEF Cursor
<1>2. CASE c + 1 = Wrap
    BY <1>1, <1>2 DEF After, Cursor
<1>3. CASE c + 1 # Wrap
    <2>1. (c + 1) % Wrap = c + 1
        BY <1>1, <1>3
    <2> QED
        BY <1>1, <1>3, <2>1 DEF After, Cursor
<1> QED
    BY <1>2, <1>3

\* The later cursor moves: the distance grows by one.
LEMMA LaterMoves ==
    ASSUME NEW a \in Cursor, NEW b \in Cursor, Minus(a, b) <= Size
    PROVE  Minus(After(a), b) = Minus(a, b) + 1
<1>1. /\ Wrap \in Nat /\ Size \in Nat /\ Size > 1 /\ Wrap >= 2 * Size
      /\ a \in 0 .. Wrap - 1 /\ b \in 0 .. Wrap - 1
    BY WrapIsTwice DEF Cursor
<1>2. /\ Minus(a, b) = IF a >= b THEN a - b ELSE Wrap + a - b
      /\ After(a) = IF a + 1 = Wrap THEN 0 ELSE a + 1
      /\ Minus(After(a), b) = IF After(a) >= b THEN After(a) - b ELSE Wrap + After(a) - b
    BY MinusIs, AfterIs
<1> QED
    BY <1>1, <1>2

\* The earlier cursor moves: it shrinks by one.
LEMMA EarlierMoves ==
    ASSUME NEW a \in Cursor, NEW b \in Cursor, a # b
    PROVE  Minus(a, After(b)) = Minus(a, b) - 1 /\ Minus(a, b) > 0
<1>1. Wrap \in Nat /\ a \in 0 .. Wrap - 1 /\ b \in 0 .. Wrap - 1
    BY WrapIsTwice DEF Cursor
<1>2. /\ Minus(a, b) = IF a >= b THEN a - b ELSE Wrap + a - b
      /\ After(b) = IF b + 1 = Wrap THEN 0 ELSE b + 1
      /\ Minus(a, After(b)) = IF a >= After(b) THEN a - After(b) ELSE Wrap + a - After(b)
    BY MinusIs, AfterIs
<1> QED
    BY <1>1, <1>2

\* What a thread behind own loads lies between what it has seen and the cursor.
LEMMA LoadedBehind ==
    ASSUME NEW own \in Cursor, NEW cursor \in Cursor, NEW seen \in Cursor,
           Minus(own, cursor) <= Minus(own, seen), NEW c \in Loadable(seen, cursor)
    PROVE  /\ c \in Cursor
           /\ Minus(own, cursor) <= Minus(own, c)
           /\ Minus(own, c) <= Minus(own, seen)
<1>1. c \in Cursor /\ Minus(c, seen) <= Minus(cursor, seen)
    BY DEF Loadable
<1>2. /\ Wrap \in Nat
      /\ own \in 0 .. Wrap - 1 /\ cursor \in 0 .. Wrap - 1
      /\ seen \in 0 .. Wrap - 1 /\ c \in 0 .. Wrap - 1
    BY <1>1, WrapIsTwice DEF Cursor
<1>3. /\ Minus(own, cursor) = IF own >= cursor THEN own - cursor ELSE Wrap + own - cursor
      /\ Minus(own, c) = IF own >= c THEN own - c ELSE Wrap + own - c
      /\ Minus(own, seen) = IF own >= seen THEN own - seen ELSE Wrap + own - seen
      /\ Minus(c, seen) = IF c >= seen THEN c - seen ELSE Wrap + c - seen
      /\ Minus(cursor, seen) = IF cursor >= seen THEN cursor - seen ELSE Wrap + cursor - seen
    BY <1>1, MinusIs
<1> QED
    BY <1>1, <1>2, <1>3

\* The same for a cursor ahead of own.
LEMMA LoadedAhead ==
    ASSUME NEW own \in Cursor, NEW cursor \in Cursor, NEW seen \in Cursor,
           Minus(seen, own) <= Minus(cursor, own), NEW c \in Loadable(seen, cursor)
    PROVE  /\ c \in Cursor
           /\ Minus(seen, own) <= Minus(c, own)
           /\ Minus(c, own) <= Minus(cursor, own)
<1>1. c \in Cursor /\ Minus(c, seen) <= Minus(cursor, seen)
    BY DEF Loadable
<1>2. /\ Wrap \in Nat
      /\ own \in 0 .. Wrap - 1 /\ cursor \in 0 .. Wrap - 1
      /\ seen \in 0 .. Wrap - 1 /\ c \in 0 .. Wrap - 1
    BY <1>1, WrapIsTwice DEF Cursor
<1>3. /\ Minus(cursor, own) = IF cursor >= own THEN cursor - own ELSE Wrap + cursor - own
      /\ Minus(c, own) = IF c >= own THEN c - own ELSE Wrap + c - own
      /\ Minus(seen, own) = IF seen >= own THEN seen - own ELSE Wrap + seen - own
      /\ Minus(c, seen) = IF c >= seen THEN c - seen ELSE Wrap + c - seen
      /\ Minus(cursor, seen) = IF cursor >= seen THEN cursor - seen ELSE Wrap + cursor - seen
    BY <1>1, MinusIs
<1> QED
    BY <1>1, <1>2, <1>3

\* Only equal cursors are at distance zero.
LEMMA ZeroApart ==
    ASSUME NEW a \in Cursor, NEW b \in Cursor
    PROVE  /\ Minus(a, b) = 0 <=> a = b
           /\ Minus(a, b) >= 0
           /\ Minus(a, b) \in Int
<1>1. Wrap \in Nat /\ a \in 0 .. Wrap - 1 /\ b \in 0 .. Wrap - 1
    BY WrapIsTwice DEF Cursor
<1>2. Minus(a, b) = IF a >= b THEN a - b ELSE Wrap + a - b
    BY MinusIs
<1> QED
    BY <1>1, <1>2

-----------------------------------------------------------------------------
(* Slots.                                                                  *)

\* Every wrap of the cursors comes back to the same slot.
LEMMA SlotOneWrapOn ==
    ASSUME NEW i \in Nat
    PROVE  Slot(i + Wrap) = Slot(i)
<1>1. PICK k \in 2 .. Wrap : Wrap = k * Size
    BY QueueAssumption
<1> DEFINE far == i + Wrap
<1>2. Size \in Nat \ {0} /\ far \in Nat /\ k \in Nat /\ far = i + k * Size
    BY <1>1, WrapIsTwice
<1> HIDE DEF far
<1>3. far % Size = i % Size
    BY <1>2, MultiplesApart, ZenonT(40)
<1> QED
    BY <1>3 DEF far, Slot

\* The cursor at a distance from another has the slot at that distance.
LEMMA SlotAtDistance ==
    ASSUME NEW a \in Cursor, NEW b \in Cursor
    PROVE  Slot(a) = Slot(b + Minus(a, b))
<1>1. /\ Size \in Nat \ {0} /\ Wrap \in Nat
      /\ a \in Nat /\ b \in Nat /\ a < Wrap /\ b < Wrap
    BY WrapIsTwice DEF Cursor
<1>2. CASE a >= b
    <2>1. b + Minus(a, b) = a
        BY <1>1, <1>2, MinusIs
    <2> QED
        BY <2>1
<1>3. CASE ~(a >= b)
    <2>1. b + Minus(a, b) = a + Wrap
        BY <1>1, <1>3, MinusIs
    <2> QED
        BY <1>1, <2>1, SlotOneWrapOn
<1> QED
    BY <1>2, <1>3

\* The slots that follow a cursor are those that follow it once it has moved.
LEMMA SlotAfter ==
    ASSUME NEW c \in Cursor, NEW i \in Nat
    PROVE  Slot(After(c) + i) = Slot(c + 1 + i)
<1>1. Size \in Nat \ {0} /\ Wrap \in Nat /\ c \in Nat
    BY WrapIsTwice DEF Cursor
<1>2. CASE c + 1 = Wrap
    <2>1. After(c) + i = i /\ c + 1 + i = i + Wrap
        BY <1>1, <1>2, AfterIs
    <2> QED
        BY <2>1, SlotOneWrapOn
<1>3. CASE c + 1 # Wrap
    BY <1>1, <1>3, AfterIs
<1> QED
    BY <1>2, <1>3

\* Slots fewer than Size apart are different.
LEMMA SlotsDiffer ==
    ASSUME NEW c \in Cursor, NEW i \in Nat, NEW j \in Nat, i < j, j - i < Size
    PROVE  Slot(c + i) # Slot(c + j)
<1>1. /\ Size \in Nat \ {0} /\ c + i \in Nat /\ c + j \in Nat
      /\ c + j > c + i /\ (c + j) - (c + i) < Size
    BY WrapIsTwice DEF Cursor
<1> QED
    BY <1>1, CloseRemaindersDiffer DEF Slot

LEMMA SlotInRing == ASSUME NEW c \in Nat PROVE Slot(c) \in 0 .. Size - 1
BY WrapIsTwice, Division DEF Slot

-----------------------------------------------------------------------------
(* The invariant.                                                          *)

Types ==
    /\ front \in Cursor /\ back \in Cursor
    /\ values \in [0 .. Size - 1 -> Value \union {None}]
    /\ producer \in [pc : {"ready", "refused", "write", "publish"},
                     cached : Cursor, seen : Cursor, value : Value \union {None},
                     room : BOOLEAN]
    /\ consumer \in [pc : {"ready", "refused", "read", "look", "release"},
                     cached : Cursor, seen : Cursor, index : Nat,
                     value : Value \union {None}, some : BOOLEAN]
    /\ answer \in Int
    /\ phase \in {"threads", "purge", "destroyed"}

\* Between its check and its store of back_cursor, a push has room; what it
\* pushes, and has pushed, is a value.
PushHasRoom ==
    /\ producer.pc \in {"write", "publish"} => Minus(back, producer.cached) < Size
    /\ producer.pc = "write" => producer.value \in Value
    /\ producer.pc = "publish" => values[Slot(back)] \in Value

\* Between its check and its store of front_cursor, a pop has a value, and has
\* read the one that is first.
PopHasValue ==
    /\ consumer.pc \in {"read", "release"} => consumer.cached # front
    /\ consumer.pc = "look" => consumer.index < Minus(consumer.cached, front)
    /\ consumer.pc # "look" => consumer.index = 0
    /\ consumer.pc = "release" => consumer.value = values[Slot(front)]

\* What a thread was told is true of what it has seen.
ToldOfSeen ==
    /\ producer.room => Minus(back, producer.seen) < Size
    /\ phase = "threads" /\ consumer.some => consumer.seen # front
    /\ producer.pc = "refused" => ~producer.room
    /\ consumer.pc = "refused" => ~consumer.some

JoinedAreReady == phase # "threads" => producer.pc = "ready" /\ consumer.pc = "ready"

IInv ==
    /\ Types
    /\ CachesLagSafely
    /\ PushHasRoom
    /\ PopHasValue
    /\ ToldOfSeen
    /\ JoinedAreReady

LEMMA InitIInv == Init => IInv
<1> SUFFICES ASSUME Init
             PROVE  IInv
    OBVIOUS
<1>1. 0 \in Cursor /\ Minus(0, 0) = 0
    BY WrapIsTwice, ZeroApart DEF Cursor
<1>2. Types
    BY <1>1 DEF Init, Types
<1>3. CachesLagSafely
    BY <1>1, WrapIsTwice DEF Init, CachesLagSafely
<1> QED
    BY <1>2, <1>3 DEF Init, IInv, PushHasRoom, PopHasValue, ToldOfSeen, JoinedAreReady

\* What a step of the producer may do to its knowledge.
LEMMA ProducerLoads ==
    ASSUME IInv, NEW f \in Loadable(producer.seen, front)
    PROVE  /\ f \in Cursor
           /\ Minus(back, front) <= Minus(back, f)
           /\ Minus(back, f) <= Minus(back, producer.seen)
           /\ Minus(back, f) <= Size
<1>1. /\ front \in Cursor /\ back \in Cursor
      /\ producer.seen \in Cursor /\ producer.cached \in Cursor
      /\ Minus(back, front) <= Minus(back, producer.seen)
      /\ Minus(back, producer.seen) <= Minus(back, producer.cached)
      /\ Minus(back, producer.cached) <= Size
    BY DEF IInv, Types, CachesLagSafely
<1>2. /\ f \in Cursor
      /\ Minus(back, front) <= Minus(back, f)
      /\ Minus(back, f) <= Minus(back, producer.seen)
    BY <1>1, LoadedBehind
<1>3. /\ Minus(back, f) \in Int /\ Minus(back, producer.seen) \in Int
      /\ Minus(back, producer.cached) \in Int /\ Size \in Int
    BY <1>1, <1>2, ZeroApart, WrapIsTwice
<1> QED
    BY <1>1, <1>2, <1>3

\* What a step of the consumer may do to its knowledge.
LEMMA ConsumerLoads ==
    ASSUME IInv, NEW b \in Loadable(consumer.seen, back)
    PROVE  /\ b \in Cursor
           /\ Minus(consumer.seen, front) <= Minus(b, front)
           /\ Minus(consumer.cached, front) <= Minus(b, front)
           /\ Minus(b, front) <= Minus(back, front)
           /\ Minus(b, front) <= Size
<1>1. /\ front \in Cursor /\ back \in Cursor
      /\ consumer.seen \in Cursor /\ consumer.cached \in Cursor
      /\ producer.seen \in Cursor /\ producer.cached \in Cursor
      /\ Minus(back, front) <= Minus(back, producer.seen)
      /\ Minus(back, producer.seen) <= Minus(back, producer.cached)
      /\ Minus(back, producer.cached) <= Size
      /\ Minus(consumer.cached, front) <= Minus(consumer.seen, front)
      /\ Minus(consumer.seen, front) <= Minus(back, front)
    BY DEF IInv, Types, CachesLagSafely
<1>2. /\ b \in Cursor
      /\ Minus(consumer.seen, front) <= Minus(b, front)
      /\ Minus(b, front) <= Minus(back, front)
    BY <1>1, LoadedAhead
<1>3. /\ Minus(back, front) \in Int /\ Minus(b, front) \in Int
      /\ Minus(consumer.seen, front) \in Int /\ Minus(consumer.cached, front) \in Int
      /\ Minus(back, producer.seen) \in Int
      /\ Minus(back, producer.cached) \in Int /\ Size \in Int
    BY <1>1, <1>2, ZeroApart, WrapIsTwice
<1> QED
    BY <1>1, <1>2, <1>3

\* What the invariant says of the distances.
LEMMA Distances ==
    ASSUME IInv
    PROVE  /\ front \in Cursor /\ back \in Cursor
           /\ producer.seen \in Cursor /\ producer.cached \in Cursor
           /\ consumer.seen \in Cursor /\ consumer.cached \in Cursor
           /\ Minus(back, front) \in Int /\ Minus(back, front) >= 0
           /\ Minus(back, front) <= Size
           /\ Minus(back, producer.seen) \in Int /\ Minus(back, producer.cached) \in Int
           /\ Minus(consumer.seen, front) \in Int /\ Minus(consumer.cached, front) \in Int
           /\ Size \in Nat /\ Size > 1
<1>1. /\ front \in Cursor /\ back \in Cursor
      /\ producer.seen \in Cursor /\ producer.cached \in Cursor
      /\ consumer.seen \in Cursor /\ consumer.cached \in Cursor
    BY DEF IInv, Types
<1>2. /\ Minus(back, front) \in Int /\ Minus(back, front) >= 0
      /\ Minus(back, producer.seen) \in Int /\ Minus(back, producer.cached) \in Int
      /\ Minus(consumer.seen, front) \in Int /\ Minus(consumer.cached, front) \in Int
    BY <1>1, ZeroApart
<1>3. Minus(back, front) <= Size
    BY <1>2, WrapIsTwice DEF IInv, CachesLagSafely
<1> QED
    BY <1>1, <1>2, <1>3, WrapIsTwice

LEMMA AskFullKeeps == IInv /\ AskFull => IInv'
<1> SUFFICES ASSUME IInv, AskFull
             PROVE  IInv'
    OBVIOUS
<1>1. PICK f \in Loadable(producer.seen, front) :
        producer' = [producer EXCEPT !.seen = f, !.room = ~is_full(f, back)]
    BY DEF AskFull
<1>2. /\ producer.pc = "ready" /\ phase = "threads"
      /\ UNCHANGED <<values, front, back, consumer, received, answer, phase>>
    BY DEF AskFull
<1>3. /\ f \in Cursor
      /\ Minus(back, front) <= Minus(back, f)
      /\ Minus(back, f) <= Minus(back, producer.seen)
      /\ Minus(back, f) <= Size /\ Minus(back, f) \in Int
    BY ProducerLoads, Distances, ZeroApart
<1>4. /\ producer'.pc = "ready" /\ producer'.seen = f
      /\ producer'.cached = producer.cached /\ producer'.room = ~is_full(f, back)
      /\ producer'.room => Minus(back, f) # Size
    BY <1>1, <1>2 DEF IInv, Types, is_full
<1>5. Types'
    BY <1>1, <1>2, <1>3 DEF IInv, Types, is_full
<1>6. CachesLagSafely'
    BY <1>2, <1>3, <1>4, Distances DEF IInv, CachesLagSafely
<1>7. PushHasRoom' /\ PopHasValue' /\ JoinedAreReady'
    BY <1>2, <1>4 DEF IInv, PushHasRoom, PopHasValue, JoinedAreReady
<1>8. ToldOfSeen'
    BY <1>2, <1>3, <1>4, Distances DEF IInv, ToldOfSeen
<1> QED
    BY <1>5, <1>6, <1>7, <1>8 DEF IInv

LEMMA PushKeeps == ASSUME NEW v \in Value PROVE IInv /\ Push(v) => IInv'
<1> SUFFICES ASSUME IInv, Push(v)
             PROVE  IInv'
    OBVIOUS
<1> DEFINE full == is_full(producer.cached, back)
<1>1. PICK f \in Loadable(producer.seen, front) :
        LET p == IF full THEN Reload(producer, f) ELSE producer
        IN  producer' = IF is_full(p.cached, back)
                        THEN [p EXCEPT !.pc = "refused"]
                        ELSE [p EXCEPT !.pc = "write", !.value = v]
    BY DEF Push
<1> DEFINE p == IF full THEN Reload(producer, f) ELSE producer
<1>2. /\ producer.pc = "ready" /\ phase = "threads"
      /\ UNCHANGED <<values, front, back, consumer, received, answer, phase>>
    BY DEF Push
<1>3. /\ f \in Cursor
      /\ Minus(back, front) <= Minus(back, f)
      /\ Minus(back, f) <= Minus(back, producer.seen)
      /\ Minus(back, f) <= Size /\ Minus(back, f) \in Int
    BY ProducerLoads, Distances, ZeroApart
<1>4. /\ p.cached \in Cursor /\ p.seen \in Cursor
      /\ p.cached = (IF full THEN f ELSE producer.cached)
      /\ p.seen = (IF full THEN f ELSE producer.seen)
      /\ p.room = producer.room /\ p.pc = "ready" /\ p.value \in Value \union {None}
      /\ p \in [pc : {"ready", "refused", "write", "publish"},
                cached : Cursor, seen : Cursor, value : Value \union {None}, room : BOOLEAN]
    BY <1>2, <1>3 DEF Reload, IInv, Types
<1>5. /\ Minus(back, front) <= Minus(back, p.seen)
      /\ Minus(back, p.seen) <= Minus(back, p.cached)
      /\ Minus(back, p.cached) <= Size
      /\ Minus(back, p.cached) \in Int
      /\ Minus(back, p.seen) <= Minus(back, producer.seen)
    BY <1>3, <1>4, Distances DEF IInv, CachesLagSafely
<1>6. producer' = IF is_full(p.cached, back)
                  THEN [p EXCEPT !.pc = "refused"]
                  ELSE [p EXCEPT !.pc = "write", !.value = v]
    BY <1>1
<1>r. is_full(p.cached, back) => ~producer.room
    <2> SUFFICES ASSUME is_full(p.cached, back)
                 PROVE  ~producer.room
        OBVIOUS
    <2>1. full
        BY <1>4
    <2>2. Minus(back, f) = Size
        BY <1>4, <2>1 DEF is_full
    <2>3. ~(Minus(back, producer.seen) < Size)
        BY <1>3, <2>2, Distances
    <2> QED
        BY <2>3 DEF IInv, ToldOfSeen
<1> HIDE DEF p, full
<1>7. CASE is_full(p.cached, back)
    <2>1. /\ producer'.pc = "refused" /\ producer'.cached = p.cached
          /\ producer'.seen = p.seen /\ producer'.room = producer.room
        BY <1>4, <1>6, <1>7
    <2>2. Types'
        BY <1>2, <1>4, <1>6, <1>7 DEF IInv, Types
    <2>3. CachesLagSafely'
        BY <1>2, <1>5, <2>1, Distances DEF IInv, CachesLagSafely
    <2>4. PushHasRoom' /\ PopHasValue' /\ JoinedAreReady'
        BY <1>2, <2>1 DEF IInv, PushHasRoom, PopHasValue, JoinedAreReady
    <2>5. ToldOfSeen'
        BY <1>2, <1>r, <1>7, <2>1 DEF IInv, ToldOfSeen
    <2> QED
        BY <2>2, <2>3, <2>4, <2>5 DEF IInv
<1>8. CASE ~is_full(p.cached, back)
    <2>1. /\ producer'.pc = "write" /\ producer'.cached = p.cached
          /\ producer'.seen = p.seen /\ producer'.room = producer.room
          /\ producer'.value = v
        BY <1>4, <1>6, <1>8
    <2>2. Types'
        BY <1>2, <1>4, <1>6, <1>8 DEF IInv, Types
    <2>3. CachesLagSafely'
        BY <1>2, <1>5, <2>1, Distances DEF IInv, CachesLagSafely
    <2>4. Minus(back, p.cached) < Size
        BY <1>5, <1>8, Distances DEF is_full
    <2>5. PushHasRoom' /\ PopHasValue' /\ JoinedAreReady'
        BY <1>2, <2>1, <2>4 DEF IInv, PushHasRoom, PopHasValue, JoinedAreReady
    <2>6. producer.room => Minus(back, p.seen) < Size
        <3>1. Minus(back, p.seen) \in Int
            BY <1>4, Distances, ZeroApart
        <3> QED
            BY <1>5, <3>1, Distances DEF IInv, ToldOfSeen
    <2>7. ToldOfSeen'
        BY <1>2, <2>1, <2>6 DEF IInv, ToldOfSeen
    <2> QED
        BY <2>2, <2>3, <2>5, <2>7 DEF IInv
<1> QED
    BY <1>7, <1>8

LEMMA SeeRefusalKeeps == IInv /\ SeeRefusal => IInv'
<1> SUFFICES ASSUME IInv, SeeRefusal
             PROVE  IInv'
    OBVIOUS
<1>1. /\ producer.pc = "refused"
      /\ producer' = [producer EXCEPT !.pc = "ready"]
      /\ UNCHANGED <<values, front, back, consumer, received, answer, phase>>
    BY DEF SeeRefusal
<1>2. /\ producer'.pc = "ready" /\ producer'.cached = producer.cached
      /\ producer'.seen = producer.seen /\ producer'.room = producer.room
    BY <1>1 DEF IInv, Types
<1>3. Types'
    BY <1>1 DEF IInv, Types
<1> QED
    BY <1>1, <1>2, <1>3
    DEF IInv, CachesLagSafely, PushHasRoom, PopHasValue, ToldOfSeen, JoinedAreReady

\* The slots the push and the pop are at are different ones.
LEMMA SlotsApart ==
    ASSUME IInv, producer.pc = "write", NEW i \in Nat, i < Minus(back, front)
    PROVE  Slot(front + i) # Slot(back)
<1>1. Minus(back, front) < Size
    BY Distances DEF IInv, CachesLagSafely, PushHasRoom
<1>2. Slot(back) = Slot(front + Minus(back, front))
    BY Distances, SlotAtDistance
<1>3. Slot(front + i) # Slot(front + Minus(back, front))
    BY <1>1, Distances, SlotsDiffer
<1> QED
    BY <1>2, <1>3

LEMMA WriteSlotKeeps == IInv /\ WriteSlot => IInv'
<1> SUFFICES ASSUME IInv, WriteSlot
             PROVE  IInv'
    OBVIOUS
<1>1. /\ producer.pc = "write"
      /\ values' = [values EXCEPT ![Slot(back)] = producer.value]
      /\ producer' = [producer EXCEPT !.pc = "publish", !.value = None]
      /\ UNCHANGED <<front, back, consumer, received, answer, phase>>
    BY DEF WriteSlot
<1>2. /\ producer'.pc = "publish" /\ producer'.cached = producer.cached
      /\ producer'.seen = producer.seen /\ producer'.room = producer.room
    BY <1>1 DEF IInv, Types
<1>3. producer.value \in Value /\ Slot(back) \in 0 .. Size - 1
    <2>1. back \in Nat
        BY Distances DEF Cursor
    <2> QED
        BY <1>1, <2>1, SlotInRing DEF IInv, PushHasRoom
<1>4. Types'
    BY <1>1, <1>3 DEF IInv, Types
<1>5. PushHasRoom'
    BY <1>1, <1>2, <1>3 DEF IInv, PushHasRoom, Types
<1>6. PopHasValue'
    <2>1. consumer.pc = "release" => Slot(front) # Slot(back)
        <3> SUFFICES ASSUME consumer.pc = "release"
                     PROVE  Slot(front) # Slot(back)
            OBVIOUS
        <3>1. Minus(consumer.cached, front) > 0
            BY Distances, ZeroApart DEF IInv, PopHasValue
        <3>2. 0 < Minus(back, front)
            BY <3>1, Distances DEF IInv, CachesLagSafely
        <3>3. Slot(front + 0) # Slot(back)
            BY <1>1, <3>2, SlotsApart
        <3>4. front + 0 = front
            BY Distances DEF Cursor
        <3> QED
            BY <3>3, <3>4
    <2>2. front \in Nat
        BY Distances DEF Cursor
    <2>3. Slot(front) \in 0 .. Size - 1
        BY <2>2, SlotInRing
    <2>4. consumer.pc = "release" => values'[Slot(front)] = values[Slot(front)]
        BY <1>1, <2>1, <2>3 DEF IInv, Types
    <2> QED
        BY <1>1, <2>4 DEF IInv, PopHasValue
<1> QED
    BY <1>1, <1>2, <1>4, <1>5, <1>6 DEF IInv, CachesLagSafely, ToldOfSeen, JoinedAreReady

LEMMA PublishBackKeeps == IInv /\ PublishBack => IInv'
<1> SUFFICES ASSUME IInv, PublishBack
             PROVE  IInv'
    OBVIOUS
<1>1. /\ producer.pc = "publish"
      /\ back' = After(back)
      /\ producer' = [producer EXCEPT !.pc = "ready", !.room = FALSE]
      /\ UNCHANGED <<values, front, consumer, received, answer, phase>>
    BY DEF PublishBack
<1>2. /\ producer'.pc = "ready" /\ producer'.cached = producer.cached
      /\ producer'.seen = producer.seen /\ producer'.room = FALSE
    BY <1>1 DEF IInv, Types
<1>3. /\ Minus(back, front) <= Minus(back, producer.seen)
      /\ Minus(back, producer.seen) <= Minus(back, producer.cached)
      /\ Minus(back, producer.cached) < Size
    BY <1>1 DEF IInv, CachesLagSafely, PushHasRoom
<1>4. /\ Minus(back', front) = Minus(back, front) + 1
      /\ Minus(back', producer.seen) = Minus(back, producer.seen) + 1
      /\ Minus(back', producer.cached) = Minus(back, producer.cached) + 1
    <2>1. Minus(back, producer.cached) <= Size /\ Minus(back, producer.seen) <= Size
        BY <1>3, Distances
    <2> QED
        BY <1>1, <2>1, Distances, LaterMoves
<1>5. Types'
    <2>1. back' \in Cursor
        BY <1>1, Distances, AfterIs
    <2> QED
        BY <1>1, <2>1 DEF IInv, Types
<1>6. CachesLagSafely'
    BY <1>1, <1>2, <1>3, <1>4, Distances DEF IInv, CachesLagSafely
<1> QED
    BY <1>1, <1>2, <1>5, <1>6
    DEF IInv, PushHasRoom, PopHasValue, ToldOfSeen, JoinedAreReady

LEMMA AskEmptyKeeps == IInv /\ AskEmpty => IInv'
<1> SUFFICES ASSUME IInv, AskEmpty
             PROVE  IInv'
    OBVIOUS
<1>1. PICK b \in Loadable(consumer.seen, back) :
        consumer' = [consumer EXCEPT !.seen = b, !.some = ~is_empty(front, b)]
    BY DEF AskEmpty
<1>2. /\ consumer.pc = "ready" /\ phase = "threads"
      /\ UNCHANGED <<values, front, back, producer, received, answer, phase>>
    BY DEF AskEmpty
<1>3. /\ b \in Cursor
      /\ Minus(consumer.cached, front) <= Minus(b, front)
      /\ Minus(b, front) <= Minus(back, front)
    BY ConsumerLoads
<1>4. /\ consumer'.pc = "ready" /\ consumer'.seen = b
      /\ consumer'.cached = consumer.cached /\ consumer'.index = consumer.index
      /\ consumer'.some => b # front
    BY <1>1, <1>2 DEF IInv, Types, is_empty
<1>5. Types'
    BY <1>1, <1>2, <1>3 DEF IInv, Types, is_empty
<1> QED
    BY <1>2, <1>3, <1>4, <1>5
    DEF IInv, CachesLagSafely, PushHasRoom, PopHasValue, ToldOfSeen, JoinedAreReady

LEMMA AskLengthKeeps == IInv /\ AskLength => IInv'
<1> SUFFICES ASSUME IInv, AskLength
             PROVE  IInv'
    OBVIOUS
<1>1. phase = "threads" /\ UNCHANGED <<values, front, back, received, phase>>
    BY DEF AskLength
<1>2. CASE /\ consumer.pc = "ready"
           /\ \E b \in Loadable(consumer.seen, back) :
                consumer' = [consumer EXCEPT !.seen = b] /\ answer' = Minus(b, front)
           /\ UNCHANGED producer
    <2>1. PICK b \in Loadable(consumer.seen, back) :
            consumer' = [consumer EXCEPT !.seen = b] /\ answer' = Minus(b, front)
        BY <1>2
    <2>2. /\ b \in Cursor
          /\ Minus(consumer.seen, front) <= Minus(b, front)
          /\ Minus(consumer.cached, front) <= Minus(b, front)
          /\ Minus(b, front) <= Minus(back, front)
          /\ Minus(b, front) <= Size /\ Minus(b, front) \in Int
        BY ConsumerLoads, Distances, ZeroApart
    <2>3. /\ consumer'.pc = "ready" /\ consumer'.seen = b
          /\ consumer'.cached = consumer.cached /\ consumer'.index = consumer.index
          /\ consumer'.some = consumer.some
        BY <1>2, <2>1 DEF IInv, Types
    <2>4. Types'
        BY <1>1, <1>2, <2>1, <2>2 DEF IInv, Types
    <2>5. consumer.some => b # front
        <3>1. consumer.some => Minus(consumer.seen, front) > 0
            BY <1>1, Distances, ZeroApart DEF IInv, ToldOfSeen
        <3>2. b = front => Minus(b, front) = 0
            BY Distances, ZeroApart
        <3> QED
            BY <2>2, <3>1, <3>2, Distances
    <2> QED
        BY <1>1, <1>2, <2>1, <2>2, <2>3, <2>4, <2>5
        DEF IInv, CachesLagSafely, PushHasRoom, PopHasValue, ToldOfSeen, JoinedAreReady
<1>3. CASE /\ producer.pc = "ready"
           /\ \E f \in Loadable(producer.seen, front) :
                producer' = [producer EXCEPT !.seen = f] /\ answer' = Minus(back, f)
           /\ UNCHANGED consumer
    <2>1. PICK f \in Loadable(producer.seen, front) :
            producer' = [producer EXCEPT !.seen = f] /\ answer' = Minus(back, f)
        BY <1>3
    <2>2. /\ f \in Cursor
          /\ Minus(back, front) <= Minus(back, f)
          /\ Minus(back, f) <= Minus(back, producer.seen)
          /\ Minus(back, f) <= Size /\ Minus(back, f) \in Int
        BY ProducerLoads, Distances, ZeroApart
    <2>3. /\ producer'.pc = "ready" /\ producer'.seen = f
          /\ producer'.cached = producer.cached /\ producer'.room = producer.room
        BY <1>3, <2>1 DEF IInv, Types
    <2>4. Types'
        BY <1>1, <1>3, <2>1, <2>2 DEF IInv, Types
    <2>5. CachesLagSafely'
        BY <1>1, <1>3, <2>1, <2>2, <2>3, Distances DEF IInv, CachesLagSafely
    <2>6. ToldOfSeen'
        BY <1>1, <1>3, <2>2, <2>3, Distances DEF IInv, ToldOfSeen
    <2> QED
        BY <1>1, <1>3, <2>3, <2>4, <2>5, <2>6
        DEF IInv, PushHasRoom, PopHasValue, JoinedAreReady
<1> QED
    BY <1>2, <1>3 DEF AskLength

LEMMA TakeKeeps == IInv /\ Take => IInv'
<1> SUFFICES ASSUME IInv, Take
             PROVE  IInv'
    OBVIOUS
<1> DEFINE empty == is_empty(front, consumer.cached)
<1>1. PICK b \in Loadable(consumer.seen, back) :
        LET c == IF empty THEN Reload(consumer, b) ELSE consumer
        IN  IF is_empty(front, c.cached)
            THEN consumer' = [c EXCEPT !.pc = "refused"]
            ELSE consumer' \in Reading(c)
    BY DEF Take
<1> DEFINE c == IF empty THEN Reload(consumer, b) ELSE consumer
<1>2. /\ consumer.pc = "ready" /\ phase = "threads"
      /\ UNCHANGED <<values, front, back, producer, received, answer, phase>>
    BY DEF Take
<1>3. /\ b \in Cursor
      /\ Minus(consumer.seen, front) <= Minus(b, front)
      /\ Minus(b, front) <= Minus(back, front)
      /\ Minus(b, front) \in Int
    BY ConsumerLoads, Distances, ZeroApart
<1>4. /\ c.cached \in Cursor /\ c.seen \in Cursor
      /\ c.cached = (IF empty THEN b ELSE consumer.cached)
      /\ c.seen = (IF empty THEN b ELSE consumer.seen)
      /\ c.some = consumer.some /\ c.pc = "ready" /\ c.index = 0
      /\ c \in [pc : {"ready", "refused", "read", "look", "release"},
                cached : Cursor, seen : Cursor, index : Nat,
                value : Value \union {None}, some : BOOLEAN]
    BY <1>2, <1>3 DEF Reload, IInv, Types, PopHasValue
<1>5. /\ Minus(c.cached, front) <= Minus(c.seen, front)
      /\ Minus(c.seen, front) <= Minus(back, front)
      /\ Minus(consumer.seen, front) <= Minus(c.seen, front)
      /\ Minus(c.cached, front) \in Int /\ Minus(c.seen, front) \in Int
    BY <1>3, <1>4, Distances DEF IInv, CachesLagSafely
<1>6. IF is_empty(front, c.cached)
      THEN consumer' = [c EXCEPT !.pc = "refused"]
      ELSE consumer' \in Reading(c)
    BY <1>1
<1>r. is_empty(front, c.cached) => ~consumer.some
    <2> SUFFICES ASSUME is_empty(front, c.cached)
                 PROVE  ~consumer.some
        OBVIOUS
    <2>1. empty
        BY <1>4
    <2>2. Minus(b, front) = 0
        BY <1>3, <1>4, <2>1, Distances, ZeroApart DEF is_empty
    <2>3. Minus(consumer.seen, front) = 0
        BY <1>3, <2>2, Distances, ZeroApart
    <2>4. consumer.seen = front
        BY <2>3, Distances, ZeroApart
    <2> QED
        BY <1>2, <2>4 DEF IInv, ToldOfSeen
<1>s. consumer.some => c.seen # front
    <2>1. consumer.some => Minus(consumer.seen, front) > 0
        BY <1>2, Distances, ZeroApart DEF IInv, ToldOfSeen
    <2>2. c.seen = front => Minus(c.seen, front) = 0
        BY <1>4, Distances, ZeroApart
    <2> QED
        BY <1>5, <2>1, <2>2, Distances
<1> HIDE DEF c, empty
<1>7. CASE is_empty(front, c.cached)
    <2>1. /\ consumer'.pc = "refused" /\ consumer'.cached = c.cached
          /\ consumer'.seen = c.seen /\ consumer'.some = consumer.some
          /\ consumer'.index = 0
        BY <1>4, <1>6, <1>7
    <2>2. Types'
        BY <1>2, <1>4, <1>6, <1>7 DEF IInv, Types
    <2> QED
        BY <1>2, <1>5, <1>r, <1>7, <2>1, <2>2
        DEF IInv, CachesLagSafely, PushHasRoom, PopHasValue, ToldOfSeen, JoinedAreReady
<1>8. CASE ~is_empty(front, c.cached)
    <2>1. consumer' \in Reading(c)
        BY <1>6, <1>8
    <2>2. c.cached # front
        BY <1>8 DEF is_empty
    <2>3. CASE consumer' = [c EXCEPT !.pc = "read"]
        <3>1. /\ consumer'.pc = "read" /\ consumer'.cached = c.cached
              /\ consumer'.seen = c.seen /\ consumer'.some = consumer.some
              /\ consumer'.index = 0
            BY <1>4, <2>3
        <3>2. Types'
            BY <1>2, <1>4, <2>3 DEF IInv, Types
        <3> QED
            BY <1>2, <1>5, <1>s, <2>2, <3>1, <3>2
            DEF IInv, CachesLagSafely, PushHasRoom, PopHasValue, ToldOfSeen, JoinedAreReady
    <2>4. CASE \E i \in 0 .. Minus(c.cached, front) - 1 :
                 consumer' = [c EXCEPT !.pc = "look", !.index = i]
        <3>1. PICK i \in 0 .. Minus(c.cached, front) - 1 :
                consumer' = [c EXCEPT !.pc = "look", !.index = i]
            BY <2>4
        <3>2. i \in Nat /\ i < Minus(c.cached, front)
            BY <1>5, <3>1
        <3>3. /\ consumer'.pc = "look" /\ consumer'.cached = c.cached
              /\ consumer'.seen = c.seen /\ consumer'.some = consumer.some
              /\ consumer'.index = i
            BY <1>4, <3>1
        <3>4. Types'
            BY <1>2, <1>4, <3>1, <3>2 DEF IInv, Types
        <3> QED
            BY <1>2, <1>5, <1>s, <3>2, <3>3, <3>4
            DEF IInv, CachesLagSafely, PushHasRoom, PopHasValue, ToldOfSeen, JoinedAreReady
    <2> QED
        BY <2>1, <2>3, <2>4 DEF Reading
<1> QED
    BY <1>7, <1>8

LEMMA SeeNothingKeeps == IInv /\ SeeNothing => IInv'
<1> SUFFICES ASSUME IInv, SeeNothing
             PROVE  IInv'
    OBVIOUS
<1>1. /\ consumer.pc = "refused"
      /\ consumer' = [consumer EXCEPT !.pc = "ready"]
      /\ UNCHANGED <<values, front, back, producer, received, answer, phase>>
    BY DEF SeeNothing
<1>2. /\ consumer'.pc = "ready" /\ consumer'.cached = consumer.cached
      /\ consumer'.seen = consumer.seen /\ consumer'.some = consumer.some
      /\ consumer'.index = consumer.index
    BY <1>1 DEF IInv, Types
<1>3. Types'
    BY <1>1 DEF IInv, Types
<1> QED
    BY <1>1, <1>2, <1>3
    DEF IInv, CachesLagSafely, PushHasRoom, PopHasValue, ToldOfSeen, JoinedAreReady

LEMMA ReadSlotKeeps == IInv /\ ReadSlot => IInv'
<1> SUFFICES ASSUME IInv, ReadSlot
             PROVE  IInv'
    OBVIOUS
<1>1. /\ consumer.pc = "read"
      /\ consumer' = [consumer EXCEPT !.pc = "release", !.value = values[Slot(front)]]
      /\ UNCHANGED <<values, front, back, producer, received, answer, phase>>
    BY DEF ReadSlot
<1>2. values[Slot(front)] \in Value \union {None}
    <2>1. front \in Nat
        BY Distances DEF Cursor
    <2> QED
        BY <2>1, SlotInRing DEF IInv, Types
<1>3. /\ consumer'.pc = "release" /\ consumer'.cached = consumer.cached
      /\ consumer'.seen = consumer.seen /\ consumer'.some = consumer.some
      /\ consumer'.index = consumer.index /\ consumer'.value = values[Slot(front)]
    BY <1>1 DEF IInv, Types
<1>4. Types'
    BY <1>1, <1>2 DEF IInv, Types
<1> QED
    BY <1>1, <1>3, <1>4
    DEF IInv, CachesLagSafely, PushHasRoom, PopHasValue, ToldOfSeen, JoinedAreReady

LEMMA LookAtSlotKeeps == IInv /\ LookAtSlot => IInv'
<1> SUFFICES ASSUME IInv, LookAtSlot
             PROVE  IInv'
    OBVIOUS
<1>1. /\ consumer.pc = "look"
      /\ consumer' = [consumer EXCEPT !.pc = "ready", !.index = 0]
      /\ UNCHANGED <<values, front, back, producer, received, answer, phase>>
    BY DEF LookAtSlot
<1>2. /\ consumer'.pc = "ready" /\ consumer'.cached = consumer.cached
      /\ consumer'.seen = consumer.seen /\ consumer'.some = consumer.some
      /\ consumer'.index = 0
    BY <1>1 DEF IInv, Types
<1>3. Types'
    BY <1>1 DEF IInv, Types
<1> QED
    BY <1>1, <1>2, <1>3
    DEF IInv, CachesLagSafely, PushHasRoom, PopHasValue, ToldOfSeen, JoinedAreReady

\* When the front moves on, every distance shrinks by one: nothing known of the
\* queue is left behind.
LEMMA FrontMoves ==
    ASSUME IInv, front' = After(front), back # front
    PROVE  /\ front' \in Cursor
           /\ Minus(back, front') = Minus(back, front) - 1
           /\ \A c \in Cursor : c # front => Minus(c, front') = Minus(c, front) - 1
BY Distances, AfterIs, EarlierMoves

LEMMA ReleaseFrontKeeps == IInv /\ ReleaseFront => IInv'
<1> SUFFICES ASSUME IInv, ReleaseFront
             PROVE  IInv'
    OBVIOUS
<1>1. /\ consumer.pc = "release"
      /\ front' = After(front)
      /\ consumer' = [consumer EXCEPT !.pc = "ready", !.value = None, !.some = FALSE]
      /\ UNCHANGED <<values, back, producer, answer, phase>>
    BY DEF ReleaseFront
<1>2. /\ consumer'.pc = "ready" /\ consumer'.cached = consumer.cached
      /\ consumer'.seen = consumer.seen /\ consumer'.some = FALSE
      /\ consumer'.index = consumer.index
    BY <1>1 DEF IInv, Types
<1>3. consumer.cached # front /\ consumer.seen # front /\ back # front
    <2>1. consumer.cached # front
        BY <1>1 DEF IInv, PopHasValue
    <2>2. /\ Minus(consumer.cached, front) > 0
          /\ Minus(consumer.cached, front) <= Minus(consumer.seen, front)
          /\ Minus(consumer.seen, front) <= Minus(back, front)
        BY <2>1, Distances, ZeroApart DEF IInv, CachesLagSafely
    <2>3. Minus(consumer.seen, front) # 0 /\ Minus(back, front) # 0
        BY <2>2, Distances
    <2> QED
        BY <2>1, <2>3, Distances, ZeroApart
<1>4. /\ front' \in Cursor
      /\ Minus(back, front') = Minus(back, front) - 1
      /\ Minus(consumer.cached, front') = Minus(consumer.cached, front) - 1
      /\ Minus(consumer.seen, front') = Minus(consumer.seen, front) - 1
    BY <1>1, <1>3, Distances, FrontMoves
<1>5. Types'
    BY <1>1, <1>4 DEF IInv, Types
<1>6. CachesLagSafely'
    BY <1>1, <1>2, <1>4, Distances DEF IInv, CachesLagSafely
<1> QED
    BY <1>1, <1>2, <1>5, <1>6
    DEF IInv, PushHasRoom, PopHasValue, ToldOfSeen, JoinedAreReady

LEMMA PurgeOneKeeps == IInv /\ PurgeOne => IInv'
<1> SUFFICES ASSUME IInv, PurgeOne
             PROVE  IInv'
    OBVIOUS
<1>1. /\ phase = "purge" /\ back # front
      /\ front' = After(front)
      /\ consumer' = IF front = consumer.cached THEN Reload(consumer, back) ELSE consumer
      /\ UNCHANGED <<values, back, producer, answer, phase>>
    BY DEF PurgeOne, is_empty
<1>2. producer.pc = "ready" /\ consumer.pc = "ready"
    BY <1>1 DEF IInv, JoinedAreReady
<1>3. /\ consumer'.pc = "ready" /\ consumer'.index = consumer.index
      /\ consumer'.cached = (IF front = consumer.cached THEN back ELSE consumer.cached)
      /\ consumer'.seen = (IF front = consumer.cached THEN back ELSE consumer.seen)
      /\ consumer'.some = consumer.some
    BY <1>1, <1>2 DEF Reload, IInv, Types
<1>4. /\ front' \in Cursor
      /\ Minus(back, front') = Minus(back, front) - 1
      /\ \A c \in Cursor : c # front => Minus(c, front') = Minus(c, front) - 1
    BY <1>1, FrontMoves
<1>5. /\ Minus(consumer'.cached, front') <= Minus(consumer'.seen, front')
      /\ Minus(consumer'.seen, front') <= Minus(back, front')
    <2>1. CASE front = consumer.cached
        <3>1. Minus(back, front') \in Int
            BY <1>4, Distances
        <3> QED
            BY <1>3, <2>1, <3>1
    <2>2. CASE front # consumer.cached
        <3>1. /\ Minus(consumer.cached, front) > 0
              /\ Minus(consumer.cached, front) <= Minus(consumer.seen, front)
              /\ Minus(consumer.seen, front) <= Minus(back, front)
            BY <2>2, Distances, ZeroApart DEF IInv, CachesLagSafely
        <3>2. consumer.seen # front
            <4>1. Minus(consumer.seen, front) # 0
                BY <3>1, Distances
            <4> QED
                BY <4>1, Distances, ZeroApart
        <3>3. /\ Minus(consumer.cached, front') = Minus(consumer.cached, front) - 1
              /\ Minus(consumer.seen, front') = Minus(consumer.seen, front) - 1
            BY <1>4, <2>2, <3>2, Distances
        <3> QED
            BY <1>3, <1>4, <2>2, <3>1, <3>3, Distances
    <2> QED
        BY <2>1, <2>2
<1>6. Types'
    <2>1. consumer' \in [pc : {"ready", "refused", "read", "look", "release"},
                         cached : Cursor, seen : Cursor, index : Nat,
                         value : Value \union {None}, some : BOOLEAN]
        BY <1>1, Distances DEF Reload, IInv, Types
    <2> QED
        BY <1>1, <1>4, <2>1 DEF IInv, Types
<1>7. CachesLagSafely'
    BY <1>1, <1>4, <1>5, Distances DEF IInv, CachesLagSafely
<1> QED
    BY <1>1, <1>2, <1>3, <1>6, <1>7
    DEF IInv, PushHasRoom, PopHasValue, ToldOfSeen, JoinedAreReady

LEMMA DestroyKeeps == IInv /\ (JoinThreads \/ FreeRing) => IInv'
<1> SUFFICES ASSUME IInv, JoinThreads \/ FreeRing
             PROVE  IInv'
    OBVIOUS
<1>1. /\ UNCHANGED <<values, front, back, producer, consumer, received, answer>>
      /\ phase' \in {"purge", "destroyed"}
      /\ producer.pc = "ready" /\ consumer.pc = "ready"
    BY DEF JoinThreads, FreeRing, IInv, JoinedAreReady
<1> QED
    BY <1>1
    DEF IInv, Types, CachesLagSafely, PushHasRoom, PopHasValue, ToldOfSeen, JoinedAreReady

LEMMA StepIInv == IInv /\ [Next]_vars => IInv'
<1> SUFFICES ASSUME IInv, [Next]_vars
             PROVE  IInv'
    OBVIOUS
<1>1. CASE UNCHANGED vars
    BY <1>1
    DEF vars, IInv, Types, CachesLagSafely, PushHasRoom, PopHasValue, ToldOfSeen,
        JoinedAreReady
<1>2. CASE Next
    BY <1>2, AskFullKeeps, PushKeeps, SeeRefusalKeeps, WriteSlotKeeps, PublishBackKeeps,
       AskEmptyKeeps, AskLengthKeeps, TakeKeeps, SeeNothingKeeps, ReadSlotKeeps,
       LookAtSlotKeeps, ReleaseFrontKeeps, PurgeOneKeeps, DestroyKeeps
    DEF Next
<1> QED
    BY <1>1, <1>2

LEMMA IInvHolds == Spec => []IInv
BY InitIInv, StepIInv, PTL DEF Spec

-----------------------------------------------------------------------------
(* Safety.                                                                 *)

\* However late the loads of the cursors are, what either thread knows lags
\* behind safely, and a length it is told is at most Size (queue.c).
THEOREM CachesLag == Spec => []CachesLagSafely
<1>1. IInv => CachesLagSafely
    BY DEF IInv
<1> QED
    BY <1>1, IInvHolds, PTL

\* The plain accesses to the slots never meet: set_value of a push is at a slot
\* that no pop and no queue_get reads.
THEOREM AccessesDoNotRace == Spec => []NoRace
<1>1. IInv => NoRace
    <2> SUFFICES ASSUME IInv, producer.pc = "write", consumer.pc \in {"read", "look"}
                 PROVE  Slot(back) # Slot(front + consumer.index)
        BY DEF NoRace
    <2>1. Minus(consumer.cached, front) <= Minus(back, front)
        BY Distances DEF IInv, CachesLagSafely
    <2>2. consumer.index \in Nat
        BY DEF IInv, Types
    <2>3. consumer.index < Minus(consumer.cached, front)
        <3>1. CASE consumer.pc = "read"
            <4>1. consumer.cached # front /\ consumer.index = 0
                BY <3>1 DEF IInv, PopHasValue
            <4> QED
                BY <4>1, Distances, ZeroApart
        <3>2. CASE consumer.pc = "look"
            BY <3>2 DEF IInv, PopHasValue
        <3> QED
            BY <3>1, <3>2
    <2>4. consumer.index < Minus(back, front)
        BY <2>1, <2>2, <2>3, Distances
    <2> QED
        BY <2>2, <2>4, SlotsApart
<1> QED
    BY <1>1, IInvHolds, PTL

\* A push that follows an answer of false from queue_is_full is not refused, and
\* neither is a pop after queue_is_empty has answered false, as the assertions
\* of test_queue_multi_thread.c say.
THEOREM TheToldIsTrue == Spec => []ToldIsTrue
<1>1. IInv => ToldIsTrue
    BY DEF IInv, ToldOfSeen, ToldIsTrue
<1> QED
    BY <1>1, IInvHolds, PTL

-----------------------------------------------------------------------------
(* The ring is a queue.                                                    *)

\* Append and Tail, place by place.
LEMMA AppendIs ==
    ASSUME NEW S, NEW s \in Seq(S), NEW v \in S
    PROVE  Append(s, v) = [i \in 1 .. Len(s) + 1 |-> IF i = Len(s) + 1 THEN v ELSE s[i]]
<1> DEFINE f == Append(s, v)
<1>1. /\ f \in Seq(S) /\ Len(f) = Len(s) + 1 /\ Len(s) \in Nat
      /\ \A i \in 1 .. Len(s) : f[i] = s[i]
      /\ f[Len(s) + 1] = v
    BY AppendProperties
<1> HIDE DEF f
<1>2. f = [i \in 1 .. Len(f) |-> f[i]]
    BY <1>1
<1>3. f = [i \in 1 .. Len(s) + 1 |-> IF i = Len(s) + 1 THEN v ELSE s[i]]
    BY <1>1, <1>2
<1> QED
    BY <1>3 DEF f

LEMMA TailIs ==
    ASSUME NEW S, NEW s \in Seq(S), s # <<>>
    PROVE  Tail(s) = [i \in 1 .. Len(s) - 1 |-> s[i + 1]]
<1> DEFINE f == Tail(s)
<1>1. /\ f \in Seq(S) /\ Len(f) = Len(s) - 1
      /\ \A i \in 1 .. Len(f) : f[i] = s[i + 1]
    BY HeadTailProperties
<1> HIDE DEF f
<1>2. f = [i \in 1 .. Len(f) |-> f[i]]
    BY <1>1
<1>3. f = [i \in 1 .. Len(s) - 1 |-> s[i + 1]]
    BY <1>1, <1>2
<1> QED
    BY <1>3 DEF f

\* What is in the line, and how much.
LEMMA LineIs ==
    ASSUME IInv
    PROVE  /\ Line \in Seq(Value \union {None})
           /\ Len(Line) = Minus(back, front)
           /\ \A i \in 1 .. Len(Line) : Line[i] = values[Slot(front + i - 1)]
<1> DEFINE d == Minus(back, front)
<1>1. d \in Nat /\ front \in Nat
    BY Distances DEF Cursor
<1>2. \A i \in 1 .. d : values[Slot(front + i - 1)] \in Value \union {None}
    <2> SUFFICES ASSUME NEW i \in 1 .. d
                 PROVE  values[Slot(front + i - 1)] \in Value \union {None}
        OBVIOUS
    <2>1. front + i - 1 \in Nat
        BY <1>1
    <2> QED
        BY <2>1, SlotInRing DEF IInv, Types
<1>3. Line = [i \in 1 .. d |-> values[Slot(front + i - 1)]]
    BY DEF Line
<1> HIDE DEF d
<1>4. Line \in Seq(Value \union {None}) /\ Len(Line) = d
    BY <1>1, <1>2, <1>3
<1> QED
    BY <1>3, <1>4 DEF d

\* Nobody sees the queue change when neither cursor moves nor a slot between
\* them.
LEMMA LineStays ==
    ASSUME IInv, front' = front, back' = back,
           \A i \in Nat : i < Minus(back, front) =>
               values'[Slot(front + i)] = values[Slot(front + i)]
    PROVE  Line' = Line
<1> DEFINE d == Minus(back, front)
<1>1. d \in Nat /\ front \in Nat
    BY Distances DEF Cursor
<1>2. \A i \in 1 .. d : values'[Slot(front + i - 1)] = values[Slot(front + i - 1)]
    <2> SUFFICES ASSUME NEW i \in 1 .. d
                 PROVE  values'[Slot(front + i - 1)] = values[Slot(front + i - 1)]
        OBVIOUS
    <2>1. i - 1 \in Nat /\ i - 1 < d /\ front + i - 1 = front + (i - 1)
        BY <1>1
    <2> QED
        BY <2>1
<1>3. /\ Line = [i \in 1 .. d |-> values[Slot(front + i - 1)]]
      /\ Line' = [i \in 1 .. d |-> values'[Slot(front + i - 1)]]
    BY DEF Line
<1> HIDE DEF d
<1> QED
    BY <1>2, <1>3

\* The store of back_cursor puts the pushed value at the end of the line.
LEMMA PublishJoins == IInv /\ PublishBack => \E v \in Value : BQ!Join(v)
<1> SUFFICES ASSUME IInv, PublishBack
             PROVE  \E v \in Value : BQ!Join(v)
    OBVIOUS
<1> DEFINE d == Minus(back, front)
           v == values[Slot(back)]
           after == [i \in 1 .. d + 1 |-> values[Slot(front + i - 1)]]
<1>1. /\ producer.pc = "publish" /\ back' = After(back)
      /\ UNCHANGED <<values, front, received>>
    BY DEF PublishBack
<1>2. d \in Nat /\ d < Size /\ front \in Nat
    BY <1>1, Distances DEF Cursor, IInv, CachesLagSafely, PushHasRoom
<1>3. v \in Value
    BY <1>1 DEF IInv, PushHasRoom
<1>4. Minus(back', front) = d + 1
    BY <1>1, Distances, LaterMoves
<1>5. Line' = after
    BY <1>1, <1>4 DEF Line
<1>6. v = values[Slot(front + d)]
    BY Distances, SlotAtDistance
<1>7. /\ Line \in Seq(Value \union {None})
      /\ Len(Line) = d
      /\ \A i \in 1 .. d : Line[i] = values[Slot(front + i - 1)]
    BY LineIs
<1>8. after[d + 1] = v
    <2>1. front + (d + 1) - 1 = front + d
        BY <1>2
    <2> QED
        BY <1>2, <1>6, <2>1
<1>9. \A i \in 1 .. d : after[i] = Line[i]
    BY <1>2, <1>7
<1>10. after = Append(Line, v)
    <2>1. after = [i \in 1 .. d + 1 |-> after[i]]
        OBVIOUS
    <2> HIDE DEF after, d, v
    <2>2. Append(Line, v) = [i \in 1 .. d + 1 |-> IF i = d + 1 THEN v ELSE Line[i]]
        BY <1>3, <1>7, AppendIs
    <2>3. \A i \in 1 .. d + 1 : after[i] = IF i = d + 1 THEN v ELSE Line[i]
        BY <1>2, <1>8, <1>9
    <2> QED
        BY <2>1, <2>2, <2>3
<1> QED
    BY <1>1, <1>2, <1>3, <1>5, <1>7, <1>10 DEF BQ!Join

\* A store of front_cursor takes the first of the line away.
LEMMA FrontLeaves ==
    ASSUME IInv, front' = After(front), back # front,
           values' = values, back' = back, received' = values[Slot(front)]
    PROVE  BQ!Leave
<1> DEFINE d == Minus(back, front)
           after == [i \in 1 .. d - 1 |-> values[Slot(front' + i - 1)]]
<1>1. d \in Nat /\ d > 0 /\ front \in Nat /\ front' \in Nat
    BY Distances, ZeroApart, AfterIs DEF Cursor
<1>2. Minus(back', front') = d - 1
    BY FrontMoves
<1>3. Line' = after
    BY <1>2 DEF Line
<1>4. /\ Line \in Seq(Value \union {None})
      /\ Len(Line) = d
      /\ \A i \in 1 .. d : Line[i] = values[Slot(front + i - 1)]
    BY LineIs
<1>5. Line # <<>> /\ Head(Line) = values[Slot(front)]
    <2>1. Line[1] = values[Slot(front)]
        <3>1. 1 \in 1 .. d /\ front + 1 - 1 = front
            BY <1>1
        <3> QED
            BY <1>4, <3>1
    <2> HIDE DEF d
    <2> QED
        BY <1>1, <1>4, <2>1
<1>6. ASSUME NEW i \in 1 .. d - 1
      PROVE  after[i] = Line[i + 1]
    <2>1. i - 1 \in Nat /\ i + 1 \in 1 .. d
        BY <1>1
    <2>2. Slot(After(front) + (i - 1)) = Slot(front + 1 + (i - 1))
        BY <2>1, Distances, SlotAfter
    <2>3. /\ After(front) + (i - 1) = front' + i - 1
          /\ front + 1 + (i - 1) = front + (i + 1) - 1
        BY <1>1, <2>1
    <2>4. Line[i + 1] = values[Slot(front + (i + 1) - 1)]
        BY <1>4, <2>1
    <2> QED
        BY <2>2, <2>3, <2>4
<1>7. after = Tail(Line)
    <2>1. after = [i \in 1 .. d - 1 |-> after[i]]
        OBVIOUS
    <2>2. Tail(Line) = [i \in 1 .. d - 1 |-> Line[i + 1]]
        <3> HIDE DEF d
        <3> QED
            BY <1>4, <1>5, TailIs, SMTT(30)
    <2> HIDE DEF after, d
    <2> QED
        BY <1>6, <2>1, <2>2
<1> QED
    BY <1>3, <1>5, <1>7 DEF BQ!Leave

LEMMA StepRefines == IInv /\ [Next]_vars => [BQ!LineNext]_(BQ!lineVars)
<1> SUFFICES ASSUME IInv, [Next]_vars
             PROVE  [BQ!LineNext]_(BQ!lineVars)
    OBVIOUS
<1>1. CASE UNCHANGED <<values, front, back, received>>
    <2>1. Line' = Line
        BY <1>1, LineStays
    <2> QED
        BY <1>1, <2>1 DEF BQ!lineVars
<1>2. CASE WriteSlot
    <2>1. /\ producer.pc = "write"
          /\ values' = [values EXCEPT ![Slot(back)] = producer.value]
          /\ UNCHANGED <<front, back, received>>
        BY <1>2 DEF WriteSlot
    <2>2. ASSUME NEW i \in Nat, i < Minus(back, front)
          PROVE  values'[Slot(front + i)] = values[Slot(front + i)]
        <3>1. Slot(front + i) # Slot(back)
            BY <2>1, <2>2, SlotsApart
        <3>2. Slot(front + i) \in 0 .. Size - 1
            <4>1. front + i \in Nat
                BY Distances DEF Cursor
            <4> QED
                BY <4>1, SlotInRing
        <3> QED
            BY <2>1, <3>1, <3>2 DEF IInv, Types
    <2>3. Line' = Line
        BY <2>1, <2>2, LineStays
    <2> QED
        BY <2>1, <2>3 DEF BQ!lineVars
<1>3. CASE PublishBack
    BY <1>3, PublishJoins DEF BQ!LineNext
<1>4. CASE ReleaseFront
    <2>1. /\ consumer.pc = "release" /\ front' = After(front)
          /\ received' = consumer.value
          /\ UNCHANGED <<values, back>>
        BY <1>4 DEF ReleaseFront
    <2>2. consumer.value = values[Slot(front)] /\ consumer.cached # front
        BY <2>1 DEF IInv, PopHasValue
    <2>3. back # front
        <3>1. Minus(consumer.cached, front) > 0
            BY <2>2, Distances, ZeroApart
        <3>2. Minus(back, front) # 0
            BY <3>1, Distances DEF IInv, CachesLagSafely
        <3> QED
            BY <3>2, Distances, ZeroApart
    <2> QED
        BY <2>1, <2>2, <2>3, FrontLeaves DEF BQ!LineNext
<1>5. CASE PurgeOne
    BY <1>5, FrontLeaves DEF PurgeOne, is_empty, BQ!LineNext
<1> QED
    BY <1>1, <1>2, <1>3, <1>4, <1>5
    DEF Next, vars, AskFull, Push, SeeRefusal, AskEmpty, AskLength, Take, SeeNothing,
        ReadSlot, LookAtSlot, JoinThreads, FreeRing

\* The ring of queue.c is a bounded first-in first-out queue of values, for every
\* size: nothing is lost, doubled or overtaken, also across the wrap of the
\* cursors and while the ring is purged.
THEOREM RingIsAQueue == Spec => FifoSpec
<1>1. Init => BQ!LineInit
    <2> SUFFICES ASSUME Init
                 PROVE  BQ!LineInit
        OBVIOUS
    <2>1. Minus(back, front) = 0
        BY WrapIsTwice, ZeroApart DEF Init, Cursor
    <2>2. Line = <<>>
        BY InitIInv, LineIs, <2>1
    <2> QED
        BY <2>2 DEF Init, BQ!LineInit
<1>2. IInv /\ [Next]_vars => [BQ!LineNext]_(BQ!lineVars)
    BY StepRefines
<1> QED
    BY <1>1, <1>2, IInvHolds, PTL DEF Spec, FifoSpec, BQ!LineSpec
=============================================================================
