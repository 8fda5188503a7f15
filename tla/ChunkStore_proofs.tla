-------------------------- MODULE ChunkStore_proofs --------------------------
(***************************************************************************)
(* What the operations of ChunkStore do to the rows a reader may index.    *)
(***************************************************************************)
EXTENDS ChunkStore, Integers, TLAPS

\* Quotient and remainder by the block size.
LEMMA DivMod ==
    ASSUME NEW n \in Nat
    PROVE  /\ n \div ChunkSize \in Nat
           /\ n % ChunkSize \in Slots
           /\ n = ChunkSize * (n \div ChunkSize) + (n % ChunkSize)
  BY ChunkSizeAssumption DEF Slots

\* They are the only ones.
LEMMA DivModUnique ==
    ASSUME NEW n \in Nat, NEW q \in Nat, NEW r \in Slots,
           n = ChunkSize * q + r
    PROVE  n \div ChunkSize = q /\ n % ChunkSize = r
  BY ChunkSizeAssumption DEF Slots

\* The next index is the next slot of the same block, or the first of the next.
LEMMA NextSlot ==
    ASSUME NEW n \in Nat
    PROVE  IF n % ChunkSize = ChunkSize - 1
             THEN /\ (n + 1) % ChunkSize = 0
                  /\ (n + 1) \div ChunkSize = (n \div ChunkSize) + 1
             ELSE /\ (n + 1) % ChunkSize = (n % ChunkSize) + 1
                  /\ (n + 1) \div ChunkSize = n \div ChunkSize
<1> DEFINE q == n \div ChunkSize
           r == n % ChunkSize
<1>1. q \in Nat /\ r \in Slots /\ n = ChunkSize * q + r
  BY DivMod
<1>2. CASE r = ChunkSize - 1
  <2>1. n + 1 = ChunkSize * (q + 1) + 0
    BY <1>1, <1>2, ChunkSizeAssumption DEF Slots
  <2>2. q + 1 \in Nat /\ 0 \in Slots
    BY <1>1, ChunkSizeAssumption DEF Slots
  <2>3. (n + 1) \div ChunkSize = q + 1 /\ (n + 1) % ChunkSize = 0
    BY <2>1, <2>2, DivModUnique, n + 1 \in Nat
  <2>4. QED
    BY <2>3, <1>2
<1>3. CASE r # ChunkSize - 1
  <2>1. r + 1 \in Slots /\ n + 1 = ChunkSize * q + (r + 1)
    BY <1>1, <1>3, ChunkSizeAssumption DEF Slots
  <2>2. (n + 1) \div ChunkSize = q /\ (n + 1) % ChunkSize = r + 1
    BY <1>1, <2>1, DivModUnique, n + 1 \in Nat
  <2>3. QED
    BY <2>2, <1>3
<1>4. QED
  BY <1>2, <1>3

LEMMA DivMonotone ==
    ASSUME NEW m \in Nat, NEW n \in Nat, m <= n
    PROVE  m \div ChunkSize <= n \div ChunkSize
  BY ChunkSizeAssumption

\* An index below the size falls in a block the table has.
LEMMA IndexInTable ==
    ASSUME NEW n \in Nat, NEW i \in 0 .. n - 1
    PROVE  /\ i \in Nat
           /\ (i \div ChunkSize) + 1 \in 1 .. BlocksHolding(n)
           /\ i % ChunkSize \in Slots
<1>1. i \in Nat /\ i <= n /\ i < n
  OBVIOUS
<1>2. i \div ChunkSize \in Nat /\ i % ChunkSize \in Slots
      /\ i = ChunkSize * (i \div ChunkSize) + (i % ChunkSize)
  BY <1>1, DivMod
<1>3. n \div ChunkSize \in Nat /\ n % ChunkSize \in Slots
      /\ n = ChunkSize * (n \div ChunkSize) + (n % ChunkSize)
  BY DivMod
<1>4. i \div ChunkSize <= n \div ChunkSize
  BY <1>1, DivMonotone
<1>5. CASE n % ChunkSize = 0
  <2>1. i \div ChunkSize # n \div ChunkSize
    BY <1>1, <1>2, <1>3, <1>5, ChunkSizeAssumption DEF Slots
  <2>2. QED
    BY <1>1, <1>2, <1>3, <1>4, <1>5, <2>1 DEF BlocksHolding
<1>6. CASE n % ChunkSize # 0
  BY <1>1, <1>2, <1>3, <1>4, <1>6 DEF BlocksHolding
<1>7. QED
  BY <1>5, <1>6

\* Overwriting one element of a sequence.
LEMMA ExceptSeq ==
    ASSUME NEW S, NEW s \in Seq(S), NEW k \in 1 .. Len(s), NEW e \in S
    PROVE  /\ [s EXCEPT ![k] = e] \in Seq(S)
           /\ Len([s EXCEPT ![k] = e]) = Len(s)
           /\ [s EXCEPT ![k] = e][k] = e
           /\ \A j \in 1 .. Len(s) : j # k => [s EXCEPT ![k] = e][j] = s[j]
  OBVIOUS

\* push_back keeps the store well formed, puts the value at the index that was
\* the size, and leaves every element below it where and what it was.
LEMMA PushBackAppends ==
    ASSUME NEW T, NEW store, Holds(store, T), NEW value \in T
    PROVE  /\ Holds(PushBack(store, value), T)
           /\ PushBack(store, value).size = store.size + 1
           /\ At(PushBack(store, value), store.size) = value
           /\ \A i \in 0 .. store.size - 1 :
                At(PushBack(store, value), i) = At(store, i)
<1> DEFINE n == store.size
           slot == n % ChunkSize
           table == IF slot = 0 THEN Append(store.table, NewBlock) ELSE store.table
           new == PushBack(store, value)
           B == [Slots -> T \cup {Unset}]
<1>1. /\ store \in StoreOf(T)
      /\ n \in Nat /\ store.capacity \in Nat /\ store.table \in Seq(B)
      /\ Len(store.table) = BlocksHolding(n)
  BY DEF Holds, StoreOf
<1>2. /\ n \div ChunkSize \in Nat /\ slot \in Slots
      /\ n = ChunkSize * (n \div ChunkSize) + slot
  BY <1>1, DivMod
<1>3. /\ table \in Seq(B)
      /\ Len(table) = (n \div ChunkSize) + 1
      /\ \A k \in 1 .. Len(store.table) : table[k] = store.table[k]
  <2>1. NewBlock \in B
    BY DEF NewBlock
  <2>2. CASE slot = 0
    BY <1>1, <1>2, <2>1, <2>2 DEF BlocksHolding
  <2>3. CASE slot # 0
    BY <1>1, <1>2, <2>3 DEF BlocksHolding
  <2>4. QED
    BY <2>2, <2>3
<1> DEFINE last == Len(table)
           written == [table EXCEPT ![last] = [@ EXCEPT ![slot] = value]]
<1>4. /\ last \in 1 .. Len(table)
      /\ table[last] \in B
      /\ written \in Seq(B)
      /\ Len(written) = last
      /\ written[last] = [table[last] EXCEPT ![slot] = value]
      /\ \A k \in 1 .. last : k # last => written[k] = table[k]
  <2>1. last \in 1 .. Len(table) /\ table[last] \in B
    BY <1>2, <1>3
  <2>2. [table[last] EXCEPT ![slot] = value] \in B
    BY <1>2, <2>1
  <2> HIDE DEF table, slot, B
  <2>3. QED
    BY <1>3, <2>1, <2>2, ExceptSeq
<1>5. /\ new.table = written /\ new.size = n + 1
      /\ new.capacity = IF slot = 0 /\ Len(store.table) = store.capacity
                          THEN Grown(store.capacity) ELSE store.capacity
      /\ new = [table |-> new.table, capacity |-> new.capacity, size |-> new.size]
  BY DEF PushBack
<1>6. /\ last = (n \div ChunkSize) + 1 /\ Len(new.table) = last
      /\ last \in 1 .. last
      /\ new.table[last] = [table[last] EXCEPT ![slot] = value]
      /\ table[last] \in [Slots -> T \cup {Unset}]
      /\ \A k \in 1 .. last : k # last => new.table[k] = table[k]
  BY <1>3, <1>4, <1>5
<1>7. new.table \in Seq(B)
  BY <1>4, <1>5
<1> HIDE DEF table, last, written, new, B
<1>8. new \in StoreOf(T)
  <2>1. new.capacity \in Nat
    BY <1>1, <1>5 DEF Grown
  <2>2. new.size \in Nat
    BY <1>1, <1>5
  <2>3. QED
    BY <1>5, <1>7, <2>1, <2>2 DEF StoreOf, B
<1>9. Len(new.table) = BlocksHolding(n + 1)
  <2>0. n \in Nat
    BY <1>1
  <2>1. CASE slot = ChunkSize - 1
    <3>1. (n + 1) % ChunkSize = 0 /\ (n + 1) \div ChunkSize = (n \div ChunkSize) + 1
      BY <2>0, <2>1, NextSlot
    <3>2. BlocksHolding(n + 1) = (n \div ChunkSize) + 1 + 0
      BY <3>1 DEF BlocksHolding
    <3>3. QED
      BY <1>2, <1>6, <3>2
  <2>2. CASE slot # ChunkSize - 1
    <3>1. (n + 1) % ChunkSize = slot + 1 /\ (n + 1) \div ChunkSize = n \div ChunkSize
      BY <2>0, <2>2, NextSlot
    <3>2. slot + 1 # 0
      BY <1>2 DEF Slots
    <3>3. BlocksHolding(n + 1) = (n \div ChunkSize) + 1
      BY <3>1, <3>2 DEF BlocksHolding
    <3>4. QED
      BY <1>6, <3>3
  <2>3. QED
    BY <2>1, <2>2
<1>10. At(new, n) = value
  <2>1. new.table[last][slot] = value
    BY <1>2, <1>6
  <2>2. QED
    BY <1>6, <2>1 DEF At
<1>11. ASSUME NEW i \in 0 .. n - 1
       PROVE  At(new, i) = At(store, i)
  <2> DEFINE k == (i \div ChunkSize) + 1
             j == i % ChunkSize
  <2>1. k \in 1 .. Len(store.table) /\ j \in Slots /\ i \in Nat
    BY <1>1, IndexInTable
  <2>2. i \div ChunkSize \in Nat /\ i = ChunkSize * (i \div ChunkSize) + j
    BY <2>1, DivMod
  <2>3. table[k] = store.table[k]
    BY <2>1, <1>3
  <2>4. k \in 1 .. last
    BY <2>1, <1>1, <1>2, <1>6 DEF BlocksHolding
  <2>5. ASSUME k = last PROVE j # slot
    <3>1. i \div ChunkSize = n \div ChunkSize
      <4>1. (i \div ChunkSize) + 1 = (n \div ChunkSize) + 1
        BY <2>5, <1>6
      <4> HIDE DEF n
      <4>2. QED
        BY <4>1, <2>2, <1>2
    <3>2. n # i
      BY <1>1
    <3>3. QED
      BY <3>1, <3>2, <2>2, <1>2
  <2>6. new.table[k][j] = table[k][j]
    BY <2>1, <2>4, <2>5, <1>6
  <2>7. QED
    BY <2>3, <2>6 DEF At
<1>12. \A i \in 0 .. (n + 1) - 1 : At(new, i) \in T
  <2>1. ASSUME NEW i \in 0 .. (n + 1) - 1
        PROVE  i = n \/ i \in 0 .. n - 1
    BY <1>1
  <2>2. QED
    BY <2>1, <1>10, <1>11 DEF Holds
<1>13. QED
  BY <1>5, <1>8, <1>9, <1>10, <1>11, <1>12 DEF Holds, new

\* A table sized for max elements is not outgrown by the first max of them.
LEMMA ReservedIsEnough ==
    ASSUME NEW T, NEW store, Holds(store, T), NEW value,
           NEW max \in Nat, store.size < max, store.capacity >= BlocksFor(max)
    PROVE  PushBack(store, value).capacity = store.capacity
<1> DEFINE n == store.size
<1>1. n \in Nat /\ store.capacity \in Nat /\ Len(store.table) = BlocksHolding(n)
  BY DEF Holds, StoreOf
<1>2. n \div ChunkSize <= max \div ChunkSize
  BY <1>1, DivMonotone
<1>3. n \div ChunkSize \in Nat /\ max \div ChunkSize \in Nat
  BY <1>1, DivMod
<1>4. n % ChunkSize = 0 => Len(store.table) < store.capacity
  BY <1>1, <1>2, <1>3 DEF BlocksHolding, BlocksFor
<1>5. QED
  BY <1>1, <1>4 DEF PushBack

\* clear() and reserveFor() leave a well-formed store.
LEMMA EmptyHolds ==
    ASSUME NEW T
    PROVE  Holds(EmptyStore, T)
<1>1. 0 \div ChunkSize = 0 /\ 0 % ChunkSize = 0
  BY ChunkSizeAssumption
<1>2. QED
  BY <1>1 DEF Holds, StoreOf, EmptyStore, BlocksHolding

LEMMA ClearHolds ==
    ASSUME NEW T, NEW store, Holds(store, T)
    PROVE  Holds(Clear(store), T) /\ Clear(store).size = 0
<1>1. 0 \div ChunkSize = 0 /\ 0 % ChunkSize = 0
  BY ChunkSizeAssumption
<1>2. Clear(store) \in StoreOf(T)
  BY DEF Clear, Holds, StoreOf
<1>3. QED
  BY <1>1, <1>2 DEF Clear, Holds, BlocksHolding

LEMMA ReserveHolds ==
    ASSUME NEW T, NEW store, Holds(store, T), NEW max \in Nat
    PROVE  /\ Holds(ReserveFor(store, max), T)
           /\ ReserveFor(store, max).size = store.size
           /\ ReserveFor(store, max).capacity >= BlocksFor(max)
<1>1. BlocksFor(max) \in Nat
  BY DivMod DEF BlocksFor
<1>2. QED
  BY <1>1 DEF Holds, StoreOf, ReserveFor, At

\* shrinkToFit() gives back the table's slack and touches no element: legal only when
\* nobody is reading, for the table it leaves is full.
LEMMA ShrinkHolds ==
    ASSUME NEW T, NEW store, Holds(store, T)
    PROVE  /\ Holds(ShrinkToFit(store), T)
           /\ ShrinkToFit(store).size = store.size
           /\ \A i \in 0 .. store.size - 1 : At(ShrinkToFit(store), i) = At(store, i)
  BY DEF Holds, StoreOf, ShrinkToFit, At
=============================================================================
