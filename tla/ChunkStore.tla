----------------------------- MODULE ChunkStore -----------------------------
(***************************************************************************)
(* src/src/chunk_store.hpp: the append-only store the decode worker fills  *)
(* while a front end reads rows from it.                                   *)
(*                                                                         *)
(* A store is a table of fixed-size blocks plus a count.  The table is a   *)
(* std::vector of pointers to blocks: the blocks never move, the table     *)
(* does, exactly when its capacity changes.  `capacity' is therefore the   *)
(* part of the store a concurrent reader depends on.                       *)
(***************************************************************************)
EXTENDS Naturals, Sequences

CONSTANTS
    ChunkSize,   \* elements of a block
    Unset        \* what a slot of a new block holds

ASSUME ChunkSizeAssumption == ChunkSize \in Nat \ {0}

Slots == 0 .. ChunkSize - 1

NewBlock == [slot \in Slots |-> Unset]

\* The stores that hold elements of T.
StoreOf(T) == [table    : Seq([Slots -> T \cup {Unset}]),
               capacity : Nat,
               size     : Nat]

EmptyStore == [table |-> <<>>, capacity |-> 0, size |-> 0]

\* How the vector of blocks grows once it is full (the library's doubling).
Grown(capacity) == IF capacity = 0 THEN 1 ELSE 2 * capacity

\* Mutant: no block for the elements past the last whole one.
BlocksForRoundedDown(maxElements) == maxElements \div ChunkSize

\* The blocks reserveFor() asks the table to hold.
BlocksFor(maxElements) == (maxElements \div ChunkSize) + 1

ReserveFor(store, maxElements) ==
    [store EXCEPT !.capacity = IF BlocksFor(maxElements) > @
                                 THEN BlocksFor(maxElements) ELSE @]

PushBack(store, value) ==
    LET slot  == store.size % ChunkSize
        full  == Len(store.table) = store.capacity
        table == IF slot = 0 THEN Append(store.table, NewBlock) ELSE store.table
    IN  [table    |-> [table EXCEPT ![Len(table)] = [@ EXCEPT ![slot] = value]],
         capacity |-> IF slot = 0 /\ full THEN Grown(store.capacity) ELSE store.capacity,
         size     |-> store.size + 1]

\* operator[]: nothing checks the index.
At(store, index) == store.table[(index \div ChunkSize) + 1][index % ChunkSize]

\* Blocks that n elements occupy.
BlocksHolding(n) == (n \div ChunkSize) + (IF n % ChunkSize = 0 THEN 0 ELSE 1)

\* A store built by the operations above: as many blocks as its size takes, and
\* an element of T under every index below the size.
Holds(store, T) ==
    /\ store \in StoreOf(T)
    /\ Len(store.table) = BlocksHolding(store.size)
    /\ \A index \in 0 .. store.size - 1 : At(store, index) \in T

\* clear() drops the blocks and keeps the table's capacity.
Clear(store) == [table |-> <<>>, capacity |-> store.capacity, size |-> 0]

\* shrink_to_fit() reallocates the table to the blocks it holds.
ShrinkToFit(store) == [store EXCEPT !.capacity = Len(store.table)]
=============================================================================
