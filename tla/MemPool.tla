-------------------------------- MODULE MemPool --------------------------------
(***************************************************************************)
(* common/mem_pool.h: a pool of a fixed number of blocks.  A pool is the   *)
(* used flags of its blocks and the stack free_ of the indices of the free *)
(* ones.  The objects in the blocks belong to the owner of the pool.       *)
(***************************************************************************)
EXTENDS Integers, Sequences, SequencesExt

\* The constructor fills the stack so that block 0 is handed out first.
NewPool(capacity) ==
    [used |-> [i \in 0 .. capacity - 1 |-> FALSE],
     free |-> [i \in 1 .. capacity |-> capacity - i]]

\* available()
Available(pool) == Len(pool.free)

\* allocate() constructs the object in the block on top of the stack, if any.
NextBlock(pool) == Last(pool.free)
Allocate(pool) ==
    [used |-> [pool.used EXCEPT ![NextBlock(pool)] = TRUE], free |-> Front(pool.free)]

\* The two ASSERTs of deallocate(): a block of this pool, and in use.
MayDeallocate(pool, i) == i \in DOMAIN pool.used /\ pool.used[i]

\* deallocate(): back on the stack, to be reused first.
Deallocate(pool, i) ==
    [used |-> [pool.used EXCEPT ![i] = FALSE], free |-> Append(pool.free, i)]

\* Releasing several blocks one after the other.
DeallocateAll(pool, blocks) == FoldLeft(Deallocate, pool, blocks)

\* Every block is either in use or on the stack, once.
PoolSound(pool) ==
    /\ \A i, j \in 1 .. Len(pool.free) : pool.free[i] = pool.free[j] => i = j
    /\ ToSet(pool.free) = {i \in DOMAIN pool.used : ~pool.used[i]}
================================================================================
