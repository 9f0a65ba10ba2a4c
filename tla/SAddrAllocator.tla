--------------------------- MODULE SAddrAllocator ---------------------------
(***************************************************************************)
(* Addresses and their allocation (SAddr.hpp, SAddrAllocator.hpp).  The    *)
(* three top bits of an address say what storage it belongs to and whether *)
(* it is internal; the rest is an offset below Limit.  A pool is the first *)
(* offset of its storage that has not been given out.  UIntSize is 2^32 in *)
(* the code: sizes and alignments are unsigned ints, and so is the mask    *)
(* that aligns an address.                                                 *)
(***************************************************************************)
EXTENDS Integers, Sequences

CONSTANTS UIntSize, Limit,
          Sizes, Alignments,    \* what is asked for
          MaxPool               \* how far a pool may grow

ASSUME SizesAssumption ==
  /\ UIntSize \in Nat \ {0} /\ Limit \in Nat /\ UIntSize <= Limit
  /\ Sizes \subseteq Nat /\ Alignments \subseteq Nat \ {0}
  /\ MaxPool \in Nat /\ MaxPool < UIntSize

Storages == {"static", "automatic", "heap"}

\* The heap starts at 1, so that no address is null.
InitialPools == [s \in Storages |-> IF s = "heap" THEN 1 ELSE 0]

\* create(): an offset that does not fit below the flags is a bug.
create(storage, value, internal) ==
  [storage |-> storage, internal |-> internal, value |-> value, ok |-> value < Limit]

\* Faulty variant: no room is left for the alignment.
ClaimedExactly(size, alignment) == size

\* How far allocate() moves the pool, in unsigned arithmetic.
Claimed(size, alignment) == (alignment - 1 + size) % UIntSize

\* The aligned offset: ~(alignment - 1) clears the bits above an unsigned int
\* and, as alignments are powers of two, the remainder.
Aligned(pool, alignment) ==
  LET x == (pool + alignment - 1) % UIntSize IN x - (x % alignment)

allocate(pools, storage, size, alignment, internal) ==
  [addr  |-> create(storage, Aligned(pools[storage], alignment), internal),
   pools |-> [pools EXCEPT ![storage] = @ + Claimed(size, alignment)]]
-----------------------------------------------------------------------------
(***************************************************************************)
(* An allocator at work: any sequence of allocations from its three pools, *)
(* as long as the pools fit an unsigned int.  blocks are those given out   *)
(* so far, in that order.                                                  *)
(***************************************************************************)
CONSTANT MaxBlocks      \* how many allocations are made

VARIABLES pools, blocks
poolVars == <<pools, blocks>>

PoolsInit == pools = InitialPools /\ blocks = <<>>

\* allocStatic(), allocAutomatic() and allocHeap().
Allocate(st, n, al, int) ==
  LET r == allocate(pools, st, n, al, int)
  IN /\ pools[st] + al - 1 + n <= MaxPool /\ Len(blocks) < MaxBlocks
     /\ pools' = r.pools
     /\ blocks' = Append(blocks, [addr |-> r.addr, size |-> n])

PoolsNext ==
  \E st \in Storages, n \in Sizes, al \in Alignments, int \in BOOLEAN :
    Allocate(st, n, al, int)

PoolsSpec == PoolsInit /\ [][PoolsNext]_poolVars

-----------------------------------------------------------------------------
Overlap(b, c) ==
  /\ b.addr.storage = c.addr.storage
  /\ b.addr.value < c.addr.value + c.size
  /\ c.addr.value < b.addr.value + b.size

\* As long as a pool fits an unsigned int, blocks never overlap ("will never
\* allocate the same address twice"), are not null, and stay clear of the
\* bits that mark storage.
BlocksDisjoint ==
  \A i, j \in DOMAIN blocks :
    LET b == blocks[i]
    IN /\ i # j => ~Overlap(b, blocks[j])
       /\ b.addr.ok /\ (b.addr.storage = "heap" => b.addr.value > 0)
=============================================================================
