------------------------ MODULE SAddrAllocatorProofs ------------------------
(***************************************************************************)
(* Blocks given out by an allocator are disjoint, for all sizes and        *)
(* alignments and all numbers of allocations.  The invariant is that every *)
(* block ends where its pool is, or before.                                *)
(***************************************************************************)
EXTENDS SAddrAllocator, TLAPS

Block == [addr : [storage : Storages, internal : BOOLEAN, value : Nat, ok : BOOLEAN],
          size : Nat]

TypeInv ==
  /\ pools \in [Storages -> Nat] /\ pools["heap"] > 0
  /\ blocks \in Seq(Block)

\* Blocks lie below the first free offset of their pool.
BelowPool ==
  \A i \in DOMAIN blocks :
    blocks[i].addr.value + blocks[i].size <= pools[blocks[i].addr.storage]

\* Where a block is put, and how far the pool moves.
LEMMA Placed ==
  ASSUME NEW p \in Nat, NEW n \in Sizes, NEW al \in Alignments, p + al - 1 + n <= MaxPool
  PROVE  /\ Claimed(n, al) = al - 1 + n
         /\ Aligned(p, al) \in Nat
         /\ p <= Aligned(p, al)
         /\ Aligned(p, al) + n <= p + Claimed(n, al)
         /\ Aligned(p, al) < Limit
<1> DEFINE x == p + al - 1
<1>1. n \in Nat /\ al \in Nat \ {0} /\ UIntSize \in Nat \ {0} /\ Limit \in Nat
  BY SizesAssumption
<1>2. al - 1 + n \in 0 .. UIntSize - 1 /\ x \in 0 .. UIntSize - 1
  BY <1>1, SizesAssumption
<1>3. Claimed(n, al) = al - 1 + n
  BY <1>1, <1>2 DEF Claimed
<1>4. Aligned(p, al) = (x % UIntSize) - ((x % UIntSize) % al)
  BY DEF Aligned
<1>5. x + 1 = p + al
  BY <1>1
<1> HIDE DEF x
<1>6. x % UIntSize = x /\ x % al \in 0 .. al - 1
  BY <1>1, <1>2
<1>7. Aligned(p, al) = x - (x % al)
  BY <1>4, <1>6, Zenon
<1> QED BY <1>1, <1>2, <1>3, <1>5, <1>6, <1>7, SizesAssumption

\* Pools are numbers and blocks have an address and a size.
LEMMA TypeCorrect == PoolsSpec => []TypeInv
<1>1. PoolsInit => TypeInv
  BY DEF PoolsInit, TypeInv, InitialPools, Storages
<1>2. TypeInv /\ [PoolsNext]_poolVars => TypeInv'
  <2> SUFFICES ASSUME TypeInv, [PoolsNext]_poolVars PROVE TypeInv'
    OBVIOUS
  <2>1. CASE UNCHANGED poolVars
    BY <2>1 DEF poolVars, TypeInv
  <2>2. ASSUME NEW st \in Storages, NEW n \in Sizes, NEW al \in Alignments, NEW int \in BOOLEAN,
               Allocate(st, n, al, int)
        PROVE  TypeInv'
    <3> DEFINE v == Aligned(pools[st], al)
               new == [addr |-> create(st, v, int), size |-> n]
    <3>1. /\ pools' = [pools EXCEPT ![st] = @ + Claimed(n, al)]
          /\ blocks' = Append(blocks, new)
          /\ pools[st] + al - 1 + n <= MaxPool
      BY <2>2 DEF Allocate, allocate
    <3>2. pools[st] \in Nat /\ n \in Nat /\ al \in Nat \ {0}
      BY SizesAssumption DEF TypeInv
    <3>3. Claimed(n, al) = al - 1 + n /\ v \in Nat
      BY <3>1, <3>2, Placed
    <3> HIDE DEF v
    <3>4. new \in Block
      BY <3>2, <3>3 DEF Block, create
    <3> HIDE DEF new
    <3>5. blocks' \in Seq(Block)
      BY <3>1, <3>4 DEF TypeInv
    <3>6. pools' \in [Storages -> Nat] /\ pools'["heap"] > 0
      BY <3>1, <3>2, <3>3 DEF TypeInv, Storages
    <3> QED BY <3>5, <3>6 DEF TypeInv
  <2> QED BY <2>1, <2>2 DEF PoolsNext
<1> QED BY <1>1, <1>2, PTL DEF PoolsSpec

\* An allocation keeps blocks below their pool and apart: the new one starts
\* at or after the old end of its pool.
LEMMA StepDisjoint ==
  ASSUME TypeInv, TypeInv', BelowPool, BlocksDisjoint, [PoolsNext]_poolVars
  PROVE  BelowPool' /\ BlocksDisjoint'
<1>1. CASE UNCHANGED poolVars
  BY <1>1 DEF poolVars, BelowPool, BlocksDisjoint
<1>2. ASSUME NEW st \in Storages, NEW n \in Sizes, NEW al \in Alignments, NEW int \in BOOLEAN,
             Allocate(st, n, al, int)
      PROVE  BelowPool' /\ BlocksDisjoint'
  <2> DEFINE v == Aligned(pools[st], al)
             new == [addr |-> create(st, v, int), size |-> n]
             k == Len(blocks) + 1
  <2>1. /\ pools' = [pools EXCEPT ![st] = @ + Claimed(n, al)]
        /\ blocks' = Append(blocks, new)
        /\ pools[st] + al - 1 + n <= MaxPool
    BY <1>2 DEF Allocate, allocate
  <2>2. pools[st] \in Nat /\ n \in Nat /\ al \in Nat \ {0}
    BY SizesAssumption DEF TypeInv
  <2>3. /\ Claimed(n, al) = al - 1 + n /\ v \in Nat /\ pools[st] <= v
        /\ v + n <= pools[st] + Claimed(n, al) /\ v < Limit
    BY <2>1, <2>2, Placed
  <2>4. /\ new.addr.value = v /\ new.size = n /\ new.addr.storage = st
        /\ new.addr.ok
    <3> HIDE DEF v
    <3> QED BY <2>3 DEF create
  <2> HIDE DEF v, new
  <2>5. /\ DOMAIN blocks = 1 .. k - 1 /\ k \in Nat \ {0} /\ DOMAIN blocks' = 1 .. k
        /\ blocks'[k] = new /\ \A i \in 1 .. k - 1 : blocks'[i] = blocks[i]
    BY <2>1 DEF TypeInv
  <2>6. \A s \in Storages : pools[s] \in Nat /\ pools'[s] >= pools[s]
    BY <2>1, <2>2, <2>3 DEF TypeInv
  <2>7. pools'[st] = pools[st] + Claimed(n, al)
    BY <2>1 DEF TypeInv
  <2>8. \A i \in 1 .. k - 1 : /\ blocks[i].addr.storage \in Storages
                              /\ blocks[i].addr.value \in Nat /\ blocks[i].size \in Nat
    <3>1. \A i \in 1 .. k - 1 : blocks[i] \in Block
      BY <2>5 DEF TypeInv
    <3> QED BY <3>1 DEF Block
  <2>9. BelowPool'
    <3> SUFFICES ASSUME NEW i \in 1 .. k
                 PROVE  blocks'[i].addr.value + blocks'[i].size <= pools'[blocks'[i].addr.storage]
      BY <2>5 DEF BelowPool
    <3>1. CASE i = k
      BY <3>1, <2>3, <2>4, <2>5, <2>7
    <3>2. CASE i \in 1 .. k - 1
      <4>1. blocks'[i] = blocks[i]
        BY <3>2, <2>5
      <4>2. PICK s \in Storages : s = blocks[i].addr.storage
        BY <3>2, <2>8
      <4>3. blocks[i].addr.value + blocks[i].size <= pools[s]
        BY <3>2, <4>2, <2>5 DEF BelowPool
      <4>4. pools[s] \in Nat /\ pools'[s] \in Nat /\ pools'[s] >= pools[s]
        BY <2>6 DEF TypeInv
      <4> QED BY <4>1, <4>2, <4>3, <4>4, <3>2, <2>8
    <3> QED BY <3>1, <3>2, <2>5
  <2>10. \A i \in 1 .. k - 1 : ~Overlap(blocks[i], new) /\ ~Overlap(new, blocks[i])
    <3> SUFFICES ASSUME NEW i \in 1 .. k - 1, blocks[i].addr.storage = st
                 PROVE  ~(v < blocks[i].addr.value + blocks[i].size)
      BY <2>4 DEF Overlap
    <3>1. blocks[i].addr.value + blocks[i].size <= pools[st]
      BY <2>5 DEF BelowPool
    <3>2. blocks[i].addr.value \in Nat /\ blocks[i].size \in Nat
      BY <2>8
    <3>3. PICK x \in Nat : x = blocks[i].addr.value + blocks[i].size
      BY <3>2
    <3>4. x <= pools[st]
      BY <3>1, <3>3, Zenon
    <3>5. ~(v < x)
      BY <3>4, <2>2, <2>3
    <3> QED BY <3>3, <3>5, Zenon
  <2>11. st = "heap" => v > 0
    BY <2>2, <2>3 DEF TypeInv
  <2>12. BlocksDisjoint'
    BY <2>4, <2>5, <2>10, <2>11 DEF BlocksDisjoint
  <2> QED BY <2>9, <2>12
<1> QED BY <1>1, <1>2 DEF PoolsNext

\* Blocks of memory that one allocator gives out never overlap, whatever the
\* sizes, alignments and pools asked for, while pools fit an unsigned int.
THEOREM BlocksAreDisjoint == PoolsSpec => []BlocksDisjoint
<1>1. PoolsInit => BelowPool /\ BlocksDisjoint
  BY DEF PoolsInit, BelowPool, BlocksDisjoint
<1>2. TypeInv /\ TypeInv' /\ BelowPool /\ BlocksDisjoint /\ [PoolsNext]_poolVars
        => BelowPool' /\ BlocksDisjoint'
  BY StepDisjoint
<1> QED BY <1>1, <1>2, TypeCorrect, PTL DEF PoolsSpec
=============================================================================
