------------------------------ MODULE FrontEnd ------------------------------
(***************************************************************************)
(* SingleThreadAllocator (include/single_thread_alloc.hpp): one thread's    *)
(* pools, one per size class, over its arena, with every address a number,  *)
(* so that what is asked is what the code asks: in which pool's region a    *)
(* pointer lies, and at which block that region makes it start.             *)
(*                                                                         *)
(* The arena is Arena, the sizes and chunks are Layout's.  A pool's free    *)
(* list is the set of its blocks here: its order is in BlockPool.           *)
(* `caller' says whether the front-end uses the arena, or a program on its  *)
(* own, which can also reset it.                                            *)
(***************************************************************************)
EXTENDS Arena, Sequences

CONSTANTS Classes, MAX_SMALL, BlocksPerSlab, CHUNK_SIZE, kHeaderOffset,  \* as in Layout
          SlabBases,         \* per class: the address of its pool's own slab
          ChunkBases,        \* addresses of the chunks that can be obtained
          Requests,          \* sizes asked for with the default alignment
          AlignedRequests,   \* <<size, alignment>> asked for with a larger one
          DefaultAlignment,  \* alignof(max_align_t)
          MaxLarge           \* bound: objects cut from the arena

Lay == INSTANCE Layout WITH Bases <- ChunkBases, MaxRequest <- 0, n <- 0

Class(n) == Lay!size_class_index(n) + 1    \* counted from 1, as Classes is
Indices  == 1 .. Len(Classes)

ASSUME FrontEndAssumption ==
  /\ SlabBases \in [Indices -> Word] /\ ChunkBases \subseteq Word
  /\ Requests \subseteq Sizes /\ DefaultAlignment \in Alignments
  /\ AlignedRequests \subseteq Sizes \X Alignments
  /\ MaxLarge <= MaxObjects

(* The classes and chunks are what Layout assumes. *)
ASSUME ClassesAssumption == Lay!LayoutAssumption

(* malloc gives out memory that does not overlap. *)
Apart(x, y)      == x[1] + x[2] <= y[1] \/ y[1] + y[2] <= x[1]    \* <<address, size>>
SlabMemory(i)    == <<SlabBases[i], BlocksPerSlab * Classes[i]>>
ChunkMemory(c)   == <<c, CHUNK_SIZE>>
ASSUME MemoryAssumption ==
  /\ \A i, j \in Indices : i # j => Apart(SlabMemory(i), SlabMemory(j))
  /\ \A i \in Indices, c \in ChunkBases : Apart(SlabMemory(i), ChunkMemory(c))
  /\ \A b \in Bases : /\ \A i \in Indices : Apart(<<b, Capacity>>, SlabMemory(i))
                      /\ \A c \in ChunkBases : Apart(<<b, Capacity>>, ChunkMemory(c))
  /\ \A i \in Indices : SlabBases[i] + BlocksPerSlab * Classes[i] <= Modulus
  /\ \A c \in ChunkBases : c + CHUNK_SIZE <= Modulus

VARIABLES caller,
          free,    \* per class: the free list of its pool
          slabs,   \* per class: slab_ and external_slabs_, as <<base, blocks>>
          live_,   \* the private field of stats_
          held     \* history: blocks handed out, with the size asked for

feVars == <<vars, caller, free, slabs, live_, held>>

BlocksOf(i, s) == {s[1] + k * Classes[i] : k \in 0 .. s[2] - 1}

FeInit == /\ Init
          /\ caller \in {"front-end", "program"}
          /\ slabs = [i \in Indices |-> {<<SlabBases[i], BlocksPerSlab>>}]
          /\ free = [i \in Indices |-> BlocksOf(i, <<SlabBases[i], BlocksPerSlab>>)]
          /\ live_ = 0
          /\ held = {}
------------------------------------------------------------------------------
(* Mutated form: the last block of a region is not the pool's. *)
InRegionShort(i, s, p) == p >= s[1] /\ p < s[1] + s[2] * Classes[i] - 1

InRegion(i, s, p) == p >= s[1] /\ p < s[1] + s[2] * Classes[i]

(* BlockPool::contains over its slab and its external slabs. *)
PoolContains(i, p) == \E s \in slabs[i] : InRegion(i, s, p)

kArenaPointer == "arena"

(* classify(p): the pools are probed one after the other, the last hit counts. *)
Classify(p) == LET pools == {i \in Indices : PoolContains(i, p)}
               IN IF pools # {} THEN Classes[Max(pools)]
                  ELSE IF Contains(p) THEN kArenaPointer ELSE 0

(* deallocate_containing: where the block of region s begins in which p lies. *)
BlockAt(i, s, p) == s[1] + ((p - s[1]) \div Classes[i]) * Classes[i]
------------------------------------------------------------------------------
(* pool_allocate on a free list f, and record_alloc. *)
TakeFrom(f, i, n) == \E b \in f : /\ free' = [free EXCEPT ![i] = f \ {b}]
                                  /\ held' = held \cup {[addr |-> b, size |-> n]}
                                  /\ live_' = live_ + Classes[i]

(* allocate(n), small. *)
AllocateSmall(n) == /\ n <= MAX_SMALL /\ free[Class(n)] # {}
                    /\ TakeFrom(free[Class(n)], Class(n), n)
                    /\ UNCHANGED <<slabs, vars>>

(* ... on an exhausted pool: a chunk is linked, and the allocation tried      *)
(* again.  If none is to be had, nullptr, and nothing changes.              *)
AllocateRefilled(n) ==
  /\ n <= MAX_SMALL /\ free[Class(n)] = {}
  /\ \E chunk \in ChunkBases :
       LET i    == Class(n)
           body == Lay!BlockStart(chunk, Classes[i], 0)
           slab == <<body, Lay!max_blocks(Classes[i])>>
       IN /\ \A j \in Indices : \A s \in slabs[j] : s[1] # body
          /\ slabs' = [slabs EXCEPT ![i] = @ \cup {slab}]
          /\ TakeFrom(BlocksOf(i, slab), i, n)
  /\ UNCHANGED vars

(* Mutated form: what is recorded is the size, not what the arena used. *)
AllocateAlignedUnpadded(n, alignment) ==
  /\ Cardinality(objects) < MaxLarge
  /\ Allocate(n, alignment)
  /\ live_' = live_ + n
  /\ UNCHANGED <<free, slabs, held>>

(* allocate_aligned(n, alignment): the arena. *)
AllocateAligned(n, alignment) ==
  /\ Cardinality(objects) < MaxLarge
  /\ Allocate(n, alignment)
  /\ live_' = live_ + (used' - used)
  /\ UNCHANGED <<free, slabs, held>>

(* allocate(n), large: the same with the alignment the arena takes by default. *)
AllocateLarge(n) == n > MAX_SMALL /\ AllocateAligned(n, DefaultAlignment)

(* What a holder can pass to operator delete. *)
Reach(o) == o.addr .. o.addr + (IF o.size = 0 THEN 0 ELSE o.size - 1)

Return(i, b) == /\ free' = [free EXCEPT ![i] = @ \cup {b}]
                /\ live_' = live_ - Classes[i]
                /\ held' = {o \in held : o.addr # b}
                /\ UNCHANGED <<slabs, vars>>

(* deallocate(p, n): by its holder, with the size asked for. *)
Deallocate(o) == o \in held /\ Return(Class(o.size), o.addr)

(* operator delete has no size: it gives deallocate_containing the class that *)
(* classify finds.  p can lie behind the start of the block, as an array does *)
(* behind its count.                                                        *)
DeallocateContaining(o, p) ==
  /\ o \in held /\ Classify(p) \in Nat \ {0}
  /\ LET i == Class(Classify(p))
     IN \E s \in slabs[i] : InRegion(i, s, p) /\ Return(i, BlockAt(i, s, p))

FeNext ==
  /\ \/ /\ caller = "front-end"
        /\ \/ \E n \in Requests : \/ AllocateSmall(n)
                                  \/ AllocateRefilled(n)
                                  \/ AllocateLarge(n)
           \/ \E r \in AlignedRequests : AllocateAligned(r[1], r[2])
           \/ \E o \in held : Deallocate(o) \/ \E p \in Reach(o) : DeallocateContaining(o, p)
     \/ caller = "program" /\ Next /\ UNCHANGED <<free, slabs, live_, held>>
  /\ caller' = caller

FeSpec == FeInit /\ [][FeNext]_feVars
------------------------------------------------------------------------------
Span(a, size) == a .. a + size - 1
BlocksHeld(i) == {o.addr : o \in {o \in held : Class(o.size) = i}}
PoolBytes(i)  == UNION {Span(b, Classes[i]) : b \in free[i] \cup BlocksHeld(i)}
ArenaBytes    == Span(base, used)

(* Every variable has its type. *)
FeTypeOK == /\ TypeOK
            /\ caller \in {"front-end", "program"}
            /\ free \in [Indices -> SUBSET Word]
            /\ slabs \in [Indices -> SUBSET (Word \X Nat)]
            /\ live_ \in Nat
            /\ held \subseteq [addr : Word, size : Requests]

(* Free blocks, held blocks, the arena's memory and the headers of the chunks *)
(* have no byte in common, over all pools: a refill of a large class stays in *)
(* its chunk, and a pointer into a block, given back by operator delete, frees *)
(* that block and no part of another.                                       *)
Pieces == (UNION {{Span(b, Classes[i]) : b \in free[i] \cup BlocksHeld(i)} : i \in Indices})
            \cup {Span(c, kHeaderOffset) : c \in ChunkBases} \cup {ArenaBytes}
BlocksApart ==
  /\ \A i \in Indices : free[i] \cap BlocksHeld(i) = {}
  /\ \A x, y \in Pieces : x # y => x \cap y = {}

(* classify() tells for every address what memory it is: the class of the     *)
(* pool whose block it lies in, the arena's, or none of this thread's.       *)
ClassifyExact ==
  \A p \in Word :
    Classify(p) = IF p \in ArenaBytes THEN kArenaPointer
                  ELSE IF \E i \in Indices : p \in PoolBytes(i)
                  THEN Classes[CHOOSE i \in Indices : p \in PoolBytes(i)]
                  ELSE 0

(* The live_ of stats_ is what is handed out: the blocks held, counted with   *)
(* their class, and what the arena has used, which it never gives back.  So    *)
(* it comes down to the arena's part and cannot wrap below zero.            *)
LiveBytesExact ==
  caller = "front-end" =>
    live_ = used + MapThenSumSet(LAMBDA o : Classes[Class(o.size)], held)
==============================================================================
