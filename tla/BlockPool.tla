------------------------------ MODULE BlockPool ------------------------------
(***************************************************************************)
(* BlockPool<BlockSize, BlocksPerSlab> of include/block_pool.hpp: blocks   *)
(* of one size carved from slabs and linked into an intrusive free list.   *)
(* A free block's own first word holds the pointer to the next free block; *)
(* once the block is handed out the same word belongs to the caller, who   *)
(* writes whatever it likes there.                                         *)
(*                                                                         *)
(* A block is a pair <<region, index>>: the address region + index *       *)
(* BlockSize.  The pool's own slab is the region OwnSlab; the others are   *)
(* the bodies of chunks lent by the CentralHeap.  A pointer that may be    *)
(* interior to a block adds an offset: <<region, index, offset>>.          *)
(*                                                                         *)
(* A pool has one owner, and an action is a whole call of his.  What        *)
(* another thread can see between the stores of a call is in PoolWalk.      *)
(***************************************************************************)
EXTENDS Naturals, Sequences

CONSTANTS BlocksPerSlab,  \* template parameter, 256 in every pool of the tuple
          Regions,        \* chunk bodies that can be linked as external slabs
          OwnSlab,        \* the slab made by the constructor
          Offsets,        \* offsets inside a block a pointer can have (0: its start)
          NULL,           \* nullptr
          Data            \* a word the caller wrote that is not a pointer

ASSUME PoolAssumption ==
  /\ BlocksPerSlab \in Nat \ {0}
  /\ OwnSlab \notin Regions
  /\ 0 \in Offsets

AllRegions == Regions \cup {OwnSlab}
Block      == AllRegions \X (0 .. BlocksPerSlab - 1)
Link       == Block \cup {NULL}      \* what head_ and a free block's word can be
Word       == Link \cup {Data}       \* what any block's first word can be

ASSUME WordAssumption == NULL \notin Block /\ Data \notin Link

VARIABLES
  head,    \* head_
  mem,     \* first word of every block's memory
  slabs,   \* blocks linked per region: slab_ and external_slabs_ (0: not linked)
  live,    \* blocks the callers hold
  chain    \* history: the blocks of the free list in order, for the properties

vars == <<head, mem, slabs, live, chain>>

Managed == {b \in Block : b[2] < slabs[b[1]]}

(* Mutated form: the last block points one past the end. *)
LinkedPastEnd(m, r, n, tail) ==
  [b \in Block |-> IF b[1] = r /\ b[2] < n
                   THEN IF b[2] + 1 <= n THEN <<r, b[2] + 1>> ELSE tail
                   ELSE m[b]]

(* The loop shared by the constructor and add_external_slab: the first n    *)
(* blocks of region r are linked in address order, the last one to `tail'.  *)
Linked(m, r, n, tail) ==
  [b \in Block |-> IF b[1] = r /\ b[2] < n
                   THEN IF b[2] + 1 < n THEN <<r, b[2] + 1>> ELSE tail
                   ELSE m[b]]

InOrder(r, n) == [i \in 1 .. n |-> <<r, i - 1>>]

(* BlockPool(): one slab, every block free; its memory held anything before. *)
Init == /\ mem = Linked([b \in Block |-> Data], OwnSlab, BlocksPerSlab, NULL)
        /\ head = <<OwnSlab, 0>>
        /\ slabs = [r \in AllRegions |-> IF r = OwnSlab THEN BlocksPerSlab ELSE 0]
        /\ live = {}
        /\ chain = InOrder(OwnSlab, BlocksPerSlab)

(* allocate(): pop.  Reads the next pointer out of the block itself.  On an *)
(* empty list it returns nullptr and changes nothing; a head_ that is not    *)
(* nullptr is a block (FreeListLinked).                                     *)
Allocate == /\ head \in Block
            /\ head' = mem[head]
            /\ live' = live \cup {head}
            /\ chain' = SubSeq(chain, 2, Len(chain))
            /\ UNCHANGED <<mem, slabs>>

(* Mutated form: the link is not stored. *)
LinkFreedNot(b) == mem

(* Mutated form: head_ = p comes first, so that p is linked to itself. *)
LinkFreedToItself(b) == [mem EXCEPT ![b] = b]

(* The first store of deallocate(p), *p = head_: the old head into the block.*)
LinkFreed(b) == [mem EXCEPT ![b] = head]

(* Both stores of deallocate(p), p a block start. *)
PushFree(b) == /\ mem' = LinkFreed(b)
               /\ head' = b
               /\ live' = live \ {b}
               /\ chain' = <<b>> \o chain
               /\ UNCHANGED slabs

(* deallocate(p): the caller holds p. *)
Deallocate(b) == b \in live /\ PushFree(b)

(* contains(p) and the rounding of deallocate_containing: the start of the  *)
(* block in which p lies.                                                   *)
Contains(p)        == p[2] < slabs[p[1]]
ContainingBlock(p) == <<p[1], p[2]>>

(* deallocate_containing(p): p may be interior, as a delete[] pointer past   *)
(* its array cookie is.                                                     *)
DeallocateContaining(p) == /\ Contains(p)
                           /\ ContainingBlock(p) \in live
                           /\ PushFree(ContainingBlock(p))

(* Mutated form: the slab ends in nullptr, as the constructor's does, and   *)
(* what was on the list before is gone.                                     *)
AddSlabAlone(r, n) == /\ slabs[r] = 0
                      /\ mem' = Linked(mem, r, n, NULL)
                      /\ head' = <<r, 0>>
                      /\ slabs' = [slabs EXCEPT ![r] = n]
                      /\ chain' = InOrder(r, n)
                      /\ live' = live

(* add_external_slab(base, num_blocks): the whole slab goes in front of the *)
(* list and is remembered.  A chunk is never linked twice: each comes fresh *)
(* from CentralHeap::acquire_chunk.                                         *)
AddExternalSlab(r, n) == /\ slabs[r] = 0
                         /\ mem' = Linked(mem, r, n, head)
                         /\ head' = <<r, 0>>
                         /\ slabs' = [slabs EXCEPT ![r] = n]
                         /\ chain' = InOrder(r, n) \o chain
                         /\ live' = live

(* The holder of a block stores into its first word. *)
ClientWrite(b, w) == /\ b \in live
                     /\ mem' = [mem EXCEPT ![b] = w]
                     /\ UNCHANGED <<head, slabs, live, chain>>

Next == \/ Allocate
        \/ \E b \in Block : Deallocate(b)
        \/ \E b \in Block, off \in Offsets : DeallocateContaining(<<b[1], b[2], off>>)
        \/ \E r \in Regions, n \in 1 .. BlocksPerSlab : AddExternalSlab(r, n)
        \/ \E b \in Block, w \in Word : ClientWrite(b, w)

Spec == Init /\ [][Next]_vars
------------------------------------------------------------------------------
(* Every variable has its type. *)
TypeOK == /\ head \in Link
          /\ mem \in [Block -> Word]
          /\ slabs \in [AllRegions -> 0 .. BlocksPerSlab]
          /\ slabs[OwnSlab] = BlocksPerSlab
          /\ live \subseteq Block
          /\ chain \in Seq(Block)

(* The words in the blocks' own memory spell the free list: following head_ *)
(* gives the free blocks in order and ends in nullptr, whatever the holders *)
(* of live blocks write (allocate/deallocate/add_external_slab).            *)
FreeListLinked ==
  /\ head = IF chain = <<>> THEN NULL ELSE chain[1]
  /\ \A i \in 1 .. Len(chain) :
       mem[chain[i]] = IF i = Len(chain) THEN NULL ELSE chain[i + 1]

(* No block is on the list twice, none is free and handed out at once, and  *)
(* every block of every linked slab is one or the other: pops and pushes    *)
(* neither duplicate nor drop a block.                                      *)
FreeOrLive ==
  /\ \A i, j \in 1 .. Len(chain) : chain[i] = chain[j] => i = j
  /\ \A i \in 1 .. Len(chain) : chain[i] \notin live
  /\ Managed = {chain[i] : i \in 1 .. Len(chain)} \cup live

(* The pool behaves as the plain stack of free blocks of FreeStack. *)
LinkableSlabs == {InOrder(r, n) : r \in AllRegions, n \in 1 .. BlocksPerSlab}
Abs == INSTANCE FreeStack WITH Slabs <- LinkableSlabs, stack <- chain
RefinesFreeStack == Abs!Spec
==============================================================================
