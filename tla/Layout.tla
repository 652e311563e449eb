------------------------------- MODULE Layout -------------------------------
(***************************************************************************)
(* The arithmetic that the pools and chunks rest on: which size class       *)
(* serves a request (include/size_class.hpp), what that wastes              *)
(* (include/frag_detect.hpp), and how a chunk is carved into blocks         *)
(* (include/central_heap.hpp, single_thread_alloc.hpp).                     *)
(*                                                                         *)
(* The only state is the request looked at, which runs through every size.  *)
(***************************************************************************)
EXTENDS Naturals, Sequences

CONSTANTS Classes,       \* SIZE_CLASSES
          MAX_SMALL,
          BlocksPerSlab, \* capacity() of every pool
          CHUNK_SIZE, kHeaderOffset,
          Bases,         \* addresses of chunks
          MaxRequest     \* bound: largest request looked at

NUM_CLASSES == Len(Classes)

ASSUME LayoutAssumption ==
  /\ Classes \in Seq(Nat \ {0}) /\ NUM_CLASSES > 0
  /\ \A i, j \in 1 .. NUM_CLASSES : i < j => Classes[i] < Classes[j]
  /\ MAX_SMALL = Classes[NUM_CLASSES]
  /\ BlocksPerSlab \in Nat \ {0} /\ MaxRequest \in Nat
  /\ CHUNK_SIZE \in Nat \ {0} /\ kHeaderOffset \in Nat
  /\ kHeaderOffset + MAX_SMALL <= CHUNK_SIZE
  /\ Bases \subseteq {b \in Nat : b % CHUNK_SIZE = 0}

(* A class is at most twice the one before it. *)
ASSUME ClassesDouble == \A i \in 1 .. NUM_CLASSES - 1 : Classes[i + 1] <= 2 * Classes[i]

Holds(i, n) == Classes[i + 1] >= n

(* size_class_index(n): the loop over the classes, from index i on. *)
size_class_index(n) ==
  LET from[i \in 0 .. NUM_CLASSES] ==
        IF i = NUM_CLASSES \/ Holds(i, n) THEN i ELSE from[i + 1]
  IN IF n = 0 THEN 0 ELSE from[0]

(* Mutated form: the largest class is left to the large path. *)
block_for_small_only(n) == IF n >= MAX_SMALL THEN 0 ELSE Classes[size_class_index(n) + 1]

(* block_for(n); 0 stands for the large path. *)
block_for(n) == IF n = 0 THEN Classes[1]
                ELSE IF n > MAX_SMALL THEN 0
                ELSE Classes[size_class_index(n) + 1]

(* blocks_per_chunk(block_size). *)
blocks_per_chunk(size) == (CHUNK_SIZE - kHeaderOffset) \div size

(* Mutated form: a chunk is taken to hold as much as a slab. *)
SlabBlocks(size) == BlocksPerSlab

(* max_blocks of pool_add_external_slab_at: how many are linked. *)
max_blocks(size) == IF BlocksPerSlab < blocks_per_chunk(size)
                    THEN BlocksPerSlab ELSE blocks_per_chunk(size)

(* The i-th block that add_external_slab carves from the chunk at base. *)
BlockStart(base, size, i) == base + kHeaderOffset + i * size

(* header_for(p): p & ~(CHUNK_SIZE - 1). *)
header_for(p) == p - (p % CHUNK_SIZE)

VARIABLE n   \* the request

Init == n = 0
Next == n < MaxRequest /\ n' = n + 1
Spec == Init /\ [][Next]_n
------------------------------------------------------------------------------
(* A request is served by the smallest class that holds it, and goes to the   *)
(* large path exactly if none does.                                         *)
SmallestFit ==
  LET fits == {i \in 1 .. NUM_CLASSES : Classes[i] >= n}
  IN IF fits = {} THEN block_for(n) = 0 /\ size_class_index(n) = NUM_CLASSES
     ELSE \E i \in fits : /\ \A j \in fits : i <= j
                          /\ block_for(n) = Classes[i] /\ size_class_index(n) = i - 1

(* frag_detect.hpp: rounding up to classes that double loses less than half   *)
(* of the block, except below half of the smallest class.                   *)
WasteBelowHalf ==
  n <= MAX_SMALL /\ 2 * n > Classes[1] => 2 * (block_for(n) - n) < block_for(n)

(* A refill links at least one block, so the retry after it succeeds; every   *)
(* block lies inside the chunk, behind the header, and masking any address in *)
(* it finds that header.                                                    *)
ChunkHoldsItsBlocks ==
  n \in 1 .. MAX_SMALL =>
    LET size == block_for(n)
    IN /\ max_blocks(size) >= 1
       /\ \A base \in Bases, i \in 0 .. max_blocks(size) - 1 :
            LET p == BlockStart(base, size, i)
            IN /\ base + kHeaderOffset <= p /\ p + size <= base + CHUNK_SIZE
               /\ header_for(p) = base /\ header_for(p + size - 1) = base
==============================================================================
