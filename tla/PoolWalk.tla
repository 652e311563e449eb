------------------------------ MODULE PoolWalk ------------------------------
(***************************************************************************)
(* SingleThreadAllocator::occupancy() for one pool (single_thread_alloc.hpp *)
(* and free_count, total_blocks of block_pool.hpp), called as the           *)
(* visualiser does: on another thread than the pool's owner, who goes on.   *)
(* The registry's mutex keeps the pool alive and does no more: the walk     *)
(* follows head_ and the words of the blocks one at a time, and between two *)
(* of its loads the owner can pop, push and link slabs.                     *)
(*                                                                         *)
(* The owner's stores are seen one at a time too, in the order of the code: *)
(* deallocate() links the block and then makes it head_, add_external_slab()*)
(* makes its first block head_ and then records the slab.  allocate() has   *)
(* one store.  The links of a new slab are stored before any walk can be in *)
(* it, and are one step with the store of head_.                            *)
(*                                                                         *)
(* What a holder stores in a block is followed like a link.  `writes' says  *)
(* whether this program's holders store anything; those of the visualiser   *)
(* (worker_loop, viz/main.cpp) do not.  Of a program whose holders do,      *)
(* nothing is promised: its walk can leave the pool or never end.           *)
(***************************************************************************)
EXTENDS BlockPool, Integers, FiniteSets

CONSTANT MaxMoves   \* bound: blocks the owner moves during a walk

ASSUME WalkAssumption == MaxMoves \in Nat

VARIABLES writes,    \* the holders of blocks write into them
          freeing,   \* the block deallocate() has linked and not yet made head_
          recorded,  \* blocks recorded per region, in slab_ and external_slabs_
          walk       \* the walk under way

ownerVars == <<vars, writes, freeing, recorded>>
walkVars  == <<vars, writes, freeing, recorded, walk>>

(* at: the pointer to follow; n: the blocks counted; popped, pushed: history,*)
(* how many blocks the owner took and put back since the walk began.        *)
NoWalk == [on |-> FALSE, at |-> NULL, n |-> 0, popped |-> 0, pushed |-> 0]

WalkInit == /\ Init
            /\ writes \in BOOLEAN
            /\ freeing = NULL /\ recorded = slabs
            /\ walk = NoWalk

(* The owner is in no call. *)
AtRest == freeing = NULL /\ recorded = slabs

(* The owner moves k blocks. *)
Moved(field, k) ==
  IF walk.on /\ ~writes
  THEN walk.popped + walk.pushed + k <= MaxMoves /\ walk' = [walk EXCEPT ![field] = @ + k]
  ELSE walk' = walk

(* allocate(). *)
Pop == /\ AtRest
       /\ Allocate /\ Moved("popped", 1)
       /\ UNCHANGED <<freeing, recorded>>

(* deallocate(b), or deallocate_containing of a pointer into b: *p = head_.   *)
StoreLink(b) == /\ AtRest
                /\ b \in live
                /\ mem' = LinkFreed(b)
                /\ freeing' = b
                /\ UNCHANGED <<head, slabs, live, chain, recorded, walk>>

(* ... and then head_ = p.                                                   *)
Push == /\ freeing # NULL
        /\ \/ Deallocate(freeing)
           \/ \E off \in Offsets : DeallocateContaining(<<freeing[1], freeing[2], off>>)
        /\ freeing' = NULL
        /\ Moved("pushed", 1)
        /\ UNCHANGED recorded

(* add_external_slab: head_ = base puts the blocks on the list, ...           *)
LinkSlab(r, n) == /\ AtRest
                  /\ AddExternalSlab(r, n) /\ Moved("pushed", n)
                  /\ UNCHANGED <<freeing, recorded>>

(* ... and external_slabs_.push_back makes them part of the pool.             *)
RecordSlab == /\ recorded # slabs
              /\ recorded' = slabs
              /\ UNCHANGED <<vars, freeing, walk>>

(* A holder writes into his block; the one being freed has none.             *)
Write == /\ writes
         /\ \E b \in Block \ {freeing}, w \in Word : ClientWrite(b, w)
         /\ UNCHANGED <<freeing, recorded, walk>>

Owner ==
  /\ \/ Pop
     \/ \E b \in Block : StoreLink(b)
     \/ Push
     \/ \E r \in Regions, n \in 1 .. BlocksPerSlab : LinkSlab(r, n)
     \/ RecordSlab
     \/ Write
  /\ writes' = writes

(* free_count(): cur starts at head_, ... *)
WalkBegin == /\ ~walk.on
             /\ walk' = [NoWalk EXCEPT !.on = TRUE, !.at = head]
             /\ UNCHANGED ownerVars

(* Mutated form: what is counted are the links between blocks. *)
HopCountingLinks == /\ walk.on /\ walk.at \in Block /\ walk.n < Cardinality(Block) + MaxMoves
                    /\ walk' = [walk EXCEPT !.at = mem[walk.at],
                                            !.n = IF mem[walk.at] = NULL THEN @ ELSE @ + 1]
                    /\ UNCHANGED ownerVars

(* ... counts the block it points to and takes the word in it.  A walk that   *)
(* has counted more than there can be is in a cycle that a holder wrote, and  *)
(* is not followed further.                                                 *)
Hop == /\ walk.on /\ walk.at \in Block /\ walk.n < Cardinality(Block) + MaxMoves
       /\ walk' = [walk EXCEPT !.at = mem[walk.at], !.n = @ + 1]
       /\ UNCHANGED ownerVars

(* total_blocks(), read after free_count(), counts the blocks of recorded     *)
(* slabs; a slab just linked is not yet among them.  Used is the difference  *)
(* shown, here an integer: in the code it wraps when it is negative.         *)
Counted     == {b \in Block : b[2] < recorded[b[1]]}
TotalBlocks == Cardinality(Counted)
Unrecorded  == Cardinality(Managed \ Counted)
Used        == TotalBlocks - walk.n

WalkEnd == /\ walk.on /\ walk.at = NULL
           /\ walk' = NoWalk
           /\ UNCHANGED ownerVars

WalkNext == Owner \/ WalkBegin \/ Hop \/ WalkEnd
WalkSpec == WalkInit /\ [][WalkNext]_walkVars /\ WF_walkVars(Hop \/ WalkEnd)
------------------------------------------------------------------------------
(* The walk and the owner's calls have their types, beside the pool.  What    *)
(* is recorded has been linked.                                             *)
WalkTypeOK == /\ writes \in BOOLEAN
              /\ freeing \in live \cup {NULL}
              /\ recorded \in [AllRegions -> Nat]
              /\ \A r \in AllRegions : recorded[r] <= slabs[r]
              /\ walk \in [on : BOOLEAN, at : Word, n : Nat, popped : Nat, pushed : Nat]

(* As long as holders do not write, the walk reads blocks on the owner's      *)
(* slabs only, also where it follows the stale link of a block handed out    *)
(* since or of one being freed: each is counted by total_blocks() or in the  *)
(* one slab that add_external_slab has put on the list and not yet recorded. *)
WalkStaysInPool ==
  ~writes /\ walk.on =>
    walk.at \in Counted \cup {NULL} \/ (recorded # slabs /\ walk.at \in Managed \ Counted)

(* Then what occupancy() shows is off by no more than what the owner did: a   *)
(* block counted as free that is not was popped since the walk began, one    *)
(* missed was pushed since, and the blocks of a slab not yet recorded are    *)
(* missing from the total.  So `used' is right if the owner was at rest.     *)
(* block_pool.hpp:232-234, single_thread_alloc.hpp:148 and viz/main.cpp:196  *)
(* call it never negative; the lower bound is what is true instead: it can   *)
(* be as far below zero as blocks were popped, or are unrecorded, beyond     *)
(* those handed out.                                                        *)
UsedErrorBounded ==
  [][WalkEnd /\ ~writes =>
       /\ Used + walk.popped + Unrecorded >= Cardinality(live)
       /\ Used + Unrecorded <= Cardinality(live) + walk.pushed]_walkVars

(* And a walk during which the owner makes finitely many moves ends: stale    *)
(* links never close a cycle.                                               *)
WalkEnds == [](~writes) => (walk.on ~> ~walk.on)
==============================================================================
