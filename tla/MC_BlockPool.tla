---------------------------- MODULE MC_BlockPool ----------------------------
(* BlockPool and a walk of it, on a slab of two blocks and one chunk, with   *)
(* one interior offset.                                                     *)
EXTENDS PoolWalk

MCOffsets == {0, 8}
=============================================================================
