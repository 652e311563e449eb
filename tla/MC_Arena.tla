------------------------------ MODULE MC_Arena ------------------------------
(* An arena of ten bytes among addresses of six bits.  malloc returns        *)
(* multiples of four; requests run up to one byte more than the arena has and *)
(* so stay clear of the sizes whose sum in allocate() wraps.  The front-end   *)
(* has two classes, slabs of two blocks and two chunks of eight bytes, which  *)
(* hold two blocks of the small class but only one of the large.             *)
EXTENDS FrontEnd

MCBases      == {8, 12}
MCAlignments == {1, 4, 8}
SizesInRange == 0 .. 11

MCClasses         == <<2, 4>>
MCSlabBases       == <<24, 32>>
MCChunkBases      == {40, 48}
MCRequests        == {0, 2, 3, 4, 5}
MCAlignedRequests == {<<1, 8>>}
=============================================================================
