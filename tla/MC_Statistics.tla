---------------------------- MODULE MC_Statistics ----------------------------
(* Two addresses and three threads: one address is used again.  A block that  *)
(* fills half of its class and an object of the arena.                      *)
EXTENDS Statistics

MCBlocks == {<<1, 2>>}
MCLarge  == {<<3, 4>>}
Symmetry == Permutations(Addresses)
==============================================================================
