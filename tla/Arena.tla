-------------------------------- MODULE Arena --------------------------------
(***************************************************************************)
(* The bump allocator of include/arena.hpp, with size_t and uintptr_t as    *)
(* they are: natural numbers modulo 2^64, here modulo Modulus.              *)
(***************************************************************************)
EXTENDS Naturals, FiniteSetsExt

CONSTANTS Modulus,     \* SIZE_MAX + 1
          Capacity,    \* capacity_ (4 MiB in every thread's arena)
          Bases,       \* addresses malloc can return
          Sizes,       \* sizes asked for
          Alignments,  \* alignments asked for
          MaxObjects   \* bound: objects between two resets

ASSUME ArenaAssumption ==
  /\ Modulus \in Nat \ {0} /\ Capacity \in Nat /\ MaxObjects \in Nat
  /\ Bases \subseteq 0 .. Modulus - 1 - Capacity
  /\ Sizes \subseteq 0 .. Modulus - 1
  /\ Alignments \subseteq 1 .. Modulus - 1

(* allocate() does not check its sums for overflow (arena.hpp:50): what is    *)
(* said here is about requests for which they do not wrap.                  *)
ASSUME SumsDoNotWrap ==
  \A b \in Bases, size \in Sizes, alignment \in Alignments :
    b + Capacity + alignment + size <= Modulus

VARIABLES base, used, requested, allocated,  \* base_, used_, requested_, allocated_
          objects  \* history: what has been handed out since the last reset

vars == <<base, used, requested, allocated, objects>>

Word == 0 .. Modulus - 1
a ++ b == (a + b) % Modulus
a -- b == (a + Modulus - b) % Modulus

(* (x + alignment - 1) & ~(alignment - 1), for a power of two. *)
AlignUp(x, alignment) == LET y == x ++ (alignment - 1) IN y - (y % alignment)

Init == /\ base \in Bases
        /\ used = 0 /\ requested = 0 /\ allocated = 0
        /\ objects = {}

(* Where allocate() puts an object, and what it skips to get there. *)
Aligned(alignment) == AlignUp(base ++ used, alignment)
Padding(alignment) == Aligned(alignment) -- (base ++ used)

(* Mutated form: the padding is forgotten. *)
FitsUnpadded(size, alignment) == (used ++ size) <= Capacity

Fits(size, alignment) == ((used ++ Padding(alignment)) ++ size) <= Capacity

(* Mutated form: only the size is added to what is used. *)
ConsumedUnpadded(size, alignment) == size

Consumed(size, alignment) == Padding(alignment) ++ size

(* allocate(); when the object does not fit, nullptr and nothing changes.   *)
Allocate(size, alignment) ==
  /\ Cardinality(objects) < MaxObjects
  /\ Fits(size, alignment)
  /\ used' = used ++ Consumed(size, alignment)
  /\ requested' = requested ++ size
  /\ allocated' = allocated ++ (Padding(alignment) ++ size)
  /\ objects' = objects \cup {[addr |-> Aligned(alignment), size |-> size, alignment |-> alignment]}
  /\ UNCHANGED base

(* Mutated form: requested_ survives. *)
ResetRegion == /\ used' = 0 /\ allocated' = 0
               /\ objects' = {}
               /\ UNCHANGED <<base, requested>>

(* reset(); whoever holds an object must not use it again. *)
Reset == /\ used' = 0 /\ requested' = 0 /\ allocated' = 0
         /\ objects' = {}
         /\ UNCHANGED base

(* contains(p). *)
Contains(p) == p >= base /\ p < (base ++ used)

Next == Reset \/ \E size \in Sizes, alignment \in Alignments : Allocate(size, alignment)

Spec == Init /\ [][Next]_vars
------------------------------------------------------------------------------
(* Every variable has its type. *)
TypeOK == /\ base \in Bases
          /\ used \in 0 .. Capacity
          /\ requested \in Word
          /\ allocated \in Word
          /\ objects \subseteq [addr : Word, size : Word, alignment : Alignments]

(* allocate() gives each caller an aligned block of its own, as large as he   *)
(* asked for and inside the region that the arena owns: two objects have no   *)
(* byte in common, and none reaches past what is counted as used.             *)
Bytes(o) == {o.addr + i : i \in 0 .. o.size - 1}
ObjectsApart ==
  /\ \A o \in objects : o.addr % o.alignment = 0 /\ o.addr + o.size <= base + used
  /\ \A o, p \in objects : o # p => Bytes(o) \cap Bytes(p) = {}

(* internal_fragmentation() is the share of the region lost to padding: the   *)
(* difference of its two counters is every byte used and in no object.       *)
FragmentationIsPadding ==
  /\ allocated = used
  /\ allocated - requested = used - MapThenSumSet(LAMBDA o : o.size, objects)
==============================================================================
