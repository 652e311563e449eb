------------------------------ MODULE FreeStack ------------------------------
(***************************************************************************)
(* What a pool of fixed-size blocks promises its caller, with no word said *)
(* about how the free blocks are linked: a last-in first-out stack of free *)
(* blocks next to the set of blocks that have been handed out.  A block is *)
(* in exactly one of the two, it leaves `live' only when it is given back, *)
(* and new blocks join only as whole slabs the pool has never seen.        *)
(***************************************************************************)
EXTENDS Naturals, Sequences

CONSTANTS Block,    \* every block any slab could hold
          Slabs     \* the block sequences a slab can be linked as

VARIABLES stack,    \* free blocks, next one to be handed out first
          live      \* blocks handed out and not yet given back

fsVars == <<stack, live>>

Elems(s) == {s[i] : i \in DOMAIN s}

Known == Elems(stack) \cup live

(* The pool starts with one slab, entirely free. *)
Init == /\ stack \in Slabs
        /\ live = {}

Pop == /\ stack # <<>>
       /\ live' = live \cup {Head(stack)}
       /\ stack' = Tail(stack)

Push(b) == /\ b \in live
           /\ live' = live \ {b}
           /\ stack' = <<b>> \o stack

Grow(slab) == /\ Elems(slab) \cap Known = {}
              /\ stack' = slab \o stack
              /\ live' = live

Next == \/ Pop
        \/ \E b \in Block : Push(b)
        \/ \E slab \in Slabs : Grow(slab)

Spec == Init /\ [][Next]_fsVars
==============================================================================
