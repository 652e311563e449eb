---------------------------- MODULE MC_NewDelete ----------------------------
(* Instances of NewDelete for TLC: programs that delete what they allocate *)
(* on the thread that owns it, and programs that do not.                   *)
EXTENDS NewDelete

KeepsContract == {[recycle |-> TRUE, cross |-> FALSE, asks |-> {x}] : x \in {"plain", "aligned", "large"}}
CrossesAlone  == {[recycle |-> FALSE, cross |-> TRUE, asks |-> {x}] : x \in {"aligned", "large"}}
Contained     == KeepsContract \cup CrossesAlone
Growing       == {[recycle |-> FALSE, cross |-> FALSE, asks |-> {"plain"}]}
Anything      == {[recycle |-> TRUE, cross |-> TRUE, asks |-> {"plain"}]}
=============================================================================
