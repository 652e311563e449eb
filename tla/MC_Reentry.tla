----------------------------- MODULE MC_Reentry -----------------------------
(* Instances of Reentry for TLC: the builds that keep its properties, and    *)
(* one that does not.                                                        *)
EXTENDS Reentry

B(first, over, rec) == [guardFirst |-> first, override |-> over, viz |-> rec]

(* The override without recording where a thread_local is marked first; the   *)
(* direct API everywhere.                                                    *)
SoundBuilds  == {B(TRUE, TRUE, FALSE)} \cup {B(f, FALSE, v) : f, v \in BOOLEAN}
ItaniumBuild == {B(FALSE, TRUE, FALSE)}
=============================================================================
