---------------------------- MODULE MC_EventRing ----------------------------
(* A ring of three slots; the tail is asked for fewer events than that, for  *)
(* as many and for more.  A feed of two lines, two workers.                  *)
EXTENDS Visualiser

MCMaxCounts == {0, 2, 3, 5}
=============================================================================
