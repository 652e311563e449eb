------------------------------ MODULE MC_Layout ------------------------------
(* The constants of the code.                                               *)
EXTENDS Layout

MCClasses == <<16, 32, 64, 128, 256, 512, 1024>>
MCBases   == {0, 65536, 6553600}
=============================================================================
