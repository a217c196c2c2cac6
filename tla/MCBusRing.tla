----------------------------- MODULE MCBusRing ------------------------------
(* A ring of two slots whose indices wrap at eight, so every pair of        *)
(* positions, full and empty rings on both sides of the wrap included, is   *)
(* an initial or a reachable state.                                         *)
EXTENDS BusRing, TLC
CONSTANTS m1, m2, big, bad, junk

MCMessage == {m1, m2, big, bad, junk}
=============================================================================
