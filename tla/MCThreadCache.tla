--------------------------- MODULE MCThreadCache ---------------------------
(* Instances of ThreadCache for TLC. *)
EXTENDS ThreadCache, TLC

CONSTANTS c1, c2, c3, c4, t1, t2, t3, f1, g1
=============================================================================
