----------------------------- MODULE MCSemiSync -----------------------------
(* Instances of SemiSync for TLC. *)
EXTENDS SemiSync, TLC

CONSTANTS s1, s2, s3, r1, r2, r3

Symmetry == Permutations(Sessions) \cup Permutations(Replicas)
=============================================================================
