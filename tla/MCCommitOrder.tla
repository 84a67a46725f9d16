---------------------------- MODULE MCCommitOrder ----------------------------
(* Instances of CommitOrderManager for TLC. *)
EXTENDS CommitOrderManager, TLC

CONSTANTS w1, w2, w3, v1

WorkerSymmetry == Permutations(Workers)
=============================================================================
