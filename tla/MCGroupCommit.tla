--------------------------- MODULE MCGroupCommit ---------------------------
(***************************************************************************)
(* Small instances of GroupCommit, its refinement and its recovery.        *)
(***************************************************************************)
EXTENDS CommitRecovery, TLC

CONSTANTS b1, b2, b3, w1, w2

NoWorkers == << >>
OneWorker == <<w1>>
ReusedWorker == <<w1, w2, w1>>

SessionSymmetry == Permutations(BinlogThds)
=============================================================================
