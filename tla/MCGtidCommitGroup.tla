-------------------------- MODULE MCGtidCommitGroup --------------------------
(***************************************************************************)
(* Small instances of GtidCommitGroup for TLC.                             *)
(***************************************************************************)
EXTENDS GtidCommitGroup, TLC

CONSTANTS c1, c2, s1

(* Commit stage and commit order leaders. *)
AllUnderLockCommit == (c1 :> "LOCK_commit" @@ c2 :> "LOCK_commit")

(* A flush stage leader with commit order sessions, and a commit stage leader. *)
FlushAndCommitLeader == (c1 :> "LOCK_log" @@ c2 :> "LOCK_commit")
=============================================================================
