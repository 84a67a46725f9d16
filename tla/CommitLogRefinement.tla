------------------------- MODULE CommitLogRefinement -------------------------
(***************************************************************************)
(* GroupCommit implements CommitLog: the binary log is the log, what was   *)
(* fsynced is durable, what the engine committed is visible, and a session *)
(* that left finish_commit reports its transaction.                        *)
(***************************************************************************)
EXTENDS GroupCommit

Abstract ==
  INSTANCE CommitLog WITH
    Transactions <- Trxs,
    log <- binlog,
    durable <- synced,
    visible <- committed,
    reported <- Finished

(* With sync_binlog=1, ordered commits and no I/O errors, the four stages  *)
(* with their queues, the merging of groups and the rotation show nothing  *)
(* but a log that is written, synced, committed in order and reported.     *)
ImplementsCommitLog == Abstract!Spec
=============================================================================
