--------------------------- MODULE CommitRecovery ---------------------------
(***************************************************************************)
(* A crash of GroupCommit at any moment, and the recovery that follows     *)
(* (BinlogRecovery).                                                       *)
(***************************************************************************)
EXTENDS CommitLogRefinement, BinlogRecovery

(* The first transaction of a session changes rows, later ones are atomic  *)
(* DDL statements.                                                         *)
EventsOf(x) ==
  IF x[2] = 1
  THEN << Event("GTID", x), Event("BEGIN", x), Event("ROWS", x), Event("XID", x) >>
  ELSE << Event("GTID", x), Event("DDL", x) >>

(* Transactions m + 1 to k of the log as the events of a file. *)
EventsBetween(m, k) ==
  LET File[i \in m .. k] ==
        IF i = m THEN << >> ELSE File[i - 1] \o EventsOf(binlog[i])
  IN File[k]

(***************************************************************************)
(* A crash now leaves a prefix of the log, up to any event behind what was *)
(* synced: k whole transactions and e events of the next one.              *)
(***************************************************************************)
EventsOnDisk(k) ==
  IF k < Len(binlog) THEN 0 .. Len(EventsOf(binlog[k + 1])) - 1 ELSE {0}

LastFile(k, e) ==
  EventsBetween(rotated, k)
    \o (IF e = 0 THEN << >> ELSE SubSeq(EventsOf(binlog[k + 1]), 1, e))

(***************************************************************************)
(* open_binlog and ordered_commit, "guaranteeing to flush prepared records *)
(* of transactions before flushing them to binary log, which is required   *)
(* by crash recovery".  Wherever a crash cuts off the binary log, and      *)
(* however much more than known of the redo log is on disk, recovery finds *)
(* the last file well formed, cuts it off behind a whole transaction, and  *)
(* leaves the engine with exactly the transactions of the log.             *)
(***************************************************************************)
CrashConsistent ==
  \A k \in synced .. Len(binlog) : \A e \in EventsOnDisk(k) :
    LET scan == Recover(LastFile(k, e))
    IN /\ ~scan.is_malformed
       /\ scan.valid_pos = Len(EventsBetween(rotated, k))
       /\ \A P \in SUBSET (prepared \ redo_prepared),
             C \in SUBSET (Members(committed) \ redo_committed) :
            redo_committed \cup C \cup RecoveredTrxs(scan, redo_prepared \cup P)
              = Logged(1, k)
=============================================================================
