------------------------- MODULE CommitStageManager -------------------------
(***************************************************************************)
(* The stage queues of the binary log group commit                         *)
(* (sql/rpl_commit_stage_manager.cc): sessions enrol in the queue of a     *)
(* stage, the first one becomes the leader of the stage and works for      *)
(* everybody behind it, the others wait until a leader has finished their  *)
(* commit.  This module has the state of the manager and the effect of its *)
(* operations; GroupCommit composes them with the code that calls them.    *)
(*                                                                         *)
(* A queue is a list of THDs linked through THD::next_to_commit.  It is    *)
(* modelled by a sequence: that is what the links spell as long as no      *)
(* session leaves while it is still linked (QueuedSessionsWait of          *)
(* GroupCommit).                                                           *)
(***************************************************************************)
EXTENDS Naturals, Sequences

CONSTANTS
  BinlogThds,   \* sessions that write to the binary log
  OrderThds,    \* applier workers that commit in order, without a binary log
  NULL          \* owner of a free mutex

ASSUME ThdAssumption ==
  /\ BinlogThds \cap OrderThds = {}
  /\ NULL \notin BinlogThds \cup OrderThds

Thds == BinlogThds \cup OrderThds

(***************************************************************************)
(* Commit_stage_manager::StageID, and the mutex the leader of each stage   *)
(* works under.  Both flush stages share LOCK_log (and their queue lock).  *)
(***************************************************************************)
Stages == {"BINLOG_FLUSH", "SYNC", "COMMIT", "AFTER_COMMIT", "COMMIT_ORDER_FLUSH"}

Mutexes == {"LOCK_log", "LOCK_sync", "LOCK_commit", "LOCK_after_commit"}

VARIABLES
  pc,       \* where each session is; a stage name: leader, about to enter it
  queue,    \* Commit_stage_manager::m_queue, one per stage
  pending,  \* THD::tx_commit_pending
  owner     \* owner of each stage mutex

stageVars == <<pc, queue, pending, owner>>

-----------------------------------------------------------------------------
(***************************************************************************)
(* Mutexes.                                                                *)
(***************************************************************************)
Free(m) == owner[m] = NULL

LockMutex(m, t) == Free(m) /\ owner' = [owner EXCEPT ![m] = t]

UnlockMutex(m) == owner' = [owner EXCEPT ![m] = NULL]

-----------------------------------------------------------------------------
(***************************************************************************)
(* enroll_for up to the point where the session sleeps or goes for the     *)
(* stage mutex.  The session t enrols the list ts that it leads.           *)
(*                                                                         *)
(* Only the first session of a queue can be a leader.  The two flush       *)
(* queues have one leader between them: a commit order session follows     *)
(* whoever leads a non-empty binlog queue, and a binlog session that finds *)
(* a commit order leader waits for it to hand the lead over.               *)
(***************************************************************************)
(* mutant: the session does not look whether the queue was empty *)
EnrolledAs_AlwaysLeader(s) == s

(* mutant: a binlog session does not look for a commit order leader *)
EnrolledAs_OwnQueueOnly(s) == IF queue[s] # << >> THEN "follow" ELSE s

EnrolledAs(s) ==
  IF queue[s] # << >> \/ (s = "COMMIT_ORDER_FLUSH" /\ queue["BINLOG_FLUSH"] # << >>)
  THEN "follow"
  ELSE IF s = "BINLOG_FLUSH" /\ queue["COMMIT_ORDER_FLUSH"] # << >>
       THEN "wait_leader"
       ELSE s

EnrollFor(s, t, ts) ==
  /\ queue' = [queue EXCEPT ![s] = @ \o ts]
  /\ pc' = [pc EXCEPT ![t] = EnrolledAs(s)]

(***************************************************************************)
(* The first binlog session wakes when the commit order leader has handed  *)
(* the lead over by clearing its tx_commit_pending.                        *)
(***************************************************************************)
(* mutant: the session goes back to sleep whatever its flag says *)
BinlogLeaderWakes_Never(t) ==
  pc[t] = "wait_leader" /\ UNCHANGED <<pc, queue, pending, owner>>

BinlogLeaderWakes(t) ==
  /\ pc[t] = "wait_leader"
  /\ ~pending[t]
  /\ pc' = [pc EXCEPT ![t] = "BINLOG_FLUSH"]
  /\ UNCHANGED <<queue, pending, owner>>

(***************************************************************************)
(* The rest of enroll_for for a commit order leader: with LOCK_log in hand *)
(* it looks at the binlog queue once more.  If a binlog session arrived,   *)
(* it gives the lead away, unlocks and follows; otherwise it keeps the     *)
(* mutex and goes on (the caller then fetches the queue).                  *)
(***************************************************************************)
HandOverLead(t) ==
  /\ pc[t] = "COMMIT_ORDER_FLUSH"
  /\ Free("LOCK_log")
  /\ queue["BINLOG_FLUSH"] # << >>
  /\ pending' = [pending EXCEPT ![Head(queue["BINLOG_FLUSH"])] = FALSE]
  /\ pc' = [pc EXCEPT ![t] = "follow"]
  /\ UNCHANGED <<queue, owner>>

(***************************************************************************)
(* fetch_queue_acquire_lock, fetch_queue_skip_acquire_lock: the queue is   *)
(* emptied, so that the next session to enrol leads a new group.           *)
(***************************************************************************)
FetchQueues(ss) == queue' = [s \in Stages |-> IF s \in ss THEN << >> ELSE queue[s]]

(***************************************************************************)
(* signal_done: the sessions of a list may leave.                          *)
(***************************************************************************)
(* mutant: everybody is told, not only the sessions of the list *)
SignalDone_Everybody(ts) == pending' = [t \in Thds |-> FALSE]

SignalDone(ts) ==
  pending' = [t \in Thds |->
                pending[t] /\ t \notin {ts[i] : i \in DOMAIN ts}]
=============================================================================
