----------------------------- MODULE GroupCommit -----------------------------
(***************************************************************************)
(* The commit path of a MySQL server with the binary log enabled           *)
(* (MYSQL_BIN_LOG in sql/binlog.cc): two-phase commit between the storage  *)
(* engine's redo log and the binary log, done for groups of sessions in    *)
(* four stages.  Together with it: rotation of the binary log, applier     *)
(* workers that commit in relay log order without a binary log of their    *)
(* own (Commit_order_manager, log_replica_updates=OFF) and share the flush *)
(* stage with the binlog sessions, the GTIDs, and what each of the two     *)
(* logs holds on disk, which decides what a crash would lose.              *)
(*                                                                         *)
(* Atomicity.  A step ends wherever another session could notice: at each  *)
(* mutex, queue, fsync, engine commit and wake-up.  Taking a stage mutex   *)
(* and fetching the queue of that stage are one step.                      *)
(***************************************************************************)
EXTENDS CommitStageManager, Integers, FiniteSets

CONSTANTS
  OrderSeq,      \* relay log: the worker each of its transactions goes to
  OrderModes,    \* the values binlog_order_commits is ever set to
  AbortServer,   \* binlog_error_action = ABORT_SERVER (else IGNORE_ERROR)
  SyncPeriod,    \* sync_binlog
  Faults,        \* the failures the environment may cause
  MaxTrx,        \* bound: transactions per binlog session
  MaxRotations   \* bound: rotations of the binary log

(***************************************************************************)
(* "flush_member": writing one session's cache to the binary log fails;    *)
(* "flush_file": flushing the log's IO cache to the file fails;            *)
(* "sync": fsync of the file fails; "after_sync": the after_sync hook      *)
(* (semi-synchronous replication) reports an error.                        *)
(***************************************************************************)
FaultKinds == {"flush_member", "flush_file", "sync", "after_sync"}

ASSUME ConfigAssumption ==
  /\ IsFiniteSet(BinlogThds)
  /\ OrderSeq \in Seq(OrderThds)
  /\ OrderModes \subseteq BOOLEAN /\ OrderModes # {}
  /\ AbortServer \in BOOLEAN
  /\ SyncPeriod \in Nat
  /\ Faults \subseteq FaultKinds
  /\ MaxTrx \in Nat
  /\ MaxRotations \in Nat

VARIABLES
  trx,            \* the session's current transaction (relay log position for a worker)
  commit_error,   \* THD::commit_error
  xid_written,    \* Transaction_ctx::m_flags.xid_written
  commit_low,     \* Transaction_ctx::m_flags.commit_low
  run_hooks,      \* Transaction_ctx::m_flags.run_hooks
  list,           \* wait_queue, commit_queue, final_queue ... of a leader
  order_list,     \* commit_order_thd: commit order sessions of the flush leader
  err,            \* flush_error and sync_error of a leader
  open,           \* is_open()
  binlog,         \* transactions in the binary log, all its files end to end
  synced,         \* how much of it is known to be on disk
  end_pos,        \* atomic_binlog_end_pos: how much dump threads may send
  rotated,        \* how much of it is in files before the current one
  rotations,      \* rotations so far
  sync_counter,   \* groups since the last fsync
  prep_xids,      \* m_atomic_prep_xids
  prepared,       \* transactions prepared in the engine
  committed,      \* transactions committed in the engine, in that order
  redo_prepared,  \* prepare records known to be on disk
  redo_committed, \* commit records known to be on disk
  gno,            \* THD::owned_gtid of a binlog session (0: none)
  next_gno,       \* Gtid_state::next_free_gno
  executed,       \* Gtid_state::executed_gtids, this server's own UUID
  turn,           \* relay log transactions that left the commit order queue
  relay_committed,\* relay log transactions committed in the engine
  relay_durable,  \* those whose commit record is known to be on disk
  relay_executed, \* executed_gtids, the UUID of the relay log's transactions
  hooked,         \* transactions whose after_commit hook ran
  server,         \* "up" or "aborted"
  order_commits   \* opt_binlog_order_commits

thdVars == <<trx, commit_error, xid_written, commit_low, run_hooks>>
leaderVars == <<list, order_list, err>>
logVars == <<open, binlog, synced, end_pos, rotated, sync_counter>>
engineVars == <<prepared, committed, relay_committed>>
redoVars == <<redo_prepared, redo_committed, relay_durable>>
gtidVars == <<gno, next_gno, executed, relay_executed>>
otherVars == <<prep_xids, turn, rotations, hooked, server>>

vars == <<stageVars, thdVars, leaderVars, logVars, engineVars, redoVars,
          gtidVars, otherVars, order_commits>>

Members(ts) == {ts[i] : i \in DOMAIN ts}

Trx(t) == <<t, trx[t]>>

TrxSeq(ts) == [i \in DOMAIN ts |-> Trx(ts[i])]

(* The sequences that leave out some elements of s and keep their order. *)
Subsequences(s) ==
  UNION {{[i \in 1 .. n |-> s[f[i]]] :
            f \in {g \in [1 .. n -> DOMAIN s] :
                    \A i, j \in 1 .. n : i < j => g[i] < g[j]}} :
         n \in 0 .. Len(s)}

Init ==
  /\ pc = [t \in Thds |-> "idle"]
  /\ queue = [s \in Stages |-> << >>]
  /\ pending = [t \in Thds |-> FALSE]
  /\ owner = [m \in Mutexes |-> NULL]
  /\ trx = [t \in Thds |-> 0]
  /\ commit_error = [t \in Thds |-> "NONE"]
  /\ xid_written = [t \in Thds |-> FALSE]
  /\ commit_low = [t \in Thds |-> FALSE]
  /\ run_hooks = [t \in Thds |-> FALSE]
  /\ list = [t \in Thds |-> << >>]
  /\ order_list = << >>
  /\ err = [t \in Thds |-> "none"]
  /\ open = TRUE
  /\ binlog = << >> /\ synced = 0 /\ end_pos = 0 /\ rotated = 0
  /\ rotations = 0 /\ sync_counter = 0 /\ prep_xids = 0
  /\ prepared = {} /\ committed = << >> /\ relay_committed = 0
  /\ redo_prepared = {} /\ redo_committed = {} /\ relay_durable = 0
  /\ gno = [t \in Thds |-> 0] /\ next_gno = 1
  /\ executed = {} /\ relay_executed = {}
  /\ turn = 0 /\ hooked = << >> /\ server = "up"
  /\ order_commits \in OrderModes

-----------------------------------------------------------------------------
(***************************************************************************)
(* Helpers: the engine and the GTID state, as the commit path uses them.   *)
(***************************************************************************)

(* ha_flush_logs: everything in the redo log buffer reaches the disk. *)
HaFlushLogs ==
  /\ redo_prepared' = prepared
  /\ redo_committed' = Members(committed)
  /\ relay_durable' = relay_committed

(* Transaction t commits in the engine if nobody committed it for it yet. *)
CommitInEngine(t) ==
  /\ committed' = Append(committed, Trx(t))
  /\ commit_low' = [commit_low EXCEPT ![t] = FALSE]

(* get_automatic_gno looks for a number, from next_free_gno on, that is    *)
(* neither executed nor owned.  No more numbers are ever in use than there *)
(* are transactions.                                                       *)
FreeGnos ==
  {g \in next_gno .. (Cardinality(BinlogThds) * MaxTrx) :
     g \notin executed /\ \A t \in BinlogThds : gno[t] # g}

(* assign_automatic_gtids_to_flush_group: the smallest free numbers, in    *)
(* the order of the list.                                                  *)
AssignGtids(ts) ==
  \E f \in [DOMAIN ts -> FreeGnos] :
    /\ \A i, j \in DOMAIN ts : i < j => f[i] < f[j]
    /\ \A g \in FreeGnos : g < f[Len(ts)] => \E i \in DOMAIN ts : f[i] = g
    /\ gno' = [t \in Thds |-> IF t \in Members(ts)
                              THEN f[CHOOSE i \in DOMAIN ts : ts[i] = t]
                              ELSE gno[t]]
    /\ next_gno' = f[Len(ts)] + 1

(* mutant: sessions with a flush or sync error are left out *)
UpdateCommitGroup_SkipErrors(ts) ==
  LET good == {t \in Members(ts) : commit_error[t] = "NONE"}
  IN  /\ executed' = executed \cup ({gno[t] : t \in good} \ {0})
      /\ gno' = [t \in Thds |-> IF t \in good THEN 0 ELSE gno[t]]
      /\ UNCHANGED <<next_gno, relay_executed>>

(* Gtid_state::update_commit_group: flush and sync errors count as commits. *)
UpdateCommitGroup(ts) ==
  /\ executed' = executed \cup ({gno[t] : t \in Members(ts)} \ {0})
  /\ gno' = [t \in Thds |-> IF t \in Members(ts) THEN 0 ELSE gno[t]]
  /\ UNCHANGED <<next_gno, relay_executed>>

(* The same for commit order workers: their GTIDs came with the relay log. *)
UpdateRelayGtids(ts) ==
  /\ relay_executed' = relay_executed \cup {trx[t] : t \in Members(ts)}
  /\ UNCHANGED <<gno, next_gno, executed>>

(* update_on_commit and update_on_rollback, from finish_commit *)
UpdateOwnGtid(t) ==
  /\ gno' = [gno EXCEPT ![t] = 0]
  /\ IF gno[t] # 0 /\ commit_error[t] = "NONE"
     THEN executed' = executed \cup {gno[t]} /\ UNCHANGED next_gno
     ELSE /\ next_gno' = IF gno[t] # 0 /\ gno[t] < next_gno THEN gno[t] ELSE next_gno
          /\ UNCHANGED executed
  /\ UNCHANGED relay_executed

(* dec_prep_xids for every session of ts that has its xid_written flag set *)
(* mutant: only the first session of the list is counted down *)
DecPrepXids_FirstOnly(ts) ==
  /\ prep_xids' = prep_xids - Cardinality({t \in {ts[1]} : xid_written[t]})
  /\ xid_written' = [t \in Thds |-> xid_written[t] /\ t # ts[1]]

(* mutant: counted down without a look at xid_written *)
DecPrepXids_Unconditional(ts) ==
  /\ prep_xids' = prep_xids - Len(ts)
  /\ xid_written' = [t \in Thds |-> xid_written[t] /\ t \notin Members(ts)]

DecPrepXids(ts) ==
  /\ prep_xids' = prep_xids - Cardinality({t \in Members(ts) : xid_written[t]})
  /\ xid_written' = [t \in Thds |-> xid_written[t] /\ t \notin Members(ts)]

-----------------------------------------------------------------------------
(***************************************************************************)
(* A binlog session, as far as the flush stage.                            *)
(***************************************************************************)
Goto(t, l) == pc' = [pc EXCEPT ![t] = l]

(* MYSQL_BIN_LOG::prepare: the engine prepares, its record is not flushed. *)
(* A transaction that ran while the log was closed has empty caches, is    *)
(* committed by commit() directly and never gets here.                     *)
Prepare(t) ==
  /\ pc[t] = "idle" /\ open /\ trx[t] < MaxTrx
  /\ trx' = [trx EXCEPT ![t] = @ + 1]
  /\ prepared' = prepared \cup {<<t, trx[t] + 1>>}
  /\ Goto(t, "prepared")
  /\ UNCHANGED <<queue, pending, owner, commit_error, xid_written, commit_low,
                 run_hooks, leaderVars, logVars, committed, relay_committed,
                 redoVars, gtidVars, otherVars>>

InitThdVariables(t) ==
  /\ pending' = [pending EXCEPT ![t] = TRUE]
  /\ commit_error' = [commit_error EXCEPT ![t] = "NONE"]
  /\ xid_written' = [xid_written EXCEPT ![t] = FALSE]
  /\ commit_low' = [commit_low EXCEPT ![t] = TRUE]
  /\ run_hooks' = [run_hooks EXCEPT ![t] = TRUE]

(* commit, ordered_commit as far as the flush stage's queue *)
OrderedCommit(t) ==
  /\ pc[t] = "prepared"
  /\ InitThdVariables(t)
  /\ err' = [err EXCEPT ![t] = "none"]
  /\ EnrollFor("BINLOG_FLUSH", t, <<t>>)
  /\ UNCHANGED <<owner, trx, list, order_list, logVars, engineVars, redoVars,
                 gtidVars, otherVars>>

BinlogLeader(t) ==
  /\ BinlogLeaderWakes(t)
  /\ UNCHANGED <<thdVars, leaderVars, logVars, engineVars, redoVars, gtidVars,
                 otherVars>>

(* The flush leader takes LOCK_log and both flush queues at once.  With    *)
(* the log closed there is nothing to write, and the engine is flushed     *)
(* only on behalf of commit order sessions.                                *)
EnterFlush(t) ==
  /\ pc[t] = "BINLOG_FLUSH"
  /\ LockMutex("LOCK_log", t)
  /\ list' = [list EXCEPT ![t] = queue["BINLOG_FLUSH"]]
  /\ order_list' = queue["COMMIT_ORDER_FLUSH"]
  /\ FetchQueues({"BINLOG_FLUSH", "COMMIT_ORDER_FLUSH"})
  /\ Goto(t, IF open \/ order_list' # << >> THEN "flush_engine"
                                            ELSE "to_commit_closed")
  /\ UNCHANGED <<pending, thdVars, err, logVars, engineVars, redoVars, gtidVars,
                 otherVars>>

(* mutant: the engine's log is not flushed before the binary log *)
FlushEngine_NoFlush(t) ==
  /\ pc[t] = "flush_engine"
  /\ Goto(t, IF order_list # << >> THEN "order_done" ELSE "write")
  /\ UNCHANGED <<queue, pending, owner, thdVars, leaderVars, logVars, engineVars,
                 redoVars, gtidVars, otherVars>>

FlushEngine(t) ==
  /\ pc[t] = "flush_engine"
  /\ HaFlushLogs
  /\ Goto(t, IF order_list # << >> THEN "order_done" ELSE "write")
  /\ UNCHANGED <<queue, pending, owner, thdVars, leaderVars, logVars, engineVars,
                 gtidVars, otherVars>>

(* process_final_stage_for_ordered_commit_group *)
FinishOrderList(t) ==
  /\ pc[t] = "order_done"
  /\ UpdateRelayGtids(order_list)
  /\ SignalDone(order_list)
  /\ order_list' = << >>
  /\ Goto(t, IF open THEN "write" ELSE "to_commit_closed")
  /\ UNCHANGED <<queue, owner, thdVars, list, err, logVars, engineVars, redoVars,
                 otherVars>>

(* assign_automatic_gtids_to_flush_group, then every session's cache to    *)
(* the binary log, then the log to its file.  The group's flush_error is   *)
(* only set when no session's cache could be written, because a failing    *)
(* session returns 1, which is also the variable's initial value.          *)
FlushFails(written, file_fails) == written = << >> \/ file_fails

(* flush_thread_caches of the sessions it works for *)
(* mutant: the cache is not reset, and what it holds is written once more *)
FlushThreadCaches_Again(written) ==
  /\ binlog' = binlog \o TrxSeq(written) \o TrxSeq(written)
  /\ xid_written' = [u \in Thds |-> xid_written[u] \/ u \in Members(written)]
  /\ prep_xids' = prep_xids + Len(written)

FlushThreadCaches(written) ==
  /\ binlog' = binlog \o TrxSeq(written)
  /\ xid_written' = [u \in Thds |-> xid_written[u] \/ u \in Members(written)]
  /\ prep_xids' = prep_xids + Len(written)

(* update_binlog_end_pos_after_sync: unless every group is synced, what is *)
(* in the file may be sent at once.                                        *)
(* mutant: sync_binlog=1 is forgotten *)
EndPosAfterFlush_Always(fails, len) == IF fails THEN end_pos ELSE len

EndPosAfterFlush(fails, len) == IF fails \/ SyncPeriod = 1 THEN end_pos ELSE len

WriteBinlog(t) ==
  /\ pc[t] = "write"
  /\ \E written \in Subsequences(list[t]), file_fails \in BOOLEAN :
       LET failed == Members(list[t]) \ Members(written)
           fails == FlushFails(written, file_fails)
       IN  /\ failed # {} => "flush_member" \in Faults
           /\ file_fails => "flush_file" \in Faults /\ written # << >>
           /\ FlushThreadCaches(written)
           /\ commit_error' =
                [u \in Thds |-> IF u \in failed \/ (u = t /\ file_fails)
                                THEN "FLUSH_ERROR" ELSE commit_error[u]]
           /\ err' = [err EXCEPT ![t] = IF fails THEN "flush" ELSE "none"]
           /\ end_pos' = EndPosAfterFlush(fails, Len(binlog'))
           /\ server' = IF fails /\ AbortServer THEN "aborted" ELSE server
           /\ Goto(t, IF fails THEN "close_flush" ELSE "to_sync")
  /\ AssignGtids(list[t])
  /\ UNCHANGED <<queue, pending, owner, trx, commit_low, run_hooks, list,
                 order_list, open, synced, rotated, rotations, sync_counter,
                 engineVars, redoVars, executed, relay_executed, turn, hooked>>

(* MYSQL_BIN_LOG::close, for handle_binlog_flush_or_sync_error: LOCK_sync  *)
(* keeps a sync leader off the file.  The last writes to the failing file  *)
(* may or may not succeed.                                                 *)
CloseBinlog(t) ==
  /\ pc[t] \in {"close_flush", "close_sync"}
  /\ IF open
     THEN /\ Free("LOCK_sync")
          /\ open' = FALSE
          /\ end_pos' \in {end_pos, Len(binlog)}
          /\ synced' \in {synced, Len(binlog)}
     ELSE UNCHANGED <<open, end_pos, synced>>
  /\ IF pc[t] = "close_flush"
     THEN Goto(t, "to_sync") /\ UNCHANGED owner
     ELSE Goto(t, "signal") /\ UnlockMutex("LOCK_log")
  /\ UNCHANGED <<queue, pending, thdVars, leaderVars, binlog, rotated,
                 sync_counter, engineVars, redoVars, gtidVars, otherVars>>

-----------------------------------------------------------------------------
(***************************************************************************)
(* The sync, commit and after commit stages.  change_stage: a leader hands *)
(* its list over to the next stage and lets the mutex of its stage go.     *)
(***************************************************************************)
ChangeStage(t, s, leave) ==
  /\ EnrollFor(s, t, list[t])
  /\ UnlockMutex(leave)
  /\ list' = [list EXCEPT ![t] = << >>]
  /\ UNCHANGED <<pending, thdVars, order_list, err, logVars, engineVars,
                 redoVars, gtidVars, otherVars>>

EnterStage(t, s, m, work) ==
  /\ pc[t] = s
  /\ LockMutex(m, t)
  /\ list' = [list EXCEPT ![t] = queue[s]]
  /\ FetchQueues({s})
  /\ Goto(t, work)
  /\ UNCHANGED <<pending, thdVars, order_list, err, logVars, engineVars,
                 redoVars, gtidVars, otherVars>>

(* mutant: the leave and enter mutexes are swapped *)
LeaveFlush_WrongMutex(t) == pc[t] = "to_sync" /\ ChangeStage(t, "SYNC", "LOCK_sync")

LeaveFlush(t) == pc[t] = "to_sync" /\ ChangeStage(t, "SYNC", "LOCK_log")

EnterSync(t) == EnterStage(t, "SYNC", "LOCK_sync", "sync")

(* sync_binlog_file and, when every group is synced, the new end position: *)
(* that of the last session of the list without an error.                  *)
DoSync(t) == err[t] = "none" /\ SyncPeriod # 0 /\ sync_counter + 1 >= SyncPeriod

TrxPositions(ts) ==
  {i \in DOMAIN binlog :
     \E u \in Members(ts) : commit_error[u] = "NONE" /\ binlog[i] = Trx(u)}

EndPosAfterSync(ts) ==
  LET positions == TrxPositions(ts) \cup {end_pos}
  IN  end_pos' \in positions /\ \A i \in positions : i <= end_pos'

SyncBinlog(t) ==
  /\ pc[t] = "sync"
  /\ \E fails \in BOOLEAN :
       /\ fails => DoSync(t) /\ open /\ "sync" \in Faults
       /\ sync_counter' = IF DoSync(t) THEN 0
                          ELSE IF err[t] = "none" /\ SyncPeriod # 0
                               THEN sync_counter + 1 ELSE sync_counter
       /\ synced' = IF DoSync(t) /\ open /\ ~fails THEN Len(binlog) ELSE synced
       /\ commit_error' = IF fails THEN [commit_error EXCEPT ![t] = "SYNC_ERROR"]
                                   ELSE commit_error
       /\ err' = IF fails THEN [err EXCEPT ![t] = "sync"] ELSE err
       /\ IF SyncPeriod = 1 /\ err[t] = "none" /\ ~fails
          THEN EndPosAfterSync(list[t])
          ELSE UNCHANGED end_pos
       /\ IF order_commits /\ ~(fails /\ AbortServer)
          THEN Goto(t, "to_commit") /\ UNCHANGED owner
          ELSE Goto(t, "after_sync") /\ UnlockMutex("LOCK_sync")
  /\ UNCHANGED <<queue, pending, trx, xid_written, commit_low, run_hooks, list,
                 order_list, open, binlog, rotated, engineVars,
                 redoVars, gtidVars, otherVars>>

LeaveSync(t) == pc[t] = "to_commit" /\ ChangeStage(t, "COMMIT", "LOCK_sync")

(* The log was found closed: from the flush stage straight to commit. *)
LeaveClosedFlush(t) ==
  IF order_commits
  THEN pc[t] = "to_commit_closed" /\ ChangeStage(t, "COMMIT", "LOCK_log")
  ELSE /\ pc[t] = "to_commit_closed"
       /\ UnlockMutex("LOCK_log")
       /\ Goto(t, "after_sync")
       /\ UNCHANGED <<queue, pending, thdVars, leaderVars, logVars, engineVars,
                      redoVars, gtidVars, otherVars>>

EnterCommit(t) == EnterStage(t, "COMMIT", "LOCK_commit", "commit_hook")

(* call_after_sync_hook, under LOCK_commit or after all mutexes are gone. *)
AfterSyncHook(t) ==
  /\ \E fails \in BOOLEAN :
       /\ fails => err[t] = "none" /\ "after_sync" \in Faults
       /\ err' = IF fails THEN [err EXCEPT ![t] = "sync"] ELSE err
  /\ \/ pc[t] = "commit_hook" /\ Goto(t, "commit")
     \/ /\ pc[t] = "after_sync"
        /\ Goto(t, IF err'[t] = "sync" THEN "sync_error" ELSE "signal")
  /\ UNCHANGED <<queue, pending, owner, thdVars, list, order_list, logVars,
                 engineVars, redoVars, gtidVars, otherVars>>

(* process_commit_stage_queue: the sessions in the order of the list ...   *)
(* mutant: the sessions of the list in any order *)
CommitNext_AnyOrder(t) ==
  /\ pc[t] = "commit"
  /\ \E u \in Members(list[t]) : commit_low[u] /\ CommitInEngine(u)
  /\ UNCHANGED <<stageVars, trx, commit_error, xid_written, run_hooks, leaderVars,
                 logVars, prepared, relay_committed, redoVars, gtidVars, otherVars>>

CommitNext(t) ==
  /\ pc[t] = "commit"
  /\ \E i \in DOMAIN list[t] :
       /\ commit_low[list[t][i]]
       /\ \A j \in 1 .. (i - 1) : ~commit_low[list[t][j]]
       /\ CommitInEngine(list[t][i])
  /\ UNCHANGED <<stageVars, trx, commit_error, xid_written, run_hooks, leaderVars,
                 logVars, prepared, relay_committed, redoVars, gtidVars, otherVars>>

(* ... then the GTIDs of the group, then the count of prepared xids. *)
CommitGroupDone(t) ==
  /\ pc[t] = "commit"
  /\ \A u \in Members(list[t]) : ~commit_low[u]
  /\ UpdateCommitGroup(list[t])
  /\ DecPrepXids(list[t])
  /\ Goto(t, "to_after_commit")
  /\ UNCHANGED <<queue, pending, owner, trx, commit_error, commit_low, run_hooks,
                 leaderVars, logVars, engineVars, redoVars, turn, rotations, hooked,
                 server>>

LeaveCommit(t) ==
  pc[t] = "to_after_commit" /\ ChangeStage(t, "AFTER_COMMIT", "LOCK_commit")

EnterAfterCommit(t) ==
  EnterStage(t, "AFTER_COMMIT", "LOCK_after_commit", "after_commit")

(* process_after_commit_stage_queue *)
AfterCommit(t) ==
  /\ pc[t] = "after_commit"
  /\ \E todo \in Subsequences(list[t]) :
       /\ Members(todo) = {u \in Members(list[t]) : run_hooks[u]}
       /\ hooked' = hooked \o TrxSeq(todo)
  /\ run_hooks' = [u \in Thds |-> run_hooks[u] /\ u \notin Members(list[t])]
  /\ UnlockMutex("LOCK_after_commit")
  /\ Goto(t, IF err[t] = "sync" THEN "sync_error" ELSE "signal")
  /\ UNCHANGED <<queue, pending, trx, commit_error, xid_written, commit_low,
                 leaderVars, logVars, engineVars, redoVars, gtidVars,
                 prep_xids, turn, rotations, server>>

(* handle_binlog_flush_or_sync_error for a sync error: stop the server, or *)
(* take LOCK_log and close the log.                                        *)
HandleSyncError(t) ==
  /\ pc[t] = "sync_error"
  /\ IF AbortServer
     THEN server' = "aborted" /\ UNCHANGED <<pc, owner>>
     ELSE LockMutex("LOCK_log", t) /\ Goto(t, "close_sync") /\ UNCHANGED server
  /\ UNCHANGED <<queue, pending, thdVars, leaderVars, logVars, engineVars,
                 redoVars, gtidVars, prep_xids, turn, rotations, hooked>>

Signal(t) ==
  /\ pc[t] = "signal"
  /\ SignalDone(list[t])
  /\ Goto(t, "finish")
  /\ UNCHANGED <<queue, owner, thdVars, leaderVars, logVars, engineVars, redoVars,
                 gtidVars, otherVars>>

(* A follower returns from enroll_for once a leader cleared its flag. *)
FollowerWakes(t) ==
  /\ pc[t] = "follow"
  /\ ~pending[t]
  /\ Goto(t, IF t \in BinlogThds THEN "finish" ELSE "idle")
  /\ UNCHANGED <<queue, pending, owner, thdVars, leaderVars, logVars, engineVars,
                 redoVars, gtidVars, otherVars>>

(* finish_commit, of followers and of the last leader: commit in the       *)
(* engine what no commit stage leader committed ...                        *)
(* mutant: commits again what the commit stage leader committed *)
FinishInEngine_Again(t) ==
  /\ pc[t] = "finish"
  /\ CommitInEngine(t)
  /\ Goto(t, "finish_low")
  /\ UNCHANGED <<queue, pending, owner, trx, commit_error, xid_written, run_hooks,
                 leaderVars, logVars, prepared, relay_committed, redoVars,
                 gtidVars, otherVars>>

FinishInEngine(t) ==
  /\ pc[t] = "finish"
  /\ commit_low[t]
  /\ CommitInEngine(t)
  /\ Goto(t, "finish_low")
  /\ UNCHANGED <<queue, pending, owner, trx, commit_error, xid_written, run_hooks,
                 leaderVars, logVars, prepared, relay_committed, redoVars,
                 gtidVars, otherVars>>

RequestRotation(t) ==
  /\ rotations < MaxRotations
  /\ rotations' = rotations + 1
  /\ Goto(t, "rotate")

(* ... then the GTID, the prepared xid, the hook.  A leader whose group    *)
(* filled the current file goes on to rotate.                              *)
FinishCommit(t) ==
  /\ pc[t] = "finish_low" \/ (pc[t] = "finish" /\ ~commit_low[t])
  /\ UpdateOwnGtid(t)
  /\ DecPrepXids(<<t>>)
  /\ IF pc[t] = "finish_low" /\ run_hooks[t]
     THEN /\ hooked' = Append(hooked, Trx(t))
          /\ run_hooks' = [run_hooks EXCEPT ![t] = FALSE]
     ELSE UNCHANGED <<hooked, run_hooks>>
  /\ list' = [list EXCEPT ![t] = << >>]
  /\ \/ Goto(t, "idle") /\ UNCHANGED rotations
     \/ /\ list[t] # << >> /\ commit_error[t] = "NONE"
        /\ RequestRotation(t)
  /\ UNCHANGED <<queue, pending, owner, trx, commit_error, commit_low, order_list,
                 err, logVars, engineVars, redoVars, turn, server>>

-----------------------------------------------------------------------------
(***************************************************************************)
(* Rotation (rotate, rotate_and_purge, new_file_impl).                     *)
(***************************************************************************)

(* FLUSH BINARY LOGS *)
FlushLogs(t) ==
  /\ pc[t] = "idle"
  /\ RequestRotation(t)
  /\ UNCHANGED <<queue, pending, owner, thdVars, leaderVars, logVars, engineVars,
                 redoVars, gtidVars, prep_xids, turn, hooked, server>>

RotateLock(t) ==
  /\ pc[t] = "rotate"
  /\ Free("LOCK_log")
  /\ IF open THEN LockMutex("LOCK_log", t) /\ Goto(t, "rotate_wait")
             ELSE Goto(t, "idle") /\ UNCHANGED owner
  /\ UNCHANGED <<queue, pending, thdVars, leaderVars, logVars, engineVars,
                 redoVars, gtidVars, otherVars>>

(* wait_for_prep_xids with LOCK_log held, then ha_flush_logs *)
WaitForPrepXids(t) ==
  /\ pc[t] = "rotate_wait"
  /\ prep_xids = 0
  /\ HaFlushLogs
  /\ Goto(t, "new_file")
  /\ UNCHANGED <<queue, pending, owner, thdVars, leaderVars, logVars, engineVars,
                 gtidVars, otherVars>>

(* The old file is synced and closed under LOCK_sync, a new one opened. *)
(* mutant: the request to rotate is still there afterwards *)
NewFile_RotateAgain(t) ==
  /\ pc[t] = "new_file"
  /\ Free("LOCK_sync")
  /\ rotated' = Len(binlog) /\ synced' = Len(binlog) /\ end_pos' = Len(binlog)
  /\ UnlockMutex("LOCK_log")
  /\ Goto(t, "rotate")
  /\ UNCHANGED <<queue, pending, thdVars, leaderVars, open, binlog,
                 sync_counter, engineVars, redoVars, gtidVars, otherVars>>

NewFile(t) ==
  /\ pc[t] = "new_file"
  /\ Free("LOCK_sync")
  /\ rotated' = Len(binlog) /\ synced' = Len(binlog) /\ end_pos' = Len(binlog)
  /\ UnlockMutex("LOCK_log")
  /\ Goto(t, "idle")
  /\ UNCHANGED <<queue, pending, thdVars, leaderVars, open, binlog,
                 sync_counter, engineVars, redoVars, gtidVars, otherVars>>

-----------------------------------------------------------------------------
(***************************************************************************)
(* A commit order worker (Commit_order_manager): it waits for its turn,    *)
(* commits in the engine without flushing, enrols for the flush and lets   *)
(* the next worker have its turn.                                          *)
(***************************************************************************)
OrderCommit(w) ==
  /\ pc[w] = "idle"
  /\ turn < Len(OrderSeq) /\ OrderSeq[turn + 1] = w
  /\ trx' = [trx EXCEPT ![w] = turn + 1]
  /\ relay_committed' = turn + 1
  /\ pending' = [pending EXCEPT ![w] = TRUE]
  /\ Goto(w, "order_committed")
  /\ UNCHANGED <<queue, owner, commit_error, xid_written, commit_low, run_hooks,
                 leaderVars, logVars, prepared, committed, redoVars, gtidVars,
                 otherVars>>

(* enroll_for and finish_one *)
(* mutant: enrols for the wrong stage *)
OrderEnroll_BinlogQueue(w) ==
  /\ pc[w] = "order_committed"
  /\ EnrollFor("BINLOG_FLUSH", w, <<w>>)
  /\ turn' = turn + 1
  /\ UNCHANGED <<pending, owner, thdVars, leaderVars, logVars, engineVars,
                 redoVars, gtidVars, prep_xids, rotations, hooked, server>>

OrderEnroll(w) ==
  /\ pc[w] = "order_committed"
  /\ EnrollFor("COMMIT_ORDER_FLUSH", w, <<w>>)
  /\ turn' = turn + 1
  /\ UNCHANGED <<pending, owner, thdVars, leaderVars, logVars, engineVars,
                 redoVars, gtidVars, prep_xids, rotations, hooked, server>>

OrderHandOver(w) ==
  /\ HandOverLead(w)
  /\ UNCHANGED <<thdVars, leaderVars, logVars, engineVars, redoVars, gtidVars,
                 otherVars>>

(* flush_engine_and_signal_threads, when no binlog session has come *)
OrderFetch(w) ==
  /\ queue["BINLOG_FLUSH"] = << >>
  /\ EnterStage(w, "COMMIT_ORDER_FLUSH", "LOCK_log", "order_lock")

OrderLockCommit(w) ==
  /\ pc[w] = "order_lock"
  /\ Free("LOCK_commit")
  /\ owner' = [owner EXCEPT !["LOCK_commit"] = w, !["LOCK_log"] = NULL]
  /\ Goto(w, "order_flush")
  /\ UNCHANGED <<queue, pending, thdVars, leaderVars, logVars, engineVars,
                 redoVars, gtidVars, otherVars>>

(* mutant: the engine's log is not flushed *)
OrderFlush_NoFlush(w) ==
  /\ pc[w] = "order_flush"
  /\ Goto(w, "order_gtids")
  /\ UNCHANGED <<queue, pending, owner, thdVars, leaderVars, logVars, engineVars,
                 redoVars, gtidVars, otherVars>>

OrderFlush(w) ==
  /\ pc[w] = "order_flush"
  /\ HaFlushLogs
  /\ Goto(w, "order_gtids")
  /\ UNCHANGED <<queue, pending, owner, thdVars, leaderVars, logVars, engineVars,
                 gtidVars, otherVars>>

OrderGtids(w) ==
  /\ pc[w] = "order_gtids"
  /\ UpdateRelayGtids(list[w])
  /\ UnlockMutex("LOCK_commit")
  /\ Goto(w, "order_signal")
  /\ UNCHANGED <<queue, pending, thdVars, leaderVars, logVars, engineVars,
                 redoVars, otherVars>>

OrderSignal(w) ==
  /\ pc[w] = "order_signal"
  /\ SignalDone(list[w])
  /\ list' = [list EXCEPT ![w] = << >>]
  /\ Goto(w, "idle")
  /\ UNCHANGED <<queue, owner, thdVars, order_list, err, logVars, engineVars,
                 redoVars, gtidVars, otherVars>>

-----------------------------------------------------------------------------
(* Steps a session takes on its own once its commit or rotation began. *)
BinlogStep(t) ==
  \/ OrderedCommit(t) \/ BinlogLeader(t)
  \/ EnterFlush(t) \/ FlushEngine(t) \/ FinishOrderList(t) \/ WriteBinlog(t)
  \/ CloseBinlog(t) \/ LeaveFlush(t) \/ LeaveClosedFlush(t)
  \/ EnterSync(t) \/ SyncBinlog(t) \/ LeaveSync(t)
  \/ EnterCommit(t) \/ AfterSyncHook(t) \/ CommitNext(t) \/ CommitGroupDone(t)
  \/ LeaveCommit(t) \/ EnterAfterCommit(t) \/ AfterCommit(t)
  \/ HandleSyncError(t) \/ Signal(t) \/ FollowerWakes(t)
  \/ FinishInEngine(t) \/ FinishCommit(t)
  \/ RotateLock(t) \/ WaitForPrepXids(t) \/ NewFile(t)

OrderStep(w) ==
  \/ OrderEnroll(w) \/ OrderHandOver(w) \/ FollowerWakes(w)
  \/ OrderFetch(w) \/ OrderLockCommit(w) \/ OrderFlush(w)
  \/ OrderGtids(w) \/ OrderSignal(w)

Quiescent ==
  \/ server = "aborted"
  \/ /\ \A t \in Thds : pc[t] = "idle"
     /\ \A t \in BinlogThds : trx[t] = MaxTrx \/ ~open
     /\ turn = Len(OrderSeq)
     /\ rotations = MaxRotations

(* Nothing is left to do: the server is down, or the bounds are reached. *)
Stop == Quiescent /\ UNCHANGED vars

(* SET GLOBAL binlog_order_commits, at any time *)
SetOrderCommits ==
  /\ order_commits' \in OrderModes \ {order_commits}
  /\ UNCHANGED <<stageVars, thdVars, leaderVars, logVars, engineVars, redoVars,
                 gtidVars, otherVars>>

Next ==
  \/ /\ server = "up" /\ UNCHANGED order_commits
     /\ \/ \E t \in BinlogThds : Prepare(t) \/ FlushLogs(t) \/ BinlogStep(t)
        \/ \E w \in OrderThds : OrderCommit(w) \/ OrderStep(w)
  \/ server = "up" /\ SetOrderCommits
  \/ Stop

Spec == Init /\ [][Next]_vars

(***************************************************************************)
(* Every thread that can run eventually does: threads are preemptively     *)
(* scheduled and no step of a commit depends on a client.  When a session  *)
(* starts a commit is up to its client, and carries no fairness.           *)
(***************************************************************************)
Fairness ==
  /\ \A t \in BinlogThds :
       WF_vars(server = "up" /\ UNCHANGED order_commits /\ BinlogStep(t))
  /\ \A w \in OrderThds :
       WF_vars(server = "up" /\ UNCHANGED order_commits /\ (OrderCommit(w) \/ OrderStep(w)))

FairSpec == Spec /\ Fairness

-----------------------------------------------------------------------------
(***************************************************************************)
(* Types.                                                                  *)
(***************************************************************************)
BinlogPcs ==
  {"idle", "prepared", "wait_leader", "follow", "BINLOG_FLUSH", "flush_engine",
   "order_done", "write", "close_flush", "close_sync", "to_sync",
   "to_commit_closed", "SYNC", "sync", "to_commit", "after_sync", "COMMIT",
   "commit_hook", "commit", "to_after_commit", "AFTER_COMMIT", "after_commit",
   "sync_error", "signal", "finish", "finish_low", "rotate", "rotate_wait",
   "new_file"}

OrderPcs ==
  {"idle", "order_committed", "follow", "COMMIT_ORDER_FLUSH", "order_lock",
   "order_flush", "order_gtids", "order_signal"}

Trxs == BinlogThds \X Nat

PcTypeOK ==
  /\ pc \in [Thds -> BinlogPcs \cup OrderPcs]
  /\ \A t \in BinlogThds : pc[t] \in BinlogPcs
  /\ \A w \in OrderThds : pc[w] \in OrderPcs

QueueTypeOK ==
  /\ queue \in [Stages -> Seq(BinlogThds) \cup Seq(OrderThds)]
  /\ \A s \in Stages \ {"COMMIT_ORDER_FLUSH"} : queue[s] \in Seq(BinlogThds)
  /\ queue["COMMIT_ORDER_FLUSH"] \in Seq(OrderThds)

SyncTypeOK ==
  /\ pending \in [Thds -> BOOLEAN]
  /\ owner \in [Mutexes -> Thds \cup {NULL}]

StageTypeOK == PcTypeOK /\ QueueTypeOK /\ SyncTypeOK

ThdTypeOK ==
  /\ trx \in [Thds -> Nat]
  /\ commit_error \in [Thds -> {"NONE", "FLUSH_ERROR", "SYNC_ERROR"}]
  /\ xid_written \in [Thds -> BOOLEAN]
  /\ commit_low \in [Thds -> BOOLEAN]
  /\ run_hooks \in [Thds -> BOOLEAN]

LeaderTypeOK ==
  /\ list \in [Thds -> Seq(BinlogThds) \cup Seq(OrderThds)]
  /\ \A t \in BinlogThds : list[t] \in Seq(BinlogThds)
  /\ \A w \in OrderThds : list[w] \in Seq(OrderThds)
  /\ order_list \in Seq(OrderThds)
  /\ err \in [Thds -> {"none", "flush", "sync"}]

LogTypeOK ==
  /\ open \in BOOLEAN
  /\ binlog \in Seq(Trxs)
  /\ synced \in Nat /\ end_pos \in Nat /\ rotated \in Nat /\ sync_counter \in Nat

EngineTypeOK ==
  /\ prepared \subseteq Trxs /\ redo_prepared \subseteq Trxs
  /\ committed \in Seq(Trxs) /\ redo_committed \subseteq Trxs
  /\ relay_committed \in Nat /\ relay_durable \in Nat

GtidTypeOK ==
  /\ gno \in [Thds -> Nat] /\ next_gno \in Nat /\ executed \subseteq Nat
  /\ relay_executed \subseteq Nat

OtherTypeOK ==
  /\ prep_xids \in Int /\ turn \in Nat /\ rotations \in Nat
  /\ hooked \in Seq(Trxs)
  /\ server \in {"up", "aborted"}

SettingsTypeOK == order_commits \in OrderModes

CommitTypeOK ==
  /\ StageTypeOK /\ ThdTypeOK /\ LeaderTypeOK /\ LogTypeOK /\ EngineTypeOK
  /\ GtidTypeOK /\ OtherTypeOK

(* Every variable keeps the type of the C++ member or local it stands for; *)
(* the binlog queues hold binlog sessions, the commit order queue workers. *)
TypeOK == CommitTypeOK /\ SettingsTypeOK

(***************************************************************************)
(* Derived state.                                                          *)
(***************************************************************************)

(* Where a session is when it is not inside a commit. *)
OutsideCommit == {"idle", "rotate", "rotate_wait", "new_file"}

(* Transactions whose session has left finish_commit: the client may be told. *)
Finished ==
  UNION {{<<t, n>> : n \in {k \in 1 .. trx[t] : k < trx[t] \/ pc[t] \in OutsideCommit}} :
           t \in BinlogThds}

(* Relay log transactions whose worker went on to its next transaction. *)
RelayFinished ==
  {k \in 1 .. turn : LET w == OrderSeq[k] IN k < trx[w] \/ pc[w] = "idle"}

(* Where a leader works on its list for the sessions in it. *)
LeaderPcs ==
  {"flush_engine", "order_done", "write", "close_flush", "close_sync", "to_sync",
   "to_commit_closed", "sync", "to_commit", "after_sync", "commit_hook", "commit",
   "to_after_commit", "after_commit", "sync_error", "signal",
   "order_lock", "order_flush", "order_gtids", "order_signal"}

(* binlog_order_commits is never switched off. *)
AlwaysOrdered == FALSE \notin OrderModes

Logged(from, to) == {binlog[i] : i \in from .. to}

IsPrefixOf(a, b) == Len(a) <= Len(b) /\ \A i \in DOMAIN a : a[i] = b[i]

-----------------------------------------------------------------------------
(***************************************************************************)
(* The sessions and their leaders.                                         *)
(***************************************************************************)

(* enroll_for, "If the queue was empty: we're the leader for this batch":  *)
(* the first session of a queue, and no other, is the leader of the stage  *)
(* and on its way to fetch the queue, so a queue never has two leaders and *)
(* is never left without one.                                              *)
StageLeader ==
  /\ \A s \in {"SYNC", "COMMIT", "AFTER_COMMIT"}, t \in BinlogThds :
       pc[t] = s <=> queue[s] # << >> /\ Head(queue[s]) = t
  /\ \A t \in BinlogThds :
       pc[t] \in {"BINLOG_FLUSH", "wait_leader"} <=>
         queue["BINLOG_FLUSH"] # << >> /\ Head(queue["BINLOG_FLUSH"]) = t

(* enroll_for, "The process to change leader": the two flush queues have   *)
(* one leader between them.  Commit order sessions without a binlog        *)
(* session are led by the first of them; a binlog session that waits to be *)
(* made leader has a commit order leader that will wake it.                *)
OneFlushLeader ==
  /\ \A w \in OrderThds :
       pc[w] = "COMMIT_ORDER_FLUSH" =>
         /\ queue["COMMIT_ORDER_FLUSH"] # << >>
         /\ Head(queue["COMMIT_ORDER_FLUSH"]) = w
         /\ \A t \in BinlogThds : pc[t] # "BINLOG_FLUSH"
  /\ queue["COMMIT_ORDER_FLUSH"] # << >> /\ queue["BINLOG_FLUSH"] = << >>
       => pc[Head(queue["COMMIT_ORDER_FLUSH"])] = "COMMIT_ORDER_FLUSH"
  /\ \A t \in BinlogThds :
       pc[t] = "wait_leader" =>
         (pending[t] <=> \E w \in OrderThds : pc[w] = "COMMIT_ORDER_FLUSH")

(* Where a session is while it owns a mutex. *)
HolderPcs ==
  [LOCK_log          |-> {"flush_engine", "order_done", "write", "close_flush",
                          "close_sync", "to_sync", "to_commit_closed",
                          "rotate_wait", "new_file", "order_lock"},
   LOCK_sync         |-> {"sync", "to_commit"},
   LOCK_commit       |-> {"commit_hook", "commit", "to_after_commit",
                          "order_flush", "order_gtids"},
   LOCK_after_commit |-> {"after_commit"}]

(* change_stage locks the mutex of a stage before it works on the queue    *)
(* and unlocks it once: each stage mutex is owned by exactly the session   *)
(* whose code is between the two, whichever way it left the last stage.    *)
MutexOwners ==
  \A m \in Mutexes, t \in Thds : owner[m] = t <=> pc[t] \in HolderPcs[m]

(* enroll_for: "we're a follower and wait for the leader to process the    *)
(* queue".  A session linked in a queue or in the list a leader works on   *)
(* is asleep until a leader signals it, and linked there once: otherwise   *)
(* the leader would walk next_to_commit of a THD whose session has gone on *)
(* to another transaction.                                                 *)
QueuedSessionsWait ==
  /\ \A s \in Stages : \A i \in DOMAIN queue[s] :
       LET u == queue[s][i]
       IN  pc[u] \in {s, "wait_leader"} \/ (pc[u] = "follow" /\ pending[u])
  /\ \A t \in Thds : pc[t] \in LeaderPcs =>
       \A u \in Members(list[t]) \ {t} : pc[u] = "follow" /\ pending[u]

(* finish_commit, "If the ordered commit didn't updated the GTIDs for this *)
(* thd yet": with ordered commits a session leaves the group only after    *)
(* the leader did everything for it - the engine commit, the GTID, the     *)
(* prepared xid count and the after_commit hook.                           *)
LeaderDidEverything ==
  \A t \in BinlogThds : AlwaysOrdered /\ pc[t] = "finish" =>
    ~commit_low[t] /\ gno[t] = 0 /\ ~xid_written[t] /\ ~run_hooks[t]

(***************************************************************************)
(* Orders.                                                                 *)
(***************************************************************************)

(* "Stage #3: Commit all transactions in order": the engine commits the    *)
(* transactions, and the after_commit hooks are run, in binary log order,  *)
(* however the groups overtake and merge in the pipeline.                  *)
CommitOrderIsBinlogOrder ==
  AlwaysOrdered => IsPrefixOf(committed, binlog) /\ IsPrefixOf(hooked, committed)

(* ordered_commit, "keep gtid_executed as a single interval at all times". *)
GtidExecutedIsInterval ==
  AlwaysOrdered => executed = 1 .. Cardinality(executed)

(***************************************************************************)
(* Crashes; what recovery makes of them is in CommitRecovery.              *)
(***************************************************************************)

(* A transaction whose commit returned survives a crash: it is in the      *)
(* synced part of the log (and CrashConsistent), or, for a worker, its     *)
(* commit record is on disk and its GTID in gtid_executed, whichever of    *)
(* the two kinds of leader flushed for it.                                 *)
FinishedIsDurable ==
  /\ SyncPeriod = 1 => Finished \subseteq Logged(1, synced)
  /\ \A k \in RelayFinished : k <= relay_durable /\ k \in relay_executed

(* new_file_impl, "We need to ensure that the number of prepared XIDs are  *)
(* 0": the count covers every logged transaction the engine may still have *)
(* to commit, and never goes negative.                                     *)
PrepXidsCoverLog ==
  /\ prep_xids = Cardinality({t \in BinlogThds : xid_written[t]})
  /\ prep_xids = 0 => Logged(1, Len(binlog)) \subseteq Members(committed)

(* update_binlog_end_pos after the sync: with sync_binlog=1 replicas are   *)
(* never sent a transaction that a crash of this server could lose.        *)
SentIsSynced == SyncPeriod = 1 => end_pos <= synced

(***************************************************************************)
(* Errors.                                                                 *)
(***************************************************************************)

(* handle_binlog_flush_or_sync_error, "allow the commit to happen in       *)
(* storage engine": whatever fails on the way, a session that leaves       *)
(* without the server aborting has been committed in the engine, by its    *)
(* leader or by itself, and nobody was committed twice.                    *)
CommittedOnce ==
  /\ Finished \subseteq Members(committed)
  /\ \A i, j \in DOMAIN committed : i # j => committed[i] # committed[j]

(***************************************************************************)
(* Progress.                                                               *)
(***************************************************************************)

(* Every commit that was begun returns, unless the server aborts. *)
CommitsReturn ==
  /\ \A t \in BinlogThds :
       pc[t] = "prepared" ~> pc[t] \in OutsideCommit \/ server = "aborted"
  /\ \A k \in 1 .. Len(OrderSeq) : <>(k \in RelayFinished \/ server = "aborted")

(* A session that asked for a rotation gets it over with. *)
RotationsEnd ==
  \A t \in BinlogThds : pc[t] = "rotate" ~> pc[t] = "idle" \/ server = "aborted"
=============================================================================
