# MySQL 8.0.42: TLA+ models of the commit path

TLA+ modules, TLC configurations and TLAPS proofs for the code of MySQL
8.0.42 that decides whether a committed transaction is still there after a
crash, in the right order, and whether every client gets its answer: the
binary log's group commit and its recovery, the commit order of a replica's
applier, the redo log's ring of links, semi-synchronous replication, and the
threads that serve the connections. Paths are relative to
`src/mysql-8.0.42/`.

1. [The system](#1-the-system)
2. [Modules and how they correspond to the code](#2-modules-and-how-they-correspond-to-the-code)
3. [Properties](#3-properties)
4. [Runs, bounds and results](#4-runs-bounds-and-results)
5. [Fairness](#5-fairness)
6. [What is proved](#6-what-is-proved)
7. [Where the code disagrees with its comments](#7-where-the-code-disagrees-with-its-comments)
8. [What the models leave out](#8-what-the-models-leave-out)
9. [Plan](#9-plan)

## 1. The system

A MySQL server accepts connections, parses and executes statements over
storage engines (mainly InnoDB), and writes what it changed to a binary log
that replicas read and apply. Most of its 18,000 files are sequential (parser,
optimizer, functions, tools) or vendored. The parts where many threads meet
around state that must survive a crash are few, and they are what this project
is about.

### Inventory

| Component | State | Operations | Hard part | What makes it correct |
|---|---|---|---|---|
| Commit stage manager (`sql/rpl_commit_stage_manager.cc`) | five queues of sessions, the flag `tx_commit_pending` per session, a lock per queue, a mutex per stage | `enroll_for`, `fetch_queue_*`, `signal_done`, `process_final_stage_for_ordered_commit_group` | leadership passes between sessions; one flag means both "made leader" and "done" | one leader per queue, nobody leaves while linked, nobody is forgotten |
| Binary log group commit (`sql/binlog.cc`) | the log's files, sync counter, end position, count of prepared xids, flags of each transaction | `prepare`, `commit`, `ordered_commit` (four stages), `finish_commit`, `handle_binlog_flush_or_sync_error`, `close` | pipelined groups overtake and merge; every I/O call can fail in the middle of a group | engine and log agree after a crash; commit order is log order; exactly one commit each |
| Rotation (`sql/binlog.cc`) | files of the log | `rotate`, `new_file_impl`, `wait_for_prep_xids` | holds LOCK_log while waiting for other sessions' commits | recovery never needs an older file; no deadlock |
| GTID state (`sql/rpl_gtid_state.cc`) | `executed_gtids`, owned GTIDs, `next_free_gno`, a lock per SIDNO, `commit_group_sidnos` | `generate_automatic_gtid`, `update_commit_group`, `update_on_commit`, `update_on_rollback` | one shared array for all groups; leader and sessions lock SIDNOs | no gaps, changes only under the SIDNO's lock, no deadlock |
| Commit order manager (`sql/rpl_replica_commit_order_manager.cc`) and its queue (`sql/changestreams/apply/commit_order_queue.cc`) | order queue, stage per worker, MDL tickets | `register_trx`, `wait`, `wait_and_finish`, `finish_one`, `report_deadlock` | turn-taking by frozen sequence numbers, rollback and retry | relay log order, every worker gets its turn |
| Group commit tickets (`sql/binlog/group_commit/bgc_ticket_manager.cc`) | front and back ticket, sessions per ticket | `assign_session_to_ticket`, `push_new_ticket`, `add_processed_sessions_to_front_ticket`, `coalesce` | lock-free counters under two guards | a view change separates groups; no ticket is lost |
| Transaction coordinator (`sql/handler.cc`, `sql/tc_log.cc`) | engines of a transaction | `ha_prepare_low`, `ha_commit_low`, `ha_flush_logs` | two-phase commit | prepare is durable before the log, commit after it |
| Recovery (`sql/binlog/recovery.cc`, `sql/xa/recovery.cc`) | XIDs found in the last file | scan, commit or roll back | truncated and malformed files | engine contents equal the log's |
| InnoDB redo log (`storage/innobase/log/`, `include/ut0link_buf.h`) | ring buffer, LSNs, checkpoint | reserve, write, close, flush, checkpoint | lock-free ring with wrap-around | no hole is written to disk |
| Semi-sync source (`plugin/semisync/semisync_source.cc`) | list of waiting transactions, reply position | wait for reply, report reply, switch off | timeout against a late reply | no lost wake-up |
| Read views (`storage/innobase/read/read0read.cc`) | active transaction ids | open, close, reuse of views | commits while a view is made | a snapshot is a snapshot |
| Applier scheduling (`sql/rpl_mta_submode.cc`, `sql/rpl_trx_tracking.cc`) | commit parents, low water mark | assign, schedule | dependencies vs. parallelism | no transaction before one it depends on |
| Connection threads (`sql/conn_handler/`) | idle thread count, waiting connections, connection count | accept, block, wake, shrink | counter and list must agree while threads leave for other reasons | no connection waits for ever, limits hold |
| Others: InnoDB locks, buffer pool, B-tree, MDL, table cache, Group Replication, Router, X plugin, parser, optimizer, mysys | | | | not modelled; reasons in `PROJECT.json` |

### How the parts interact

A session that commits is *prepared* in the engine (a redo record in memory),
then `MYSQL_BIN_LOG::ordered_commit` enrols it in the queue of the flush stage.
The first session of the queue is the leader; the others sleep. The leader

1. **flush** (LOCK_log): fetches the queue, flushes the engine's redo log for
   all of them, assigns GTIDs, copies their caches to the log, raises the count
   of prepared xids;
2. **sync** (LOCK_sync): fsyncs the file every `sync_binlog` groups and lets
   the dump threads have it;
3. **commit** (LOCK_commit): runs the after_sync hook, commits everyone in the
   engine in order, adds the GTIDs, lowers the count;
4. **after commit** (LOCK_after_commit): runs the after_commit hooks,

enrolling its whole list in the next queue before it lets a mutex go. A leader
that finds the next queue occupied becomes a follower, with everybody behind
it. Finally `signal_done` wakes them all, and each goes through
`finish_commit`, which does whatever no leader has done: all of it when
`binlog_order_commits` is off. A rotation takes LOCK_log and waits until the
count of prepared xids is 0. Applier workers of a replica that does not log
its updates commit in the engine first, in relay log order, then enrol for the
same flush stage through a queue of their own; if a binlog session arrives in
between, the worker that leads hands the lead to it.

Workers that do log their updates take turns before they enrol. The commit
order queue says who is first; a worker that finishes wakes the next one
through the wait slot of its metadata lock context. On their way into the
flush queue all sessions pass the *ticket* they were given: a view change of a
replication group closes the current ticket, so that no transaction crosses it.
The two orders can contradict each other, and then a worker overtakes.

Below the engine's commit, every mini-transaction writes its redo records into
a buffer in parallel with the others; `Link_buf` finds the position up to which
there is no gap, which is all the log writer may write. Behind the sync stage,
the after_sync hook of the semi-sync plugin makes a session wait until enough
replicas have acknowledged its position. Before all this, a session exists
because a thread, new or out of the cache, was given its connection.

The hazards of this code, with the line at which each bites and the properties
aimed at it, are listed in `PROJECT.json`.

## 2. Modules and how they correspond to the code

| Module | Stands for |
|---|---|
| `CommitStageManager` | queues, mutexes, `tx_commit_pending`; the effect of enrolling, handing over, fetching, signalling |
| `GroupCommit` | the threads that use it: binlog sessions, rotation, commit order workers; both logs and what each has on disk; GTIDs. Extends `CommitStageManager` |
| `CommitLog` | abstract: a log that is written by groups, becomes durable, visible in order, and reported |
| `CommitLogRefinement` | the mapping from `GroupCommit` to `CommitLog` |
| `GroupCommitProofs` | theorems about `GroupCommit`: types, leaders, mutexes, the lead of the flush stage |
| `GroupCommitSessionProofs` | theorems about what it does for one session: linked once, committed once, counted, durable. Extends `GroupCommitProofs` |
| `GroupCommitLogProofs` | theorems about the logs as a whole: commit order, the refinement, crash recovery, the numbers in `gtid_executed`. Extends `GroupCommitSessionProofs` and `CommitRecovery` |
| `GtidCommitGroup` | the steps of `update_commit_group`, which is one step in `GroupCommit` |
| `GtidCommitGroupProofs` | theorems about it |
| `BinlogRecovery` | the scan of the last binary log file and the decision for each prepared transaction, as functions |
| `CommitRecovery` | `GroupCommit` with a crash at any moment followed by `BinlogRecovery`. Extends both |
| `CommitOrderQueue` | the queue of workers in relay log order, with its sequence numbers |
| `BgcTicketManager` | front and back ticket and the two counts of sessions |
| `CommitOrderManager` | applier workers and view changes that use the two above. Extends both |
| `CommitOrderProofs` | theorems about it: types, tickets, turns and relay log order |
| `FinishedPrefix` | abstract: ranges finish in any order, the published position is the end of a finished prefix |
| `LinkBuf` | `Link_buf`, one step per atomic access; implements `FinishedPrefix` |
| `LinkBufProofs` | theorems about it, the refinement among them |
| `AckContainer` | the counting of acknowledgements, as functions |
| `SemiSync` | the source of semi-synchronous replication, with sessions, replicas and an administrator. Extends `AckContainer` |
| `SemiSyncProofs` | theorems about it |
| `ThreadCache` | connection threads, the acceptor, and those that resize the cache |
| `ThreadCacheProofs` | theorems about it |
| `MC*` | small instances for TLC |

### State

`pc` says where a thread is; a stage's name means "leader of that stage, about
to take its mutex". Queues and lists, in the code THDs linked by
`next_to_commit`, are sequences. The name of a variable is that of the member
it stands for (`xid_written`, `commit_low`, `run_hooks`, `prep_xids`,
`sync_counter`, `commit_error`), or is explained where it is declared.

The data is abstracted to what the properties distinguish. A transaction is a
pair of session and number. `binlog` is the sequence of transactions written,
over all files; `rotated`, `synced` and `end_pos` are positions in it: where
the current file begins, what an fsync made safe, and how far dump threads may
read. The redo log is four sets: prepared and committed transactions, and
those of each whose record is *known* to be on disk. A record not known to be
there may be there nevertheless, so `CrashConsistent` quantifies over all
outcomes of a crash.

### Actions

Each action is one handler or the part of it between two points where another
thread could notice. `PROJECT.json` has the lines for every definition.

`GroupCommit`:

| Action | Code (`sql/binlog.cc` unless noted) |
|---|---|
| `Prepare` | `prepare`, 8020 |
| `OrderedCommit` | `commit`, `init_thd_variables`, enrolling |
| `EnterFlush`, `FlushEngine`, `FinishOrderList`, `WriteBinlog` | `fetch_and_process_flush_stage_queue`, `process_flush_stage_queue`, `flush_cache_to_file`, 8402-8482 and 8881-8950 |
| `CloseBinlog`, `HandleSyncError` | `handle_binlog_flush_or_sync_error`, `close` |
| `LeaveFlush`, `LeaveSync`, `LeaveClosedFlush`, `LeaveCommit`; `EnterSync`, `EnterCommit`, `EnterAfterCommit` | `change_stage`: enrol and unlock; then lock and fetch |
| `SyncBinlog` | `sync_binlog_file`, `update_binlog_end_pos` and the choice at 9026 |
| `AfterSyncHook` | `call_after_sync_hook`, under LOCK_commit or after all mutexes |
| `CommitNext`, `CommitGroupDone` | `process_commit_stage_queue`, one engine commit per step |
| `AfterCommit` | `process_after_commit_stage_queue` |
| `Signal`, `FollowerWakes`, `BinlogLeader` | `signal_done`, the two waits in `enroll_for` |
| `FinishInEngine`, `FinishCommit` | `finish_commit` |
| `FlushLogs`, `RotateLock`, `WaitForPrepXids`, `NewFile` | `FLUSH BINARY LOGS`, `rotate`, `new_file_impl` |
| `OrderCommit`, `OrderEnroll`, `OrderHandOver`, `OrderFetch`, `OrderLockCommit`, `OrderFlush`, `OrderGtids`, `OrderSignal` | `Commit_order_manager::wait_and_finish`, `finish_one`, `flush_engine_and_signal_threads` |
| `SetOrderCommits` | `SET GLOBAL binlog_order_commits` at any time |

Atomicity. Enrolling in a queue and unlocking the mutex of the stage just left
are one step, as are locking the next stage's mutex and fetching its queue. In
the first case the unlock comes right after, and a release only enables other
threads, so nothing is lost by doing it at the earliest moment; the same holds
for a worker's `finish_one` after it enrolled. In the second case the queue is
fetched under the mutex just taken, and sessions that enrol between the two
are fetched as if they had enrolled before the lock.

Failures are a nondeterministic choice within the set `Faults`: a session's
cache cannot be written, the IO cache cannot be flushed to the file, fsync
fails, the after_sync hook reports an error. After a failure the log is closed
for good (IGNORE_ERROR) or the server stops (ABORT_SERVER). When the failing
file is closed its last bytes may or may not reach the disk.

In `GtidCommitGroup` a leader may be any caller of `update_commit_group`,
described by the mutex it calls under (`CallerLock`); the accesses to the
shared array are single steps. Where two callers hold different mutexes this
is a data race in C++; the model shows the interleavings of the single
accesses only, the mildest of its outcomes.

`CommitRecovery` has no action of its own: what recovery does is a function of
the disks, so `CrashConsistent` applies it to every state, every place at
which the log may be cut off, in the middle of a transaction too, and every set
of redo records that may have reached the disk. The first transaction of a
session is BEGIN, rows and XID event, the second one an atomic DDL statement.

`CommitOrderManager` (`sql/rpl_replica_commit_order_manager.cc` unless noted):

| Action | Code |
|---|---|
| `RegisterTrx` | `register_trx`, `Commit_order_queue::push` |
| `AssignTicket` | the transaction has been applied and has a ticket, `Binlog_group_commit_ctx::assign_ticket` |
| `ApplyError`, `DeadlockFound`, `RetryTransaction` | `slave_worker_exec_job_group`, `retry_transaction` (`rpl_rli_pdb.cc`) |
| `Blocked` | a row lock conflict reported by the engine: `check_and_report_deadlock` |
| `EnterWait`, `FirstInQueue`, `AskedToRollBack`, `NotMyTurn`, `RequestGrant`, `Granted`, `Victim`, `Overtake` | `wait_on_graph` from top to bottom, followed by the rest of `wait` and `wait_and_finish` |
| `PassTicket`, `SleepForTicket`, `TicketTimeout`, `CountSession`, `SignalEndOfTicket` | `append_to`, `wait_for_ticket_turn`, `update_session_ticket_state`, `signal_end_of_ticket` (`rpl_commit_stage_manager.cc`) |
| `ViewChange`, `ViewPopsFront`, `ViewTakesTicket` | `generate_view_change_bgc_ticket` (group replication) |
| `LeaveQueue`, `LookForNext`, `FreezeNext`, `NextIsGone`, `GrantNext`, `UnfreezeNext` | `finish_one`, one step per access to another worker's state |
| `PlaceIsFree` (the end of the last four) with `CommitIsOver`, `CommittedIsAppliedAgain`, `CommittedIsGivenUp` | the end of `finish_one`, the commit, and the look at `m_commit_order_deadlock` that follows it (`rpl_rli_pdb.cc:2509`) |

A deadlock report that reaches a worker after its wait, which is one that
overtakes and still has its row locks, stays on record through the commit: the
flag is cleared only when a worker starts (`rpl_rli_pdb.cc:388`) and by
`retry_transaction` (1870). `slave_worker_exec_job_group` therefore hands the
committed transaction to `retry_transaction`. With no retry left the worker
ends with an error (`CommittedIsGivenUp`). Otherwise its events are read again.
If its GTID event carries a ticket, as on the applier channel of a group, the
ticket that `signal_done` had reset is set once more (`log_event.cc:13450`), and
`skip_statement`, which finds the GTID executed, passes it: the worker waits for
the turn of the ticket and is counted in it again (`CommittedIsAppliedAgain`,
recorded in `again`, a history variable). If it carries none, nothing more
happens (`CommitIsOver`). The model leaves both open.

The wait for a turn has a time-out of a second, after which only `Overtake` can
change anything; a sleeper in `TicketTimeout` looks again likewise. Both are
modelled without a clock: the step is enabled whenever the look would succeed.

`LinkBuf` has a step for each load, store and compare-exchange of
`add_link_advance_tail`, `advance_tail_until` and `has_space`. `linked` and
`finished` are history variables. Writers also do what `log_buffer_reserve`
and `log_buffer_write_completed` do; copying records into the buffer changes
no state the ring depends on and is part of `Reserve`.

`SemiSync`: everything the plugin keeps is in the record `semi`, under
LOCK_binlog_; an action is what a thread does between taking the mutex and
giving it up or sleeping. `Flush` is `writeTranxInBinlog` for the end of a
group, `CommitTrx`, `WakeUp` and `Timeout` are the rounds of `commitTrx`,
`ReceiveAck` is `reportReplyPacket`, `DumpStart` and `DumpEnd` are a replica
that comes and goes, `Command` is one of the settings or a shutdown. Positions
are numbers instead of file names and offsets. An acknowledgement is lost with
its connection and repeated by the next one.

`ThreadCache`: an action is what a thread does without giving up
LOCK_thread_cache: `BlockThread` and `UnblockThread` are the two halves of
`block_until_new_connection` around the condition wait, `EnqueueConnection`,
`CreateThread` and `CreateThreadFails` are `add_connection`,
`ModifyThreadCacheSize` and `CacheIsShrunk` the two halves of the function of
that name, which FLUSH THREADS, SET GLOBAL thread_cache_size and a shutdown
call. Condition variables are sets of signalled threads; a signal wakes any one
sleeper.

## 3. Properties

| Property | Says |
|---|---|
| `StageLeader` | the first session of a stage's queue, and no other, is its leader |
| `OneFlushLeader` | both flush queues have one leader between them; a binlog session that waits to be made leader has someone who will do it |
| `MutexOwners` | each stage mutex is owned by exactly the session between its lock and unlock, on every path |
| `QueuedSessionsWait` | a session linked in a queue or a leader's list is asleep until a leader signals it |
| `LeaderDidEverything` | with ordered commits nothing is left to `finish_commit` |
| `CommitOrderIsBinlogOrder` | the engine commits, and hooks run, in binary log order |
| `GtidExecutedIsInterval` | `gtid_executed` has no gaps when commits are ordered |
| `CrashConsistent` | after a crash at any moment, wherever the log is cut off and whatever of the redo log reached the disk, recovery finds the last file well formed, truncates it behind a whole transaction, and gives the engine exactly the transactions of the log |
| `FinishedIsDurable` | what a client was told is in the synced log; what a worker finished is on disk and in `gtid_executed` |
| `PrepXidsCoverLog` | the count of prepared xids is right, and 0 only when all of the log is committed |
| `SentIsSynced` | with `sync_binlog=1` replicas never get what a crash may lose |
| `CommittedOnce` | whatever fails, a transaction whose commit returned is committed in the engine, once |
| `CommitsReturn`, `RotationsEnd` | every commit begun returns, every rotation ends |
| `ImplementsCommitLog` | the whole is a `CommitLog` |
| `UpdatesUnderSidnoLock`, `SidnosReleased`, `UpdatesEnd` | `update_commit_group` changes GTIDs under their SIDNO's lock, leaves nothing locked, and ends |
| `TurnIsFront` | a worker told to commit is first in the queue until it leaves it |
| `RelayOrder` | a transaction enters the flush queue after every earlier one of the relay log, unless it overtook because of a view change; none follows one that failed |
| `TicketOrder` | sessions enter the flush queue in the order of their tickets |
| `TicketsInTurn` | no ticket is retired while a session that holds it is still to come, and each session is counted in its own, until a committed transaction is applied again (section 7) |
| `EverySessionEnds` | every transaction and view change comes to an end, unless a committed transaction is applied again (section 7) |
| `TailIsOwned` | one thread at a time moves the tail (the `ut_a` in `advance_tail_until`) |
| `LinksAreKept` | no link the tail has not reached is lost |
| `ImplementsFinishedPrefix` | the tail is always the end of a finished prefix |
| `TailCatchesUp` | whatever was reserved is published in the end |
| `AckedByEnough` | a transaction counted as semi-synchronous is on as many replicas as were asked for |
| `NodeOutlivesWait` | the node a session waits at is not freed under it |
| `NoLostWakeUp` | a session whose wait is over is signalled, or will be with a later one |
| `OnAgainIsCaughtUp` | semi-sync switches itself on only when enough replicas have all that was written meanwhile |
| `HandOver` | as many threads are to be woken as connections are in the list, and there are as many idle ones |
| `ConnectionLimit`, `CacheLimit` | `max_connections` and `thread_cache_size` hold |
| `EveryConnectionIsTaken` | an accepted connection is served or refused |

For each property of a passing run, `PROJECT.json` names a mutant: a changed
form of one mapped definition, kept in the module right before the original
and marked `mutant:`, under which TLC finds the property violated.

## 4. Runs, bounds and results

| Run | Instance | Distinct states | Result |
|---|---|---|---|
| `pipeline` | 3 sessions (symmetric), 2 transactions each, 1 rotation, `sync_binlog=1`, ordered, no failures | 611,502 | holds, refinement included |
| `workers` | 1 session with 2 transactions, 2 workers, relay log of 3 transactions with one worker used twice, 1 rotation, ABORT_SERVER, file, fsync and hook failures, `binlog_order_commits` switched at any time, fair | 92,554 | holds |
| `errors` | 2 sessions (symmetric), 2 transactions each, 1 rotation, IGNORE_ERROR, `sync_binlog=2`, all failures, ordered | 473,186 | holds |
| `gtid_commit_group` | 2 leaders under LOCK_commit, 1 session, 2 SIDNOs, fair | 1,056 | holds |
| `commit_order` | 2 workers, relay log of 3 transactions, 1 view change, 2 failures or lock conflicts, 1 retry, sequence numbers modulo 8 starting at 6, fair | 443,162 | holds |
| `link_buf` | 2 writers, 1 tracker, 2 slots, 6 positions, operations of length 1 or 2, fair | 642,473 | holds, refinement included |
| `semi_sync` | 2 sessions and 2 replicas (symmetric), wait for 1 or 2 replicas, 4 positions, 1 failure, 1 command | 1,984,723 | holds |
| `thread_cache` | 4 connections, one of them an administrator's, `max_connections=1`, 2 threads, cache sizes 1 and 2, one FLUSH THREADS, one SET GLOBAL, a shutdown, fair | 533,963 | holds |
| `lead_hand_over` | 2 sessions, 1 worker | | `QueuedSessionsWait` violated |
| `gtid_shared_array` | 2 leaders, one under LOCK_log, one under LOCK_commit | | `UpdatesUnderSidnoLock` violated |
| `stale_grant` | 3 workers (symmetric), 4 transactions, 1 view change, no failures | | `TurnIsFront` violated |
| `early_ack` | 3 sessions and 3 replicas (symmetric), wait for 3 replicas, no failures | | `AckedByEnough` violated |

What the passing runs check:

* `pipeline`: `StageLeader`, `MutexOwners`, `QueuedSessionsWait`, `LeaderDidEverything`, `CommitOrderIsBinlogOrder`, `CrashConsistent`, `SentIsSynced`, `ImplementsCommitLog`.
* `workers`: `TypeOK`, `OneFlushLeader`, `FinishedIsDurable`, `CrashConsistent`, `CommitsReturn`, `RotationsEnd`.
* `errors`: `PrepXidsCoverLog`, `CommittedOnce`, `GtidExecutedIsInterval`.
* `gtid_commit_group`: `UpdatesUnderSidnoLock`, `SidnosReleased`, `UpdatesEnd`.
* `commit_order`: `TypeOK`, `TurnIsFront`, `RelayOrder`, `TicketOrder`, `TicketsInTurn`, `EverySessionEnds`.
* `link_buf`: `TailIsOwned`, `LinksAreKept`, `ImplementsFinishedPrefix`, `TailCatchesUp`.
* `semi_sync`: `TypeOK`, `AckedByEnough`, `NodeOutlivesWait`, `NoLostWakeUp`, `OnAgainIsCaughtUp`.
* `thread_cache`: `TypeOK`, `HandOver`, `ConnectionLimit`, `CacheLimit`, `EveryConnectionIsTaken`.

Invariants that several of these instances could check are checked in the one
where they are hardest to keep. `GroupCommit.TypeOK` is checked by `workers`
and proved; `GtidCommitGroup.TypeOK` is part of the proved invariant.

Why the bounds suffice. Three sessions are the fewest that give a group of two
and a group in the stage before or behind it at once, so that a leader can
become a follower of another and two groups merge. Two transactions per session
let a session come back while its former leader is still at work, the case in
which a stale link or flag matters. One rotation can fall between any two steps
of any stage; more only repeat it, because after a rotation the log starts
again with no prepared transaction. Two sessions are enough for the failure
runs: one group that fails and one that follows, or a group of two of which one
fails. `sync_binlog=2` makes every other group skip the fsync. Deadlock is
checked in all passing runs: a state in which nobody can move although work is
left is an error (`Stop` is the only step of a finished or aborted system).
Symmetry is used for sessions only, and only in runs without temporal
properties other than the refinement, which TLC checks step by step.

`commit_order` has two workers because three run into `stale_grant`, which
needs one that overtakes, one that commits meanwhile and one that is at the
front. Three transactions make one worker come back, so that a late grant can
reach its next transaction; a late deadlock report does not, since the retry it
causes comes first. Up to two reports, one retry and a view change suffice for
an overtaker that is reported, commits and is applied again, and for one that
has no retry left. The sequence numbers start two short of the modulus, so they
wrap around. `link_buf` has three laps of a ring
of two slots: an operation of length two is as long as a lap. `semi_sync` has a
container of one slot; two slots, the case in which the slots' order matters,
are `early_ack`. Two positions more than the start suffice for two groups, of
which one times out and the other is acknowledged. `thread_cache` has two
threads that can both be idle, more connections than threads, and a client too
many; it also passes with cache size 0 (808,366 states).

`workers` has one session only, since two run into `lead_hand_over`. It leaves
out the cache failure, whose effect under ABORT_SERVER is described in section
7. `errors` keeps commits ordered, because unordered ones run into the
deadlock of section 7; without the check for deadlock, and with
`binlog_order_commits` switched at any time, `PrepXidsCoverLog` and
`CommittedOnce` hold over 7,884,728 states. `CommitOrderIsBinlogOrder` is checked without failures:
under ABORT_SERVER a group whose fsync failed leaves the pipeline before the
commit stage, and a later group may commit in the moments before the server
stops; `workers` shows that this does no harm across the crash.

## 5. Fairness

`FairSpec` is weak fairness of the steps a thread takes once its commit, its
rotation or its relay log transaction has begun: threads are scheduled
preemptively, and no such step waits for a client. When a client begins a
commit or asks for a rotation, or an administrator changes a setting, is up to
them and carries no fairness. Mutexes need no fairness of their own: with a
bounded number of transactions nobody can take one again for ever.

In `CommitOrderManager` a worker or a view change that has begun goes on, and
the one-second time-outs of both waits are what makes `Overtake` and
`TicketTimeout` happen: a woken thread looks for itself. In `LinkBuf` threads
run, and a tracker comes back as long as the tail lags behind (the log writer
and closer loop; a writer without space calls `has_space` again). In
`ThreadCache` the acceptor, threads and callers run; clients need not leave.
Nowhere is fairness assumed of a failure, a client or an administrator.
`SemiSync` has no liveness property: a session's wait ends by its time-out at
the latest, which the step `Timeout` says already; what could go wrong is a
wake-up that is lost, an invariant.

## 6. What is proved

All proofs are checked by TLAPS and hold for every choice of the constants
that satisfies the `ASSUME`s of the modules. A condition beyond those is a
hypothesis of the theorem (`ASSUME ... PROVE`), named, and stated below with
the reason: a run, a counterexample described here, section 4 or section 7
shows what goes wrong without it. `NoOrderWorkers` is in each case the
condition of `QueuedSessionsWait`, on whose invariant `Linked` the other
theorems that name it rest: `lead_hand_over` shows that property false as soon
as a worker can hand the lead to one of two sessions. With a single session and
workers `FinishedIsDurable` and `CrashConsistent` still hold in the run
`workers`.

| Module | Theorem | Property | Condition |
|---|---|---|---|
| `GroupCommitProofs` | `TypeCorrect` | `TypeOK` | |
| | `OneLeaderPerQueue` | `StageLeader` | |
| | `MutexesPaired` | `MutexOwners` | |
| | `OneFlushLeaderHolds` | `OneFlushLeader` | `NobodyOvertakes` |
| `GroupCommitSessionProofs` | `CommittedOnceHolds` | `CommittedOnce` | |
| | `SentIsSyncedHolds` | `SentIsSynced` | `StopsOnError` |
| | `QueuedSessionsWaitHolds` | `QueuedSessionsWait` | `NoOrderWorkers` |
| | `PrepXidsCoverLogHolds` | `PrepXidsCoverLog` | `NoOrderWorkers` |
| | `LeaderDidEverythingHolds` | `LeaderDidEverything` | `NoOrderWorkers` |
| | `FinishedIsDurableHolds` | `FinishedIsDurable` | `NoOrderWorkers`, `StopsOnError`, `CachesFit` |
| `GroupCommitLogProofs` | `CommitOrderIsBinlogOrderHolds` | `CommitOrderIsBinlogOrder` | `NoOrderWorkers`, `StopsOnError`, `CachesFit`, `SyncWorks` |
| | `ImplementsCommitLogHolds` | `ImplementsCommitLog` | the same, `AlwaysOrdered`, `SyncPeriod = 1` |
| | `CrashConsistentHolds` | `CrashConsistent` | `NoOrderWorkers`, `StopsOnError`, `CachesFit`, `SyncPeriod = 1` |
| | `GtidExecutedIsIntervalHolds` | `GtidExecutedIsInterval` | `NoOrderWorkers`, `SyncWorks` or not `AbortServer` |
| `GtidCommitGroupProofs` | `SidnoLockOwned` | `UpdatesUnderSidnoLock` | `OneCallerLock` |
| | `NothingLeftLocked` | `SidnosReleased` | `OneCallerLock` |
| `CommitOrderProofs` | `TypeCorrect` | `TypeOK` | |
| | `TicketOrderHolds` | `TicketOrder` | |
| | `TicketsInTurnHolds` | `TicketsInTurn` | |
| | `TurnIsFrontHolds` | `TurnIsFront` | `NoViews` |
| | `RelayOrderHolds` | `RelayOrder` | `NoViews` |
| `LinkBufProofs` | `TailIsOwnedHolds` | `TailIsOwned` | |
| | `LinksAreKeptHolds` | `LinksAreKept` | |
| | `Refinement` | `ImplementsFinishedPrefix` | |
| `SemiSyncProofs` | `TypeCorrect` | `TypeOK` | |
| | `NodeOutlivesWaitHolds` | `NodeOutlivesWait` | |
| | `NoLostWakeUpHolds` | `NoLostWakeUp` | |
| | `AckedByEnoughHolds` | `AckedByEnough` | `OneOrTwo` |
| | `OnAgainIsCaughtUpHolds` | `OnAgainIsCaughtUp` | `OneOrTwo` |
| `ThreadCacheProofs` | `HandOverHolds` | `HandOver` | |
| | `CacheKeepsLimit` | `CacheLimit` | |
| | `ConnectionLimitHolds` | `ConnectionLimit` | |
| | `TypeCorrect` | `TypeOK` | finitely many connections |

### The group commit: structure

`GroupCommitProofs` uses `ThdAssumption` (sessions and workers are disjoint)
and `ConfigAssumption` (finitely many sessions, settings of the right type).
The inductive invariant `IInv` is the type invariant of the commit path,
`StageLeader`, `MutexOwners`, and `LeaderHeadsList`: the list a leader works on
starts with the leader. Without it `StageLeader` is not inductive. A leader
enrols its list in the next stage, and if that queue was empty the head of the
list becomes the head of the queue; the code takes for granted that this is the
session that returns from `enroll_for` as leader. `MutexOwners` is needed with
it because a step that locks a mutex, or fetches a queue, must know that no
other session is where the mutex's owner would be. The proofs of the single
actions go through five lemmas on kinds of moves (`LocalStep`, `UnlockStep`,
`LockStep`, `FetchStep`, `EnrollStep`), and `NextInv` puts them together, one
step per action.

`OneFlushLeader` is, with `IInv`, almost inductive: who leads one of the two
flush queues, hands the lead over or waits for it is decided by the heads of the
queues, and only `WaitsForWorker` (a session waits for the lead only where there
are workers) is added. `FlushLed` and `OrderLed` go through the steps of
sessions and workers. The condition `NobodyOvertakes` (one binlog session and
any workers, or any sessions and no worker) is needed because of
`lead_hand_over`: a session that was handed the lead may be signalled by a list
it left long ago. With two sessions of two transactions each, two workers and
the relay log of `workers` TLC finds `OneFlushLeader` itself violated, after 36
steps.

### The group commit: what happens to one session

`GroupCommitSessionProofs` builds on `IInv`.

`CommittedOnce` rests on `Account`: the flag `commit_low` is up only inside a
commit; while it is, or before it is set, the transaction is not in the engine;
everything else a session began is, once. Every engine commit takes the flag
down in the same step, so it does not matter which of the two places in the
code commits, nor what failed before. No condition is needed, workers and all
failures are included.

`SentIsSynced` rests on `Sending`: the log stays open, and what is synced was
written. The condition `StopsOnError` (ABORT_SERVER, the default, or no
failures) is needed because `close` may let the last writes to a failing file
be sent whether or not they were synced.

`QueuedSessionsWait` needs more than itself. Its invariant `Linked` looks at all
*places* at once, the queues and the lists of the leaders at work: `Held` is
what each holds, no session is held twice (`Once`), and who is held sleeps or
leads (`Asleep`). Every action either moves nobody, or empties one place into
another (fetch, enrol), or releases a list; `ActionCases` says that these are
all. The condition `NoOrderWorkers` leaves out workers that hand the lead over;
`lead_hand_over` shows that with them the property is false.

The next three theorems ask where a session is linked *as a function of how far
its group has come*. A *region* is a set of queues and of places of the code;
`RegionStep` says that a session is in a region only if it was before or
entered it (`Enters`), and `Path` is the control flow graph, so that what is
true of a region need only be shown at its entrances:

* `PrepXidsCoverLog`: `xid_written` is down for all sessions in the region up to
  `WriteBinlog`. So the flags a flush leader raises are all new, and the count
  moves by as many as it wrote; finite sets are counted with
  `FiniteSetTheorems`. Every transaction in the log is committed in the engine
  or belongs to a session whose flag is up.
* `LeaderDidEverything`: with ordered commits the sessions behind the commit
  stage are done but for their hook, a group about to be signalled is done
  altogether, and the one way around the commit stage (a sync error under
  ABORT_SERVER) ends in `sync_error`, never in `signal`.
* `FinishedIsDurable`: behind the flush stage a session's transaction is in the
  log, behind the sync stage in its synced part, where it stays (`LogGrows`).
  `StopsOnError` is needed since an ignored error lets a group go on without
  being synced, `CachesFit` (no cache fails to be written) because the failure
  of one session in a group is forgotten (section 7). With workers the other
  half of the property, about the relay log, is model-checked only.

### The group commit: the logs

`GroupCommitLogProofs` begins with `CommitOrderIsBinlogOrder`. It is about order, so sets of sessions are not enough.
`Pipe` is the sequence of the sessions in the pipeline, last stage first: the
list whose hooks run, the AFTER_COMMIT queue, the list being committed, the
COMMIT queue, the list being synced, the SYNC queue, and the list just logged.
`Piped` says that what has been hooked is a prefix of what is committed, which
is a prefix of the log; that the log ends with the transactions of `Pipe`, in
order; and that those of them that are not committed, or not hooked, are exactly
the ones whose flag says so. A step then does one of four things. It leaves
`Pipe` as it was, although it moves a whole list from one place to the next
(`PipeStep`): a list is appended to the queue right before it in `Pipe`, and a
queue is fetched into a list that must have been empty, which `MutexOwners`
gives, as the stage's mutex was free. Or it appends what it logs (`WritePiped`),
commits the list at work (`CommitNextPiped`), or drops the first list after its
hooks ran (`AfterCommitPiped`). The invariant is `Ordered`: `Piped`, that who
has not been logged is not committed (`FreshIsUncommitted`), and that nothing
remains for `finish_commit` (`NothingLeft`). `SyncWorks` (no fsync fails) is
needed because of the group that leaves the pipeline before the commit stage
(section 4); failures of the log file and of the after_sync hook are included.

`ImplementsCommitLog` is the refinement. Next to the order it needs that no
transaction is logged twice, which is an invariant of its own, `LoggedOnce`: the
log has no transaction that was not begun, and none of a session in front of the
write step. `StepSimulation` then maps the steps, one case for each kind:
`WriteBinlog` is the abstract append of a group of new transactions
(`WriteSimulates`), `SyncBinlog` and `NewFile` make a longer prefix durable,
`CommitNext` commits the next transaction of the durable prefix
(`CommitSimulates`; by `Ordered` it is the next, by `Durable`, the invariant of
`FinishedIsDurable`, it is synced), `FinishCommit` reports a transaction that is
committed and was not reported (`FinishedStep`), and all others stutter. With
another `sync_binlog`, or unordered commits, the engine commits what the
abstract log would not let it commit.

`CrashConsistent` has two parts. The first is about the disks before the crash.
`Recoverable` says that a transaction is prepared on disk before a leader writes
it to the log (the flush of the engine comes first), that everything in earlier
files of the log is committed in the redo log *on disk* (a rotation waits for
the count of prepared xids, then flushes the engine; `PrepXidsCoverLog` is what
makes the wait sufficient), and that the engine commits only what is synced.
Commits may be unordered and fsyncs may fail. The second part is about the scan.
`Recover` and the contents of a file are recursive functions; `ScanExists` and
`FileExists` show that they are what their definitions say, and `ScanFile` that
the scan of a file with the transactions m+1 to k ends between two transactions,
with exactly their XIDs and the position behind them. `ScanPart` adds the events
of a transaction the crash cut off, which change neither. These are inductions,
stated without an operator parameter: if the claim failed anywhere there were a
smallest place where it fails (`HasSmallest`), and one step of the recursion
refutes that. That an XID is not inserted twice, which would be a malformed
file, is `LoggedOnce`. `SyncPeriod = 1` is needed since otherwise the engine may
have on disk what the log has lost, `CachesFit` because of the session whose
failure is forgotten (section 7), `StopsOnError` since an ignored error leaves
transactions that are committed and not logged.

`GtidExecutedIsInterval`: `Numbered` says that `gtid_executed` is 1 to k, that
the numbers in use are k+1 up to the next free one (`Consecutive`), that only
sessions behind the write step have one (`OwnedInPipe`), and that the sessions
of each part of the pipeline have smaller numbers than those before it
(`SmallerFirst`, for the list being committed, with the COMMIT queue, with the
list being synced, with the SYNC queue). A leader that enters a stage takes
everything that was to come there and one that leaves a stage leaves nobody
behind (`EnterTakesAll`, `LeaveTakesAll`), so each part, when it changes for
sessions that have a number, becomes the next one. `NumbersGiven` says that
`assign_automatic_gtids_to_flush_group` gives a group the next numbers without a
gap; `CommitConsecutive` that the commit stage takes a beginning of those in use.
All failures of the log and the hooks are included, with one exception: on a
server that stops on errors a group whose fsync failed goes round the commit
stage, and releases its numbers in `finish_commit`, past the groups before it,
in the moments before the server is gone. With two sessions, ABORT_SERVER,
`sync_binlog=2`, ordered commits and all failures TLC finds the gap after 40
steps; it is why the theorem asks for `SyncWorks` or not `AbortServer`.

### Other components

`GtidCommitGroupProofs` uses `GtidAssumption` and `OneCallerLock` (all leaders
call under the same mutex, what `sql/rpl_gtid.h:3653` asks for). The invariant
says that the leader inside the function is alone, that the array is what it
has marked and not yet cleared (`MarkedBy`), and that it holds exactly the
SIDNO locks the position of its loop tells (`LockedBy`). That the hypothesis is
needed is shown by `gtid_shared_array`; that the code does not meet it is a
finding.

`CommitOrderProofs`: the invariant ties the two counts of every ticket between
front and back to the sets of sessions that hold it (`TicketCounts`) as long as
no committed transaction was applied again (`CountsUntilAgain`); after that only
the bounds of the tickets are left (`TicketBounds`), which is all that
`TicketOrder` and the types need. It ties the queue to the places where workers
are (`Members`), and keeps the log at or behind the front ticket (`LogTickets`).
For turns and order it adds, for a replica without view changes whose sequence
numbers have not come round (`NoViews`), that the queue holds the relay log's
transactions in order, each under the number of its position, that one worker at
a time is granting a turn, to the one in front, whose number is frozen
meanwhile, and that a grant in a wait slot is for the worker in front (`TInv`);
with it, that the log has every transaction that left the queue unless the
rollback flag is up (`RInv`). `stale_grant` shows that a view change breaks it.
That `finish_one`'s assertion holds is part of what is proved; `LeaveQueue` has
it as a guard, and what a release build would do after it failed is not
modelled.

`LinkBufProofs`: reserved ranges do not overlap and have one writer each (`Apart`,
`OwnRange`), finished ones are less than a lap ahead of the tail (`InReach`), a
slot holds a link or leads nowhere (`SlotContents`), links ahead of the tail are
in their slots (`Kept`), and one thread at a time has taken the link at the tail
(`OneOwner`). What a thread knows at each place of `advance_tail_until` is
`Knows`: in particular, that a link it has loaded is of the operation that
starts at the tail it read, although the slot may since belong to a later lap.
The refinement maps the tail and the finished ranges, and `StepSimulation` goes
through the actions. Capacity, number of threads and lengths are arbitrary.

`SemiSyncProofs`, from `SemiSyncAssumption` (finitely many sessions and
replicas): `WInv` is the type of the plugin's state and `Wakes`: whoever sleeps
has its node in the list, replication is on, and the smallest position waited
for, which decides whether a reply signals anybody, is acknowledged already or
is still some session's. The loop of `resize` is a recursive function over the
old slots; that the container it builds has the right size is proved by
induction on the loop counter in first-order form. `AInv` adds what the
counting claims: the replica in a slot has everything up to the slot's
position, up to the position replied everything is on as many replicas as were
asked for, and `commit_file_name_` is the end of the log. With no slot or one,
which `OneOrTwo` says, `minAck` is the minimum; `early_ack` shows that with two
slots it need not be.

`ThreadCacheProofs`, from `ThreadCacheAssumption` (finitely many threads, cache
sizes are numbers): `HandOver` is not inductive alone, since a thread that
leaves the cache because it is shrunk must not take the last idle one away from
a connection. What is needed is `CountedIsBlocked`, that `blocked_pthread_count`
is the number of threads in the wait loop, so that the one that leaves was
counted; if it leaves without a connection there is none in the list. For
`CacheLimit` it is `SettersAim`: a SET GLOBAL under way shrinks the cache to no
more than the value in force. For `ConnectionLimit` it is that
`connection_count` is the number of connections somewhere between acceptance
and end, each at one place only.

### Only model-checked

* Liveness (`CommitsReturn`, `RotationsEnd`, `UpdatesEnd`, `EverySessionEnds`,
  `TailCatchesUp`, `EveryConnectionIsTaken`), which needs fairness and ENABLED
  and is out of the prover's reach.
* The invariants of the group commit outside the conditions in the table above,
  as far as a run has them: `CrashConsistent` and `FinishedIsDurable`, with its
  part about the relay log, for one session with workers (`workers`).
* `TurnIsFront` and `RelayOrder` with a view change, and with sequence numbers
  that come round, for two workers (`commit_order`).

Every invariant and both refinements that the passing runs check are otherwise
stated by a theorem.

## 7. Where the code disagrees with its comments

The first four are runs whose property is what a comment or an assertion says.

* **Handing over the lead** (`lead_hand_over`). The commit order leader wakes
  the binlog leader by clearing its `tx_commit_pending`
  (`rpl_commit_stage_manager.cc:392`). Nothing sets it again. If that leader
  finds the queue of the sync stage occupied it is a follower, but
  `while (thd->tx_commit_pending)` is false at once: it goes through
  `finish_commit` and on to its next transaction while the sync leader still
  has it, and those behind it, in its list.
* **The shared array** (`gtid_shared_array`). The flush leader calls
  `update_commit_group` for the workers it fetched under LOCK_log, the commit
  leader under LOCK_commit; both use `commit_group_sidnos`, which
  `rpl_gtid.h:3653` says is protected by LOCK_commit.
* **A grant out of turn** (`stale_grant`). A worker that overtook leaves from
  the middle of the queue, and `Commit_order_queue::remove` gives it
  `NO_SEQUENCE_NR` as the number to wake, since the worker before it now has
  that duty. `finish_one` nevertheless tries to freeze the front worker with
  it (`rpl_replica_commit_order_manager.cc:426`). If the front worker has
  committed between the two reads its own number is `NO_SEQUENCE_NR` too: the
  freeze succeeds and the worker is granted a turn it does not have, possibly
  for its next transaction. `finish_one` asserts `front() == worker->id` (406)
  and otherwise pops whoever is first.
* **The smallest acknowledgement** (`early_ack`). `AckContainer::minAck` keeps
  the last slot below the given position, while its comment
  (`semisync_source.h:542`) says the minimum. With
  `rpl_semi_sync_source_wait_for_replica_count` of 3 or more the container has
  two slots or more, and a transaction can be counted as acknowledged by three
  replicas when one of them has not received it.

Four more were met and are not among the runs. Each can be had from the modules
as they are.

* **Sync error and rotation.** `handle_binlog_flush_or_sync_error` is called
  "after we release all locks in order to avoid deadlocks" (`binlog.cc:9086`),
  but takes LOCK_log again (8811) before the group is signalled. With unordered
  commits the group still counts in `m_atomic_prep_xids`, and a rotation may
  hold LOCK_log until that count is 0. `CommitsReturn` is violated under
  `FairSpec` with `BinlogThds = {b1, b2}`, no workers, `OrderModes = {FALSE}`,
  `AbortServer = FALSE`, `Faults = {"sync"}`, `MaxTrx = 1`, `MaxRotations = 1`.
* **One session of a group fails to write.** `if (flush_error == 1) flush_error
  = error` (`binlog.cc:8465`) forgets the failure as soon as another session
  succeeds. The failed transaction is then committed without being logged, also
  with ABORT_SERVER, although `binlog.cc:8746` says that the leader handles
  such errors. `CrashConsistent` is violated with `BinlogThds = {b1, b2}`,
  `OrderModes = {TRUE}`, `AbortServer = TRUE`, `Faults = {"flush_member"}`.
* **A committed transaction is applied again.** `add_processed_sessions_to_front_ticket`
  asserts that a session is counted in its own ticket
  (`bgc_ticket_manager.cc:56`). The retry of a committed overtaker, described
  in section 2, counts its session twice: the front ticket can be retired while
  a session that holds it is still to come, who then waits for ever, and so does
  a retried worker whose ticket was retired by its own commit. With the
  constants of `CommitOrder.cfg` the two conjuncts of `TicketsInTurn` without
  the condition on `again` are violated, by traces of 15 and 21 states, and
  `EverySessionEnds` without its second disjunct is violated under `FairSpec`.
  `TurnIsFront`, `RelayOrder` and `TicketOrder` hold all the same.
* **FLUSH THREADS.** `kill_blocked_pthreads` promises to "Wake blocked pthreads
  and wait until they have terminated" (`connection_handler_impl.h:78`). Threads
  signal `COND_flush_thread_cache` (they do not broadcast) and only while
  `shrink_cache` is set; with two callers at once the first to return clears
  the flag, and the other may wait for ever. With two `Flushers`, `FairSpec`
  and the property that `rpc[k] = "waiting"` leads to `"done"`, TLC finds it.

## 8. What the models leave out

* A sequence stands for a linked list exactly as long as `QueuedSessionsWait`
  holds. After it is violated the real lists may differ, so `lead_hand_over` is
  stopped there and nothing else is claimed about that instance.
* A transaction that runs while the log is closed has empty caches and is
  committed by `commit()` without the stages; it does not enter the model.
* Not modelled in `GroupCommit`: failure of the after_flush hook, errors of the
  engine's commit, exhaustion of GNOs, XA PREPARE and transactions with
  `skip_commit`, `Clone_handler::need_commit_order`, failure of a rotation,
  incident events and the rotation they force, a cache written in part before
  the write fails, purging, the index file. Workers that log their updates, and
  tickets, are in `CommitOrderManager`, which ends where a session enters the
  flush queue; `GroupCommit` has workers that do not, in an order given by
  `OrderSeq`.
* `BinlogRecovery`: XA transactions of clients, COMMIT and ROLLBACK events of
  statements on non-transactional tables, events with session variables, an
  engine that fails to recover.
* `CommitOrderQueue`: each operation is one step, although `push`, `pop` and
  `front` only share `m_push_pop_lock` (`commit_order_queue.cc:153`, 167, 186).
  `pop` moves the head (158) before it spins on a frozen number (161), so the
  worker behind may find itself first a little earlier than in the model; it
  reads none of the numbers that are still to be reset.
* `CommitOrderManager`: KILL and STOP REPLICA (a killed session stops waiting
  for its ticket and is counted in whichever is at the front), `coalesce()`,
  the search for cycles in the graph of metadata locks, and other users of the
  wait slot: a grant that is late enough could meet a worker in a metadata lock
  wait of its next attempt. That `wait_and_finish` ignores the result of
  `wait` is modelled. The order of `set_rollback_status` and of the return from
  the wait is one step, since nobody else is on its turn.
* `LinkBuf`: in the instance the second look at the tail (`ut0link_buf.h:342`)
  never finds it moved, since the test for a lapped slot before it excludes
  that under sequential consistency; it remains in the model. The log
  writer, the flusher and the checkpoint are not modelled.
* `SemiSync`: RESET MASTER (which sets the number of waiting sessions to zero
  while sessions wait), `skipSlaveReply`, the sockets and the thread of the
  acknowledgement receiver, the comparison of file names as strings.
  `add_slave` and the first acknowledgement are one step of `DumpStart`. Shared
  by all sessions of a group is the node of the group's last transaction, as in
  the code; AFTER_SYNC and AFTER_COMMIT differ in who calls `commitTrx`, which
  may be any subset of the sessions written.
* `ThreadCache`: one acceptor, whose check for a shutdown and increment of the
  counter are one step; authentication, the other connection handlers.
* A rotation that finds the file already rotated by another session changes
  nothing, and is the same as one that was never asked for.
* `wait_count_or_timeout` (binlog_group_commit_sync_delay) delays a leader and
  changes no state; any delay is already among the interleavings.
* RECURSIVE operators are avoided in the modules with proofs, and so are the
  library's induction theorems, since the prover can handle neither; recursion is
  written as recursive functions.
* The memory model: each access is atomic and sequentially consistent. All
  shared state of the group commit is accessed under a mutex or is a
  `std::atomic`, apart from the findings. `Link_buf` uses acquire and release,
  under which some behaviours are possible that `LinkBuf` does not have.
* Whole components that are not modelled, each with its reason, are in
  `PROJECT.json`: read views, record locks, buffer pool and B-tree, metadata
  locks, applier scheduling, the lock-free queue, the table cache, group
  replication, and everything sequential.

## 9. Plan

1. *Done*: `CommitStageManager`, `GroupCommit`, `CommitLog`,
   `GtidCommitGroup`; `BinlogRecovery` composed with a crash of `GroupCommit`;
   `CommitOrderQueue`, `BgcTicketManager` and `CommitOrderManager`; `LinkBuf`;
   `AckContainer` and `SemiSync`; `ThreadCache`.
2. *Proved*: what section 6 lists. To prove next: `CrashConsistent` and
   `FinishedIsDurable` with workers and one binlog session, for which `Linked`
   has to be stated for that case.
3. To model: the log writer and checkpoint around `LinkBuf`; `KILL` and
   `coalesce` in `CommitOrderManager`; `OrderSeq` of `GroupCommit` replaced by
   the manager; the after_sync hook of `GroupCommit` replaced by `SemiSync`;
   read views; applier scheduling.
