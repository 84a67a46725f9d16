------------------------- MODULE CommitOrderManager -------------------------
(***************************************************************************)
(* A replica's applier workers commit in relay log order                   *)
(* (Commit_order_manager, replica_preserve_commit_order=ON) while binlog   *)
(* group commit tickets order the same commits against the view changes of *)
(* a group (Commit_stage_manager::wait_for_ticket_turn).  The two orders   *)
(* can contradict each other.  Workers write a binary log                  *)
(* (log_replica_updates=ON); the workers that do not are in GroupCommit.   *)
(*                                                                         *)
(* A worker waits for its turn on the wait slot of its metadata lock       *)
(* context.  Its predecessor's grant, a deadlock report by a transaction   *)
(* blocked in the engine and the worker's own time-outs race for it.       *)
(*                                                                         *)
(* The steps are the accesses to state another thread reads.  KILL and     *)
(* STOP REPLICA are left out, and so is coalesce(), which group            *)
(* replication calls when it stops.                                        *)
(***************************************************************************)
EXTENDS CommitOrderQueue, BgcTicketManager

CONSTANTS
  Views,       \* sessions that apply the view change events of a group
  MaxRetries,  \* replica_transaction_retries
  MaxTrx,      \* bound: transactions in the relay log
  MaxFaults    \* bound: transactions that fail or are blocked by a later one

Sessions == Workers \cup Views

ASSUME ManagerAssumption ==
  /\ Workers \cap Views = {}
  /\ MaxRetries \in Nat /\ MaxTrx \in Nat
  /\ MaxFaults \in Nat

VARIABLES
  pc,            \* where each session stands
  stage,         \* Node::m_stage
  m_wait,        \* MDL_wait::m_wait_status of the worker's MDL context
  deadlock,      \* Slave_worker::m_commit_order_deadlock
  trx,           \* the worker's transaction: its relay log position (0: none)
  retries,       \* Slave_worker::trans_retries
  failing,       \* the transaction is being given up
  blocked_by,    \* the worker that holds the row lock this worker waits for
  waking,        \* finish_one: next_worker and next_seq_nr
  ticket,        \* Binlog_group_commit_ctx::m_session_ticket
  rollback_trx,  \* m_rollback_trx
  registered,    \* relay log transactions handed to workers so far
  faults,        \* failures and blocked transactions so far
  log,           \* entries of the flush queue, in the order they entered
  again          \* a committed transaction was applied again, ticket and all

workerVars == <<pc, stage, m_wait, deadlock, trx, retries, failing,
                blocked_by, waking, ticket>>
sharedVars == <<rollback_trx, registered, faults, log, again>>
vars == <<queueVars, ticketVars, workerVars, sharedVars>>

NobodyToWake == [worker |-> NO_WORKER, nr |-> NO_SEQUENCE_NR]

TypeOK ==
  /\ QueueTypeOK
  /\ TicketTypeOK
  /\ pc \in [Sessions -> {"idle", "apply", "order", "check", "request",
                "waiting", "ticket", "asleep", "count", "signal", "finish",
                "wake", "freeze", "grant", "unfreeze", "stopped",
                "pop_front", "own_ticket"}]
  /\ stage \in [Workers -> {"FINISHED", "REGISTERED", "FINISHED_APPLYING",
                   "REQUESTED_GRANT", "WAITED", "WAITED_OVERTAKE"}]
  /\ m_wait \in [Workers -> {"EMPTY", "GRANTED", "VICTIM"}]
  /\ deadlock \in [Workers -> BOOLEAN]
  /\ trx \in [Sessions -> 0 .. MaxTrx]
  /\ retries \in [Workers -> 0 .. MaxRetries]
  /\ failing \in [Sessions -> BOOLEAN]
  /\ blocked_by \in [Workers -> Workers \cup {NO_WORKER}]
  /\ waking \in [Workers -> [worker : Workers \cup {NO_WORKER},
                             nr : 0 .. SeqModulus - 1]]
  /\ ticket \in [Sessions -> Nat]
  /\ rollback_trx \in BOOLEAN
  /\ registered \in 0 .. MaxTrx
  /\ faults \in 0 .. MaxFaults
  /\ log \in Seq([trx : 0 .. MaxTrx, ticket : Nat, overtook : BOOLEAN])
  /\ again \in BOOLEAN

Init ==
  /\ QueueInit
  /\ TicketInit
  /\ pc = [s \in Sessions |-> "idle"]
  /\ stage = [w \in Workers |-> "FINISHED"]
  /\ m_wait = [w \in Workers |-> "EMPTY"]
  /\ deadlock = [w \in Workers |-> FALSE]
  /\ trx = [s \in Sessions |-> 0]
  /\ retries = [w \in Workers |-> 0]
  /\ failing = [s \in Sessions |-> FALSE]
  /\ blocked_by = [w \in Workers |-> NO_WORKER]
  /\ waking = [w \in Workers |-> NobodyToWake]
  /\ ticket = [s \in Sessions |-> Unset]
  /\ rollback_trx = FALSE
  /\ registered = 0 /\ faults = 0
  /\ log = << >> /\ again = FALSE

GoTo(s, place) == pc' = [pc EXCEPT ![s] = place]

-----------------------------------------------------------------------------
(* Relay log transactions and what happens to them before they commit.     *)

(* The coordinator hands the next transaction to a worker that is free. *)
RegisterTrx(w) ==
  /\ pc[w] = "idle"
  /\ registered < MaxTrx
  /\ registered' = registered + 1
  /\ trx' = [trx EXCEPT ![w] = registered + 1]
  /\ stage' = [stage EXCEPT ![w] = "REGISTERED"]
  /\ Push(w)
  /\ GoTo(w, "apply")
  /\ UNCHANGED <<ticketVars, m_wait, deadlock, retries, failing, blocked_by,
                 waking, ticket, rollback_trx, faults, log, again>>

(***************************************************************************)
(* The transaction is applied and asks to commit.  Group replication gives *)
(* it a ticket when it certifies it, ordered_commit otherwise; a           *)
(* transaction that is tried again keeps the one it has.                   *)
(***************************************************************************)
AssignTicket(w) ==
  /\ pc[w] = "apply"
  /\ blocked_by[w] = NO_WORKER
  /\ IF ticket[w] = Unset
     THEN /\ ticket' = [ticket EXCEPT ![w] = back]
          /\ AssignSessionToTicket
     ELSE UNCHANGED <<ticket, ticketVars>>
  /\ GoTo(w, "order")
  /\ UNCHANGED <<queueVars, stage, m_wait, deadlock, trx, retries, failing,
                 blocked_by, waking, sharedVars>>

(* w has a transaction that has not released its row locks yet. *)
HoldsLocks(w) == stage[w] # "FINISHED" /\ ~failing[w]

(* Those that w's locks block go on once w rolls back or commits. *)
ReleaseLocks(w) ==
  blocked_by' = [u \in Workers |-> IF blocked_by[u] = w THEN NO_WORKER
                                                        ELSE blocked_by[u]]

(* The transaction fails with an error no retry helps against. *)
ApplyError(w) ==
  /\ pc[w] = "apply"
  /\ blocked_by[w] = NO_WORKER
  /\ faults < MaxFaults
  /\ faults' = faults + 1
  /\ failing' = [failing EXCEPT ![w] = TRUE]
  /\ deadlock' = [deadlock EXCEPT ![w] = FALSE]
  /\ ReleaseLocks(w)
  /\ GoTo(w, IF ticket[w] = Unset THEN "order" ELSE "ticket")
  /\ UNCHANGED <<queueVars, ticketVars, stage, m_wait, trx, retries, waking,
                 ticket, rollback_trx, registered, log, again>>

(* The worker is marked, and told if its wait slot is still free. *)
CheckAndReportDeadlock(w) ==
  /\ deadlock' = [deadlock EXCEPT ![w] = TRUE]
  /\ m_wait' = [m_wait EXCEPT ![w] = IF @ = "EMPTY" THEN "VICTIM" ELSE @]

(* The engine finds u's transaction blocked by the later one of w. *)
Blocked(u, w) ==
  /\ pc[u] = "apply"
  /\ blocked_by[u] = NO_WORKER
  /\ HoldsLocks(w)
  /\ trx[w] > trx[u]
  /\ faults < MaxFaults
  /\ faults' = faults + 1
  /\ blocked_by' = [blocked_by EXCEPT ![u] = w]
  /\ CheckAndReportDeadlock(w)
  /\ UNCHANGED <<queueVars, ticketVars, pc, stage, trx, retries, failing,
                 waking, ticket, rollback_trx, registered, log, again>>

(***************************************************************************)
(* The worker was asked to let the earlier transaction pass: it rolls back *)
(* and applies its transaction again, or gives up after MaxRetries.  The   *)
(* mark is read after every event, and after a wait that failed.           *)
(***************************************************************************)
RetryTransaction(w) ==
  /\ IF retries[w] < MaxRetries
     THEN /\ retries' = [retries EXCEPT ![w] = @ + 1]
          /\ GoTo(w, "apply")
          /\ UNCHANGED failing
     ELSE /\ failing' = [failing EXCEPT ![w] = TRUE]
          /\ GoTo(w, IF ticket[w] = Unset THEN "order" ELSE "ticket")
          /\ UNCHANGED retries
  /\ deadlock' = [deadlock EXCEPT ![w] = FALSE]
  /\ ReleaseLocks(w)

DeadlockFound(w) ==
  /\ pc[w] = "apply"
  /\ blocked_by[w] = NO_WORKER
  /\ deadlock[w]
  /\ RetryTransaction(w)
  /\ UNCHANGED <<queueVars, ticketVars, stage, m_wait, trx, waking, ticket,
                 sharedVars>>
-----------------------------------------------------------------------------
(* Commit_order_manager::wait                                              *)

(* mutant: the worker looks at the queue before it says that it waits *)
EnterWait_StageLate(w) ==
  /\ pc[w] = "order"
  /\ m_wait' = [m_wait EXCEPT ![w] = "EMPTY"]
  /\ GoTo(w, "check")
  /\ UNCHANGED <<queueVars, ticketVars, stage, deadlock, trx, retries,
                 failing, blocked_by, waking, ticket, sharedVars>>

(* The wait slot is emptied and the worker says that it is going to wait. *)
EnterWait(w) ==
  /\ pc[w] = "order"
  /\ m_wait' = [m_wait EXCEPT ![w] = "EMPTY"]
  /\ stage' = [stage EXCEPT ![w] = "FINISHED_APPLYING"]
  /\ GoTo(w, "check")
  /\ UNCHANGED <<queueVars, ticketVars, deadlock, trx, retries, failing,
                 blocked_by, waking, ticket, sharedVars>>

(* wait_status_guard: the wait is over, one way or the other. *)
LeaveWait(w, s) ==
  /\ m_wait' = [m_wait EXCEPT ![w] = "EMPTY"]
  /\ stage' = [stage EXCEPT ![w] = s]

(* mutant: a transaction that fails does not stop those after it *)
HeedRollbackStatus_Forgotten(w) ==
  /\ UNCHANGED <<failing, rollback_trx, blocked_by>>
  /\ GoTo(w, IF failing[w] THEN "finish" ELSE "ticket")

(***************************************************************************)
(* A transaction that failed says so to those behind it; one that finds    *)
(* that an earlier one failed rolls back; any other goes on to commit.     *)
(***************************************************************************)
HeedRollbackStatus(w) ==
  /\ failing' = [failing EXCEPT ![w] = @ \/ rollback_trx]
  /\ rollback_trx' = (rollback_trx \/ failing[w])
  /\ IF failing'[w]
     THEN GoTo(w, "finish") /\ ReleaseLocks(w)
     ELSE GoTo(w, "ticket") /\ UNCHANGED blocked_by

ItIsMyTurn(w, s) ==
  /\ LeaveWait(w, s)
  /\ HeedRollbackStatus(w)
  /\ UNCHANGED <<queueVars, ticketVars, deadlock, trx, retries, waking,
                 ticket, registered, faults, log, again>>

WaitFailed(w) ==
  /\ LeaveWait(w, "REGISTERED")
  /\ RetryTransaction(w)
  /\ UNCHANGED <<queueVars, ticketVars, trx, waking, ticket, sharedVars>>

FirstInQueue(w) ==
  /\ pc[w] = "check"
  /\ Front = w
  /\ ItIsMyTurn(w, "WAITED")

AskedToRollBack(w) ==
  /\ pc[w] = "check"
  /\ Front # w
  /\ deadlock[w]
  /\ WaitFailed(w)

NotMyTurn(w) ==
  /\ pc[w] = "check"
  /\ Front # w
  /\ ~deadlock[w]
  /\ GoTo(w, "request")
  /\ UNCHANGED <<queueVars, ticketVars, stage, m_wait, deadlock, trx, retries,
                 failing, blocked_by, waking, ticket, sharedVars>>

RequestGrant(w) ==
  /\ pc[w] = "request"
  /\ stage' = [stage EXCEPT ![w] = "REQUESTED_GRANT"]
  /\ GoTo(w, "waiting")
  /\ UNCHANGED <<queueVars, ticketVars, m_wait, deadlock, trx, retries,
                 failing, blocked_by, waking, ticket, sharedVars>>

Granted(w) ==
  /\ pc[w] = "waiting"
  /\ m_wait[w] = "GRANTED"
  /\ ItIsMyTurn(w, "WAITED")

Victim(w) ==
  /\ pc[w] = "waiting"
  /\ m_wait[w] = "VICTIM"
  /\ WaitFailed(w)

OnItsTurnAndBackIncremented(w) ==
  ticket[w] = front /\ ticket[w] < back

(* mutant: a worker that overtakes is treated as one whose turn it is *)
Overtake_InTurn(w) ==
  /\ pc[w] = "waiting"
  /\ m_wait[w] = "EMPTY"
  /\ OnItsTurnAndBackIncremented(w)
  /\ ItIsMyTurn(w, "WAITED")

(***************************************************************************)
(* One second passes without an answer.  The worker whose ticket is on its *)
(* turn, and not the last one, overtakes: a worker ahead of it in the      *)
(* queue may hold a later ticket.                                          *)
(***************************************************************************)
Overtake(w) ==
  /\ pc[w] = "waiting"
  /\ m_wait[w] = "EMPTY"
  /\ OnItsTurnAndBackIncremented(w)
  /\ ItIsMyTurn(w, "WAITED_OVERTAKE")

-----------------------------------------------------------------------------
(* Tickets: Commit_stage_manager::append_to and finish_session_ticket      *)

LogEntry(s) ==
  [trx |-> trx[s], ticket |-> ticket[s],
   overtook |-> s \in Workers /\ stage[s] = "WAITED_OVERTAKE"]

TicketTurnHasCome(s) == ticket[s] = front

(* The worker's transaction is committed: its GTID is skipped this time. *)
Skips(s) == s \in Workers /\ stage[s] = "FINISHED" /\ ~failing[s]

(***************************************************************************)
(* The session enters the flush queue, unless its transaction failed or is *)
(* skipped: skip_statement passes the ticket all the same.                 *)
(***************************************************************************)
PassTicket(s) ==
  /\ pc[s] = "ticket"
  /\ TicketTurnHasCome(s)
  /\ log' = IF failing[s] \/ Skips(s) THEN log ELSE Append(log, LogEntry(s))
  /\ GoTo(s, "count")
  /\ UNCHANGED <<queueVars, ticketVars, stage, m_wait, deadlock, trx, retries,
                 failing, blocked_by, waking, ticket, rollback_trx,
                 registered, faults, again>>

(* mutant: the session enters the queue before it waits for its ticket *)
SleepForTicket_InQueue(s) ==
  /\ pc[s] = "ticket"
  /\ ~TicketTurnHasCome(s)
  /\ log' = IF failing[s] \/ Skips(s) THEN log ELSE Append(log, LogEntry(s))
  /\ GoTo(s, "asleep")
  /\ UNCHANGED <<queueVars, ticketVars, stage, m_wait, deadlock, trx, retries,
                 failing, blocked_by, waking, ticket, rollback_trx,
                 registered, faults, again>>

SleepForTicket(s) ==
  /\ pc[s] = "ticket"
  /\ ~TicketTurnHasCome(s)
  /\ GoTo(s, "asleep")
  /\ UNCHANGED <<queueVars, ticketVars, stage, m_wait, deadlock, trx, retries,
                 failing, blocked_by, waking, ticket, sharedVars>>

(* A sleeper looks again every second, until its ticket's turn has come. *)
TicketTimeout(s) ==
  /\ pc[s] = "asleep"
  /\ TicketTurnHasCome(s)
  /\ GoTo(s, "ticket")
  /\ UNCHANGED <<queueVars, ticketVars, stage, m_wait, deadlock, trx, retries,
                 failing, blocked_by, waking, ticket, sharedVars>>

CountSession(s) ==
  /\ pc[s] = "count"
  /\ AddProcessedSession
  /\ GoTo(s, "signal")
  /\ UNCHANGED <<queueVars, stage, m_wait, deadlock, trx, retries, failing,
                 blocked_by, waking, ticket, sharedVars>>

(* Where a session goes once its ticket is behind it. *)
AfterTicket(s) ==
  CASE s \in Views -> "stopped"
    [] s \in Workers /\ ~failing[s] ->
         IF stage[s] = "FINISHED" THEN "idle" ELSE "finish"
    [] s \in Workers /\ failing[s] ->
         IF stage[s] = "FINISHED" THEN "stopped" ELSE "order"

(***************************************************************************)
(* signal_end_of_ticket: retire the front ticket if this was its last      *)
(* session, and then wake the sleepers.                                    *)
(***************************************************************************)
SignalEndOfTicket(s) ==
  /\ pc[s] = "signal"
  /\ PopFrontTicket
  /\ pc' = [x \in Sessions |->
              IF x = s THEN AfterTicket(s)
              ELSE IF pc[x] = "asleep" /\ front' # front THEN "ticket"
              ELSE pc[x]]
  /\ ticket' = [ticket EXCEPT ![s] =
                  IF AfterTicket(s) = "finish" THEN @ ELSE Unset]
  /\ UNCHANGED <<queueVars, stage, m_wait, deadlock, trx, retries, failing,
                 blocked_by, waking, sharedVars>>

(***************************************************************************)
(* generate_view_change_bgc_ticket: close the current ticket, retire it if *)
(* its sessions are through (without waking anyone), and take the next one *)
(* for the view change alone.                                              *)
(***************************************************************************)
ViewChange(v) ==
  /\ pc[v] = "idle"
  /\ PushNewTicket(0)
  /\ GoTo(v, "pop_front")
  /\ UNCHANGED <<queueVars, stage, m_wait, deadlock, trx, retries, failing,
                 blocked_by, waking, ticket, sharedVars>>

ViewPopsFront(v) ==
  /\ pc[v] = "pop_front"
  /\ PopFrontTicket
  /\ GoTo(v, "own_ticket")
  /\ UNCHANGED <<queueVars, stage, m_wait, deadlock, trx, retries, failing,
                 blocked_by, waking, ticket, sharedVars>>

ViewTakesTicket(v) ==
  /\ pc[v] = "own_ticket"
  /\ ticket' = [ticket EXCEPT ![v] = back]
  /\ PushNewTicket(1)
  /\ GoTo(v, "ticket")
  /\ UNCHANGED <<queueVars, stage, m_wait, deadlock, trx, retries, failing,
                 blocked_by, waking, sharedVars>>

-----------------------------------------------------------------------------
(* Commit_order_manager::finish_one                                        *)

(***************************************************************************)
(* w leaves the queue.  finish_one asserts that it is first if it was told *)
(* so: the model goes no further from a state where it is not (TurnIsFront *)
(* says that there is none).                                               *)
(***************************************************************************)
LeaveQueue(w) ==
  /\ pc[w] = "finish"
  /\ waking' = [waking EXCEPT ![w] = [NobodyToWake EXCEPT !.nr = NumberToWake(w)]]
  /\ IF stage[w] = "WAITED" THEN Front = w /\ Pop(w) ELSE Remove(w)
  /\ GoTo(w, "wake")
  /\ UNCHANGED <<ticketVars, stage, m_wait, deadlock, trx, retries, failing,
                 blocked_by, ticket, sharedVars>>

(***************************************************************************)
(* What follows the commit.  Nothing in the commit clears the mark of a    *)
(* deadlock report that came after the wait, to a worker that overtook.    *)
(* slave_worker_exec_job_group reads it after the last event and hands the *)
(* committed transaction to retry_transaction, whose sentry clears the     *)
(* mark on every way out.                                                  *)
(***************************************************************************)

(* The worker waits for work: no mark, or an event without a ticket. *)
CommitIsOver(w) ==
  /\ deadlock[w] => retries[w] < MaxRetries
  /\ GoTo(w, "idle")
  /\ ticket' = [ticket EXCEPT ![w] = Unset]
  /\ UNCHANGED <<rollback_trx, again>>

(* The GTID event sets the ticket of the transaction once more. *)
CommittedIsAppliedAgain(w) ==
  /\ deadlock[w] /\ retries[w] < MaxRetries
  /\ GoTo(w, "ticket")
  /\ again' = TRUE
  /\ UNCHANGED <<ticket, rollback_trx>>

(* No retry is left: the worker ends with an error, and those behind it too. *)
CommittedIsGivenUp(w) ==
  /\ deadlock[w] /\ retries[w] = MaxRetries
  /\ GoTo(w, "stopped")
  /\ ticket' = [ticket EXCEPT ![w] = Unset]
  /\ rollback_trx' = TRUE
  /\ UNCHANGED again

(***************************************************************************)
(* The end of finish_one: the worker's slot is emptied and its place is    *)
(* free.  A worker that gave up still has its ticket to pass; any other    *)
(* goes on through the commit and its locks go with it.                    *)
(***************************************************************************)
PlaceIsFree(w) ==
  /\ stage' = [stage EXCEPT ![w] = "FINISHED"]
  /\ waking' = [waking EXCEPT ![w] = NobodyToWake]
  /\ IF failing[w]
     THEN /\ GoTo(w, IF ticket[w] = Unset THEN "stopped" ELSE "ticket")
          /\ UNCHANGED <<trx, ticket, retries, deadlock, blocked_by,
                         rollback_trx, again>>
     ELSE /\ \/ CommitIsOver(w)
             \/ CommittedIsAppliedAgain(w)
             \/ CommittedIsGivenUp(w)
          /\ trx' = [trx EXCEPT ![w] = 0]
          /\ retries' = [retries EXCEPT ![w] = 0]
          /\ deadlock' = [deadlock EXCEPT ![w] = FALSE]
          /\ ReleaseLocks(w)
  /\ UNCHANGED <<ticketVars, failing, registered, faults, log>>

NeedsGrant(w) == stage[w] \in {"FINISHED_APPLYING", "REQUESTED_GRANT"}

(* Is there a worker to wake, as far as this one can see? *)
LookForNext(w) ==
  /\ pc[w] = "wake"
  /\ IF Front # NO_WORKER /\ NeedsGrant(Front)
     THEN /\ waking' = [waking EXCEPT ![w].worker = Front]
          /\ GoTo(w, "freeze")
          /\ UNCHANGED <<ticketVars, stage, m_wait, deadlock, trx, retries,
                         failing, blocked_by, ticket, sharedVars>>
     ELSE /\ m_wait' = [m_wait EXCEPT ![w] = "EMPTY"]
          /\ PlaceIsFree(w)
  /\ UNCHANGED queueVars

FreezeNext(w) ==
  /\ pc[w] = "freeze"
  /\ CanFreeze(waking[w].worker, waking[w].nr)
  /\ Freeze(waking[w].worker)
  /\ GoTo(w, "grant")
  /\ UNCHANGED <<ticketVars, stage, m_wait, deadlock, trx, retries, failing,
                 blocked_by, waking, ticket, sharedVars>>

NextIsGone(w) ==
  /\ pc[w] = "freeze"
  /\ ~CanFreeze(waking[w].worker, waking[w].nr)
  /\ m_wait' = [m_wait EXCEPT ![w] = "EMPTY"]
  /\ PlaceIsFree(w)
  /\ UNCHANGED queueVars

(* MDL_wait::set_status(GRANTED) *)
GrantNext(w) ==
  /\ pc[w] = "grant"
  /\ m_wait' = [m_wait EXCEPT ![waking[w].worker] =
                  IF @ = "EMPTY" THEN "GRANTED" ELSE @]
  /\ GoTo(w, "unfreeze")
  /\ UNCHANGED <<queueVars, ticketVars, stage, deadlock, trx, retries, failing,
                 blocked_by, waking, ticket, sharedVars>>

UnfreezeNext(w) ==
  /\ pc[w] = "unfreeze"
  /\ Unfreeze(waking[w].worker, waking[w].nr)
  /\ m_wait' = [m_wait EXCEPT ![w] = "EMPTY"]
  /\ PlaceIsFree(w)

-----------------------------------------------------------------------------
TicketStep(s) ==
  \/ PassTicket(s) \/ SleepForTicket(s) \/ TicketTimeout(s)
  \/ CountSession(s) \/ SignalEndOfTicket(s)

WorkerStep(w) ==
  \/ AssignTicket(w) \/ DeadlockFound(w)
  \/ EnterWait(w) \/ FirstInQueue(w) \/ AskedToRollBack(w) \/ NotMyTurn(w)
  \/ RequestGrant(w)
  \/ Granted(w) \/ Victim(w) \/ Overtake(w)
  \/ TicketStep(w)
  \/ LeaveQueue(w) \/ LookForNext(w) \/ FreezeNext(w) \/ NextIsGone(w)
  \/ GrantNext(w) \/ UnfreezeNext(w)

ViewStep(v) == ViewPopsFront(v) \/ ViewTakesTicket(v) \/ TicketStep(v)

(***************************************************************************)
(* Every session has come to rest: there is nothing left to do.  When a    *)
(* committed transaction was applied again sessions may be left that look  *)
(* at the front ticket every second, for ever (TicketsInTurn).             *)
(***************************************************************************)
AllAtRest ==
  /\ again \/ \A s \in Sessions : pc[s] \in {"idle", "stopped"}
  /\ UNCHANGED vars

Next ==
  \/ \E w \in Workers : RegisterTrx(w) \/ ApplyError(w) \/ WorkerStep(w)
  \/ \E u, w \in Workers : Blocked(u, w)
  \/ \E v \in Views : ViewChange(v) \/ ViewStep(v)
  \/ AllAtRest

Spec == Init /\ [][Next]_vars

(***************************************************************************)
(* Threads keep running and every wait has a time-out of a second.  Nothing*)
(* makes transactions arrive, fail or block each other.                    *)
(***************************************************************************)
FairSpec ==
  /\ Spec
  /\ \A w \in Workers : WF_vars(WorkerStep(w))
  /\ \A v \in Views : WF_vars(ViewStep(v))

-----------------------------------------------------------------------------
(* Properties *)

(***************************************************************************)
(* A worker that was told it is its turn is first in the queue until it    *)
(* leaves: finish_one asserts it, and pops whoever is first.  A grant that *)
(* arrives late, meant for the worker's previous transaction or for a wait *)
(* that it gave up, must not be taken for this one.                        *)
(***************************************************************************)
TurnIsFront ==
  \A w \in Workers :
    /\ stage[w] = "WAITED"
    /\ pc[w] \in {"ticket", "asleep", "count", "signal", "finish"}
    => Front = w

(***************************************************************************)
(* replica_preserve_commit_order: a transaction enters the flush queue     *)
(* after every earlier transaction of the relay log, unless it overtook    *)
(* because of a view change.  It follows that none commits in turn after   *)
(* one that failed.                                                        *)
(***************************************************************************)
RelayOrder ==
  \A i \in DOMAIN log :
    log[i].trx > 0 /\ ~log[i].overtook =>
      \A k \in 1 .. log[i].trx - 1 : \E j \in 1 .. i - 1 : log[j].trx = k

(***************************************************************************)
(* Tickets are what keeps transactions on their side of a view change:     *)
(* sessions enter the flush queue in the order of their tickets, whatever  *)
(* the workers' order among themselves.                                    *)
(***************************************************************************)
TicketOrder ==
  \A i, j \in DOMAIN log : i < j => log[i].ticket <= log[j].ticket

(* The session has a ticket and is not yet counted as processed. *)
AheadOfItsTicket(s) ==
  /\ ticket[s] # Unset
  /\ pc[s] # "signal"
  /\ pc[s] \in {"finish", "wake", "freeze", "grant", "unfreeze"} => failing[s]

(***************************************************************************)
(* The counts of pop_front_ticket meet exactly when the last session of    *)
(* the front ticket has passed: no ticket is retired while a session that  *)
(* holds it is still to come, who would then wait for ever, and a session  *)
(* is counted in its own ticket (the assertion in                          *)
(* add_processed_sessions_to_front_ticket).                                *)
(*                                                                         *)
(* The code keeps this only until a committed transaction is applied       *)
(* again, which counts its session a second time or makes it wait for a    *)
(* ticket that is gone: whatever else is retried, given up or overtakes,   *)
(* the counts are right up to that step.                                   *)
(***************************************************************************)
TicketsInTurn ==
  ~again =>
    /\ \A s \in Sessions : AheadOfItsTicket(s) => ticket[s] >= front
    /\ \A s \in Sessions : pc[s] = "count" => ticket[s] = front

(***************************************************************************)
(* Whatever the interleaving of grants, deadlock reports, time-outs and    *)
(* view changes, every transaction and every view change comes to an end,  *)
(* unless a committed transaction is applied again: the one thing that can *)
(* leave sessions waiting for a ticket whose turn does not come.           *)
(***************************************************************************)
EverySessionEnds ==
  \A s \in Sessions : []<>(pc[s] \in {"idle", "stopped"} \/ again)
=============================================================================
