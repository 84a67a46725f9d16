---------------------- MODULE GroupCommitSessionProofs ----------------------
(***************************************************************************)
(* Theorems about what GroupCommit does for one session: its transaction   *)
(* is committed once, stays linked in one place while it sleeps, is        *)
(* counted until the engine has it, and is durable when the client is      *)
(* told.  They rest on the structure proved in GroupCommitProofs.          *)
(***************************************************************************)
EXTENDS GroupCommitProofs

-----------------------------------------------------------------------------
(***************************************************************************)
(* Committed once.                                                         *)
(***************************************************************************)

(* Where a transaction may still have to be committed in the engine. *)
InCommit == BinlogPcs \ (OutsideCommit \cup {"prepared", "finish_low"})

Uncommitted(t) == commit_low[t] \/ pc[t] = "prepared"

(* The flag commit_low is up only inside a commit, ... *)
FlagInCommit == \A t \in BinlogThds : commit_low[t] => pc[t] \in InCommit

(* ... and while it is, or before it is set, the transaction is not in     *)
(* the engine, ...                                                         *)
FlagIsTrue ==
  \A t \in BinlogThds : Uncommitted(t) => trx[t] # 0 /\ Trx(t) \notin Members(committed)

(* ... and everything else a session began is.                             *)
RestIsCommitted ==
  \A t \in BinlogThds : \A n \in 1 .. trx[t] :
    n < trx[t] \/ ~Uncommitted(t) => <<t, n>> \in Members(committed)

CommittedWasBegun == \A x \in Members(committed) : x[2] <= trx[x[1]]

NoneTwice == \A i, j \in DOMAIN committed : i # j => committed[i] # committed[j]

Account ==
  FlagInCommit /\ FlagIsTrue /\ RestIsCommitted /\ CommittedWasBegun /\ NoneTwice

(* The members of a sequence that grows by one. *)
LEMMA MembersAppend ==
  ASSUME NEW S, NEW s \in Seq(S), NEW x \in S
  PROVE  /\ Members(Append(s, x)) = Members(s) \cup {x}
         /\ (\A i, j \in DOMAIN s : i # j => s[i] # s[j]) /\ x \notin Members(s) =>
              \A i, j \in DOMAIN Append(s, x) : i # j => Append(s, x)[i] # Append(s, x)[j]
<1>1. /\ DOMAIN s = 1 .. Len(s) /\ DOMAIN Append(s, x) = 1 .. (Len(s) + 1) /\ Len(s) \in Nat
      /\ Append(s, x)[Len(s) + 1] = x
      /\ \A i \in 1 .. Len(s) : Append(s, x)[i] = s[i]
  BY AppendProperties, LenProperties
<1>2. 1 .. (Len(s) + 1) = (1 .. Len(s)) \cup {Len(s) + 1}
  BY <1>1
<1>3. Members(Append(s, x)) = Members(s) \cup {x}
  BY <1>1, <1>2 DEF Members
<1>4. ASSUME \A i, j \in DOMAIN s : i # j => s[i] # s[j], x \notin Members(s),
             NEW i \in DOMAIN Append(s, x), NEW j \in DOMAIN Append(s, x), i # j
      PROVE  Append(s, x)[i] # Append(s, x)[j]
  <2>1. \A k \in DOMAIN s : s[k] # x
    BY <1>4 DEF Members
  <2> QED BY <1>1, <1>2, <1>4, <2>1
<1> QED BY <1>3, <1>4

(* A step that commits nothing and moves no session into or out of the     *)
(* part of the code where its transaction may be committed.                *)
SameAccount ==
  /\ UNCHANGED <<commit_low, committed>>
  /\ \A t \in BinlogThds :
       /\ trx'[t] = trx[t]
       /\ pc'[t] = "prepared" <=> pc[t] = "prepared"
       /\ commit_low[t] => (pc[t] \in InCommit => pc'[t] \in InCommit)

(* The engine commits the transaction of u. *)
CommitsOne(u) ==
  /\ commit_low[u] /\ CommitInEngine(u) /\ UNCHANGED trx
  /\ \A t \in BinlogThds :
       /\ pc'[t] = "prepared" <=> pc[t] = "prepared"
       /\ t # u => pc'[t] = pc[t]

(* A step that changes no flag and commits nothing. *)
LEMMA SameAccountStep ==
  ASSUME IInv, Account, SameAccount
  PROVE  Account'
<1> USE DEF SameAccount
<1>1. \A t \in BinlogThds : Trx(t)' = Trx(t) /\ (Uncommitted(t)' <=> Uncommitted(t))
  BY DEF Trx, Uncommitted
<1>2. FlagInCommit'
  BY DEF Account, FlagInCommit
<1>3. FlagIsTrue' /\ RestIsCommitted'
  BY <1>1 DEF Account, FlagIsTrue, RestIsCommitted
<1>4. \A x \in Members(committed) : x[1] \in BinlogThds
  BY MembersFacts DEF IInv, CommitTypeOK, EngineTypeOK, Trxs
<1>5. CommittedWasBegun' /\ NoneTwice'
  BY <1>4 DEF Account, CommittedWasBegun, NoneTwice
<1> QED BY <1>2, <1>3, <1>5 DEF Account

(* A step that commits one session that was not committed. *)
LEMMA CommitsOneStep ==
  ASSUME IInv, Account, NEW u \in BinlogThds, CommitsOne(u)
  PROVE  Account'
<1> USE DEF CommitsOne, CommitInEngine
<1>1. Trx(u) \in Trxs /\ committed \in Seq(Trxs)
  BY ThdsFacts DEF Trx, Trxs, IInv, CommitTypeOK, ThdTypeOK, EngineTypeOK
<1>2. committed' = Append(committed, Trx(u))
  OBVIOUS
<1>3. Members(committed') = Members(committed) \cup {Trx(u)}
  BY <1>1, <1>2, MembersAppend
<1>4. Trx(u) \notin Members(committed)
  BY DEF Account, FlagIsTrue, Uncommitted
<1>5. NoneTwice'
  BY <1>1, <1>2, <1>4, MembersAppend DEF Account, NoneTwice
<1>6. ~commit_low'[u] /\ \A t \in BinlogThds \ {u} : commit_low'[t] = commit_low[t]
  BY ThdsFacts DEF IInv, CommitTypeOK, ThdTypeOK
<1>7. pc[u] # "prepared"
  BY DEF Account, FlagInCommit, InCommit
<1>8. \A t \in BinlogThds : Trx(t)' = Trx(t)
  BY DEF Trx
<1>9. /\ ~Uncommitted(u)'
      /\ \A t \in BinlogThds \ {u} : Uncommitted(t)' <=> Uncommitted(t)
  BY <1>6, <1>7 DEF Uncommitted
<1>10. FlagInCommit'
  BY <1>6 DEF Account, FlagInCommit
<1>11. \A t \in BinlogThds \ {u} : Trx(t) # Trx(u)
  BY DEF Trx
<1>12. FlagIsTrue'
  BY <1>3, <1>8, <1>9, <1>11 DEF Account, FlagIsTrue
<1>13. RestIsCommitted'
  <2> SUFFICES ASSUME NEW t \in BinlogThds, NEW n \in 1 .. trx[t],
                      n < trx[t] \/ ~Uncommitted(t)'
               PROVE  <<t, n>> \in Members(committed')
    BY DEF RestIsCommitted
  <2>1. trx[t] \in Nat
    BY ThdsFacts DEF IInv, CommitTypeOK, ThdTypeOK
  <2>2. CASE n < trx[t] \/ t # u
    BY <2>2, <1>3, <1>9 DEF Account, RestIsCommitted
  <2>3. CASE n = trx[t] /\ t = u
    BY <2>3, <1>3 DEF Trx
  <2> QED BY <2>1, <2>2, <2>3
<1>14. CommittedWasBegun'
  <2>1. Trx(u)[2] <= trx[Trx(u)[1]]
    BY ThdsFacts DEF Trx, IInv, CommitTypeOK, ThdTypeOK
  <2> QED BY <2>1, <1>3 DEF Account, CommittedWasBegun
<1> QED BY <1>5, <1>10, <1>12, <1>13, <1>14 DEF Account

(* Prepare preserves the account. *)
LEMMA PrepareAccount ==
  ASSUME IInv, Account, NEW t \in BinlogThds, Prepare(t)
  PROVE  Account'
<1> USE DEF Prepare
<1>1. /\ pc[t] = "idle" /\ pc'[t] = "prepared"
      /\ \A u \in Thds \ {t} : pc'[u] = pc[u]
  BY ThdsFacts DEF Goto, IInv, CommitTypeOK, StageTypeOK, PcTypeOK
<1>2. /\ trx[t] \in Nat /\ trx'[t] = trx[t] + 1
      /\ \A u \in Thds \ {t} : trx'[u] = trx[u]
  BY ThdsFacts DEF IInv, CommitTypeOK, ThdTypeOK
<1>3. UNCHANGED <<commit_low, committed>>
  OBVIOUS
<1> HIDE DEF Prepare
<1>4. ~commit_low[t] /\ ~Uncommitted(t)
  BY <1>1 DEF Account, FlagInCommit, InCommit, OutsideCommit, Uncommitted
<1>5. Uncommitted(t)' /\ \A u \in BinlogThds \ {t} : Uncommitted(u)' <=> Uncommitted(u)
  BY <1>1, <1>3, ThdsFacts DEF Uncommitted
<1>6. FlagInCommit'
  BY <1>1, <1>3, <1>4, ThdsFacts DEF Account, FlagInCommit
<1>7. \A x \in Members(committed) : x[1] \in BinlogThds /\ x[2] \in Nat
  BY MembersFacts DEF IInv, CommitTypeOK, EngineTypeOK, Trxs
<1>8. <<t, trx[t] + 1>> \notin Members(committed)
  <2>1. ASSUME <<t, trx[t] + 1>> \in Members(committed) PROVE FALSE
    <3> DEFINE x == <<t, trx[t] + 1>>
    <3>1. x[1] = t /\ x[2] = trx[t] + 1
      OBVIOUS
    <3>2. x[2] <= trx[x[1]]
      BY <2>1 DEF Account, CommittedWasBegun
    <3> QED BY <3>1, <3>2, <1>2
  <2> QED BY <2>1
<1>9. FlagIsTrue'
  <2>1. trx'[t] # 0 /\ Trx(t)' \notin Members(committed')
    BY <1>2, <1>3, <1>8 DEF Trx
  <2>2. ASSUME NEW u \in BinlogThds \ {t}, Uncommitted(u)'
        PROVE  trx'[u] # 0 /\ Trx(u)' \notin Members(committed')
    BY <2>2, <1>2, <1>3, <1>5, ThdsFacts DEF Account, FlagIsTrue, Trx
  <2> QED BY <2>1, <2>2 DEF FlagIsTrue
<1>10. RestIsCommitted'
  <2> SUFFICES ASSUME NEW u \in BinlogThds, NEW n \in 1 .. trx'[u],
                      n < trx'[u] \/ ~Uncommitted(u)'
               PROVE  <<u, n>> \in Members(committed)
    BY <1>3 DEF RestIsCommitted
  <2>1. CASE u = t
    BY <2>1, <1>2, <1>4, <1>5 DEF Account, RestIsCommitted
  <2>2. CASE u # t
    BY <2>2, <1>2, <1>5, ThdsFacts DEF Account, RestIsCommitted
  <2> QED BY <2>1, <2>2
<1>11. CommittedWasBegun'
  <2> SUFFICES ASSUME NEW x \in Members(committed) PROVE x[2] <= trx'[x[1]]
    BY <1>3 DEF CommittedWasBegun
  <2>1. x[2] <= trx[x[1]] /\ x[1] \in BinlogThds /\ x[2] \in Nat
    BY <1>7 DEF Account, CommittedWasBegun
  <2>2. CASE x[1] = t
    BY <2>1, <2>2, <1>2
  <2>3. CASE x[1] # t
    BY <2>1, <2>3, <1>2, ThdsFacts
  <2> QED BY <2>2, <2>3
<1>12. NoneTwice'
  BY <1>3 DEF Account, NoneTwice
<1> QED BY <1>6, <1>9, <1>10, <1>11, <1>12 DEF Account

(* OrderedCommit preserves the account. *)
LEMMA OrderedCommitAccount ==
  ASSUME IInv, Account, NEW t \in BinlogThds, OrderedCommit(t)
  PROVE  Account'
<1> USE DEF OrderedCommit, InitThdVariables, EnrollFor
<1>1. EnrolledAs("BINLOG_FLUSH") \in InCommit
  BY DEF EnrolledAs, InCommit, BinlogPcs, OutsideCommit
<1>2. /\ pc[t] = "prepared" /\ pc'[t] \in InCommit
      /\ \A u \in Thds \ {t} : pc'[u] = pc[u]
  BY <1>1, ThdsFacts DEF IInv, CommitTypeOK, StageTypeOK, PcTypeOK
<1>3. commit_low'[t] /\ \A u \in Thds \ {t} : commit_low'[u] = commit_low[u]
  BY ThdsFacts DEF IInv, CommitTypeOK, ThdTypeOK
<1>4. UNCHANGED <<trx, committed>>
  BY DEF engineVars
<1> HIDE DEF OrderedCommit
<1>5. Uncommitted(t) /\ Uncommitted(t)' /\ \A u \in BinlogThds : Uncommitted(u)' <=> Uncommitted(u)
  BY <1>2, <1>3, ThdsFacts DEF Uncommitted
<1>6. FlagInCommit'
  BY <1>2, <1>3, ThdsFacts DEF Account, FlagInCommit
<1>7. FlagIsTrue' /\ RestIsCommitted' /\ CommittedWasBegun' /\ NoneTwice'
  BY <1>4, <1>5 DEF Account, FlagIsTrue, RestIsCommitted, CommittedWasBegun, NoneTwice, Trx
<1> QED BY <1>6, <1>7 DEF Account

(* A step that moves one session, not to or from "prepared". *)
LEMMA MoveAccount ==
  ASSUME IInv, Account, NEW t \in Thds, NEW l, Goto(t, l),
         UNCHANGED <<commit_low, committed>>, \A u \in BinlogThds : trx'[u] = trx[u],
         t \in BinlogThds =>
           /\ l # "prepared" /\ pc[t] # "prepared"
           /\ commit_low[t] /\ pc[t] \in InCommit => l \in InCommit
  PROVE  Account'
<1>1. pc'[t] = l /\ \A u \in Thds \ {t} : pc'[u] = pc[u]
  BY DEF Goto, IInv, CommitTypeOK, StageTypeOK, PcTypeOK
<1>2. SameAccount
  BY <1>1, ThdsFacts DEF SameAccount
<1> QED BY <1>2, SameAccountStep

(* A step of a binlog session preserves the account. *)
LEMMA BinlogAccount ==
  ASSUME IInv, Account, NEW t \in BinlogThds, Prepare(t) \/ FlushLogs(t) \/ BinlogStep(t)
  PROVE  Account'
<1> USE ThdsFacts
<1> DEFINE Moved == \E l : /\ Goto(t, l) /\ l # "prepared" /\ pc[t] # "prepared"
                           /\ commit_low[t] /\ pc[t] \in InCommit => l \in InCommit
           Quiet == UNCHANGED <<commit_low, committed, trx>>
<1>1. ASSUME Moved, Quiet PROVE Account'
  <2>1. PICK l : /\ Goto(t, l) /\ l # "prepared" /\ pc[t] # "prepared"
                 /\ commit_low[t] /\ pc[t] \in InCommit => l \in InCommit
    BY <1>1
  <2>2. \A u \in BinlogThds : trx'[u] = trx[u]
    BY <1>1
  <2> QED BY <1>1, <2>1, <2>2, MoveAccount
<1> HIDE DEF Moved
<1> USE DEF InCommit, BinlogPcs, OutsideCommit, thdVars, engineVars
<1>2. CASE Prepare(t)
  BY <1>2, PrepareAccount
<1>3. CASE OrderedCommit(t)
  BY <1>3, OrderedCommitAccount
<1>4. CASE FlushLogs(t)
  <2>1. Moved /\ Quiet BY <1>4 DEF FlushLogs, RequestRotation, Moved
  <2> QED BY <1>1, <2>1
<1>5. CASE BinlogLeader(t)
  <2>1. Goto(t, "BINLOG_FLUSH") /\ pc[t] = "wait_leader" /\ Quiet
    BY <1>5 DEF BinlogLeader, BinlogLeaderWakes, Goto
  <2>2. Moved
    BY <2>1 DEF Moved
  <2> QED BY <1>1, <2>1, <2>2
<1>6. CASE EnterFlush(t)
  <2>1. Moved /\ Quiet BY <1>6 DEF EnterFlush, Moved
  <2> QED BY <1>1, <2>1
<1>7. CASE FlushEngine(t)
  <2>1. Moved /\ Quiet BY <1>7 DEF FlushEngine, Moved
  <2> QED BY <1>1, <2>1
<1>8. CASE FinishOrderList(t)
  <2>1. Moved /\ Quiet BY <1>8 DEF FinishOrderList, Moved
  <2> QED BY <1>1, <2>1
<1>9. CASE WriteBinlog(t)
  <2>1. Moved /\ Quiet BY <1>9 DEF WriteBinlog, Moved
  <2> QED BY <1>1, <2>1
<1>10. CASE CloseBinlog(t)
  <2>1. Moved /\ Quiet BY <1>10 DEF CloseBinlog, Moved
  <2> QED BY <1>1, <2>1
<1>11. CASE LeaveFlush(t) \/ LeaveSync(t) \/ LeaveCommit(t)
  <2>1. \A s \in {"SYNC", "COMMIT", "AFTER_COMMIT"} : EnrolledAs(s) \in {s, "follow"}
    BY DEF EnrolledAs
  <2>2. Moved /\ Quiet
    BY <1>11, <2>1 DEF LeaveFlush, LeaveSync, LeaveCommit, ChangeStage, EnrollFor, Goto, Moved
  <2> QED BY <1>1, <2>2
<1>12. CASE LeaveClosedFlush(t)
  <2>1. EnrolledAs("COMMIT") \in {"COMMIT", "follow"}
    BY DEF EnrolledAs
  <2>2. Moved /\ Quiet
    BY <1>12, <2>1 DEF LeaveClosedFlush, ChangeStage, EnrollFor, Goto, Moved
  <2> QED BY <1>1, <2>2
<1>13. CASE EnterSync(t) \/ EnterCommit(t) \/ EnterAfterCommit(t)
  <2>1. Moved /\ Quiet
    BY <1>13 DEF EnterSync, EnterCommit, EnterAfterCommit, EnterStage, Moved
  <2> QED BY <1>1, <2>1
<1>14. CASE SyncBinlog(t)
  <2>1. Moved /\ Quiet BY <1>14 DEF SyncBinlog, Moved
  <2> QED BY <1>1, <2>1
<1>15. CASE AfterSyncHook(t)
  <2>1. Moved /\ Quiet BY <1>15 DEF AfterSyncHook, Moved
  <2> QED BY <1>1, <2>1
<1>16. CASE CommitNext(t)
  <2>1. PICK i \in DOMAIN list[t] : commit_low[list[t][i]] /\ CommitInEngine(list[t][i])
    BY <1>16 DEF CommitNext
  <2>2. list[t][i] \in BinlogThds
    BY DEF IInv, CommitTypeOK, LeaderTypeOK
  <2>3. CommitsOne(list[t][i])
    BY <1>16, <2>1 DEF CommitNext, CommitsOne, stageVars
  <2> QED BY <2>2, <2>3, CommitsOneStep
<1>17. CASE CommitGroupDone(t)
  <2>1. Moved /\ Quiet BY <1>17 DEF CommitGroupDone, Moved
  <2> QED BY <1>1, <2>1
<1>18. CASE AfterCommit(t)
  <2>1. Moved /\ Quiet BY <1>18 DEF AfterCommit, Moved
  <2> QED BY <1>1, <2>1
<1>19. CASE HandleSyncError(t)
  <2>1. CASE AbortServer
    <3>1. SameAccount
      BY <1>19, <2>1 DEF HandleSyncError, SameAccount
    <3> QED BY <3>1, SameAccountStep
  <2>2. CASE ~AbortServer
    <3>1. Moved /\ Quiet BY <1>19, <2>2 DEF HandleSyncError, Moved
    <3> QED BY <1>1, <3>1
  <2> QED BY <2>1, <2>2
<1>20. CASE Signal(t) \/ FollowerWakes(t)
  <2>1. Moved /\ Quiet BY <1>20 DEF Signal, FollowerWakes, Moved
  <2> QED BY <1>1, <2>1
<1>21. CASE FinishInEngine(t)
  <2>1. pc'[t] = "finish_low" /\ \A u \in Thds \ {t} : pc'[u] = pc[u]
    BY <1>21 DEF FinishInEngine, Goto, IInv, CommitTypeOK, StageTypeOK, PcTypeOK
  <2>2. CommitsOne(t)
    BY <1>21, <2>1 DEF FinishInEngine, CommitsOne
  <2> QED BY <2>2, CommitsOneStep
<1>22. CASE FinishCommit(t)
  <2>1. Moved /\ Quiet BY <1>22 DEF FinishCommit, RequestRotation, Moved
  <2> QED BY <1>1, <2>1
<1>23. CASE RotateLock(t) \/ WaitForPrepXids(t) \/ NewFile(t)
  <2>1. Moved /\ Quiet BY <1>23 DEF RotateLock, WaitForPrepXids, NewFile, Moved
  <2> QED BY <1>1, <2>1
<1> QED BY <1>2, <1>3, <1>4, <1>5, <1>6, <1>7, <1>8, <1>9, <1>10, <1>11, <1>12, <1>13,
        <1>14, <1>15, <1>16, <1>17, <1>18, <1>19, <1>20, <1>21, <1>22, <1>23
        DEF BinlogStep

(* A step of a worker preserves the account. *)
LEMMA OrderAccount ==
  ASSUME IInv, Account, NEW w \in OrderThds, OrderCommit(w) \/ OrderStep(w)
  PROVE  Account'
<1>1. UNCHANGED <<commit_low, committed>>
  BY DEF OrderStep, OrderCommit, OrderEnroll, OrderHandOver, FollowerWakes, OrderFetch,
     EnterStage, OrderLockCommit, OrderFlush, OrderGtids, OrderSignal, thdVars, engineVars
<1>2. \A u \in BinlogThds : trx'[u] = trx[u]
  BY ThdsFacts DEF OrderStep, OrderCommit, OrderEnroll, OrderHandOver, FollowerWakes,
     OrderFetch, EnterStage, OrderLockCommit, OrderFlush, OrderGtids, OrderSignal, thdVars,
     IInv, CommitTypeOK, ThdTypeOK
<1>3. \E l : Goto(w, l)
  BY DEF OrderStep, OrderCommit, OrderEnroll, EnrollFor, OrderHandOver, HandOverLead,
     FollowerWakes, OrderFetch, EnterStage, OrderLockCommit, OrderFlush, OrderGtids,
     OrderSignal, Goto
<1> QED BY <1>1, <1>2, <1>3, MoveAccount, ThdsFacts

(* Every step preserves the invariant. *)
LEMMA NextAccount ==
  ASSUME IInv, Account, [Next]_vars PROVE Account'
<1>1. CASE SetOrderCommits \/ Stop \/ UNCHANGED vars
  <2>1. SameAccount
    BY <1>1 DEF SetOrderCommits, Stop, vars, stageVars, thdVars, engineVars, SameAccount
  <2> QED BY <2>1, SameAccountStep
<1> QED BY <1>1, BinlogAccount, OrderAccount DEF Next

(* This invariant holds in every state. *)
LEMMA AccountInvariance == Spec => []Account
<1>1. Init => Account
  BY ThdsFacts DEF Init, Account, FlagInCommit, FlagIsTrue, RestIsCommitted, CommittedWasBegun,
     NoneTwice, Uncommitted, Members, Trx
<1>2. IInv /\ Account /\ [Next]_vars => Account'
  BY NextAccount
<1> QED BY <1>1, <1>2, Invariance, PTL DEF Spec

(* handle_binlog_flush_or_sync_error, process_commit_stage_queue and       *)
(* finish_commit between them commit every transaction in the engine       *)
(* exactly once before its session leaves: for any number of sessions and  *)
(* workers, with ordered commits or not, and whatever fails.               *)
THEOREM CommittedOnceHolds == Spec => []CommittedOnce
<1>1. IInv /\ Account => CommittedOnce
  <2> SUFFICES ASSUME IInv, Account PROVE Finished \subseteq Members(committed)
    BY DEF CommittedOnce, Account, NoneTwice
  <2> SUFFICES ASSUME NEW t \in BinlogThds, NEW n \in 1 .. trx[t],
                      n < trx[t] \/ pc[t] \in OutsideCommit
               PROVE  <<t, n>> \in Members(committed)
    BY DEF Finished
  <2>1. pc[t] \in OutsideCommit => ~Uncommitted(t)
    BY DEF Account, FlagInCommit, InCommit, OutsideCommit, Uncommitted
  <2> QED BY <2>1 DEF Account, RestIsCommitted
<1> QED BY <1>1, Invariance, AccountInvariance, PTL

-----------------------------------------------------------------------------
(***************************************************************************)
(* Sent is synced.                                                         *)
(***************************************************************************)

(* binlog_error_action=ABORT_SERVER, the default, or a log that never      *)
(* fails.  Otherwise the last writes to a file that failed may be sent.    *)
StopsOnError == AbortServer \/ Faults = {}

(* The log is then never closed: only a server that is going down, or      *)
(* none, is on its way to close it.                                        *)
StaysOpen ==
  /\ open
  /\ \A t \in BinlogThds :
       /\ pc[t] # "close_sync"
       /\ pc[t] = "close_flush" => server = "aborted"
       /\ Faults = {} => err[t] # "sync" /\ pc[t] # "sync_error"

SyncedIsWritten == synced <= Len(binlog) /\ SentIsSynced

Sending == StaysOpen /\ SyncedIsWritten

(* A step that has nothing to do with the file. *)
QuietLog(t, l) ==
  /\ Goto(t, l) /\ UNCHANGED <<open, binlog, synced, end_pos, server>>
  /\ l \notin {"close_flush", "close_sync", "sync_error"}
  /\ \A u \in BinlogThds : err'[u] \in {err[u], "none"}

(* A step that has nothing to do with the file. *)
LEMMA QuietLogStep ==
  ASSUME IInv, Sending, NEW t \in Thds, NEW l, QuietLog(t, l)
  PROVE  Sending'
<1>1. pc'[t] = l /\ \A u \in Thds \ {t} : pc'[u] = pc[u]
  BY DEF QuietLog, Goto, IInv, CommitTypeOK, StageTypeOK, PcTypeOK
<1>2. StaysOpen'
  BY <1>1, ThdsFacts DEF QuietLog, Sending, StaysOpen
<1>3. SyncedIsWritten'
  BY DEF QuietLog, Sending, SyncedIsWritten, SentIsSynced
<1> QED BY <1>2, <1>3 DEF Sending

(* WriteBinlog preserves the invariant. *)
LEMMA WriteSending ==
  ASSUME IInv, Sending, StopsOnError, server = "up", NEW t \in BinlogThds, WriteBinlog(t)
  PROVE  Sending'
<1>1. list[t] \in Seq(BinlogThds) /\ list[t] # << >>
  BY DEF WriteBinlog, IInv, CommitTypeOK, LeaderTypeOK, Structure, LeaderHeadsList, LeaderPcs
<1>2. PICK written \in Subsequences(list[t]), file_fails \in BOOLEAN :
        LET failed == Members(list[t]) \ Members(written)
            fails == FlushFails(written, file_fails)
        IN  /\ failed # {} => "flush_member" \in Faults
            /\ file_fails => "flush_file" \in Faults
            /\ binlog' = binlog \o TrxSeq(written)
            /\ err' = [err EXCEPT ![t] = IF fails THEN "flush" ELSE "none"]
            /\ end_pos' = EndPosAfterFlush(fails, Len(binlog'))
            /\ server' = IF fails /\ AbortServer THEN "aborted" ELSE server
            /\ Goto(t, IF fails THEN "close_flush" ELSE "to_sync")
  BY DEF WriteBinlog, FlushThreadCaches
<1> DEFINE fails == FlushFails(written, file_fails)
<1>3. fails => Faults # {}
  <2>1. list[t][1] \in Members(list[t])
    BY <1>1, EmptySeq, LenProperties DEF Members
  <2>2. written = << >> => Members(written) = {}
    BY DEF Members
  <2> QED BY <1>2, <2>1, <2>2 DEF FlushFails
<1>4. UNCHANGED <<open, synced>>
  BY DEF WriteBinlog
<1>5. /\ Goto(t, IF fails THEN "close_flush" ELSE "to_sync")
      /\ server' = IF fails /\ AbortServer THEN "aborted" ELSE server
      /\ err' = [err EXCEPT ![t] = IF fails THEN "flush" ELSE "none"]
      /\ end_pos' = EndPosAfterFlush(fails, Len(binlog'))
  BY <1>2
<1> HIDE DEF fails
<1>6. /\ pc'[t] = (IF fails THEN "close_flush" ELSE "to_sync")
      /\ \A u \in Thds \ {t} : pc'[u] = pc[u]
  BY <1>5, ThdsFacts DEF Goto, IInv, CommitTypeOK, StageTypeOK, PcTypeOK
<1>7. /\ err'[t] # "sync" /\ \A u \in Thds \ {t} : err'[u] = err[u]
  BY <1>5, ThdsFacts DEF IInv, CommitTypeOK, LeaderTypeOK
<1>8. fails => server' = "aborted"
  BY <1>3, <1>5 DEF StopsOnError
<1>9. StaysOpen'
  BY <1>4, <1>5, <1>6, <1>7, <1>8, ThdsFacts DEF Sending, StaysOpen
<1>10. synced <= Len(binlog')
  <2>1. written \in Seq(BinlogThds)
    BY <1>1, SubsequenceFacts
  <2>2. TrxSeq(written) \in Seq(Trxs) /\ binlog \in Seq(Trxs)
    BY <2>1, TrxSeqType DEF IInv, CommitTypeOK, LogTypeOK
  <2>3. Len(binlog') = Len(binlog) + Len(TrxSeq(written))
    BY <1>2, <2>2, ConcatProperties
  <2> QED BY <2>2, <2>3, LenProperties DEF Sending, SyncedIsWritten, IInv, CommitTypeOK, LogTypeOK
<1>11. SyncedIsWritten'
  BY <1>4, <1>5, <1>10 DEF EndPosAfterFlush, Sending, SyncedIsWritten, SentIsSynced
<1> QED BY <1>9, <1>11 DEF Sending

(* SyncBinlog preserves the invariant. *)
LEMMA SyncSending ==
  ASSUME IInv, Sending, NEW t \in BinlogThds, SyncBinlog(t)
  PROVE  Sending'
<1>1. PICK fails \in BOOLEAN :
        /\ fails => "sync" \in Faults
        /\ synced' = IF DoSync(t) /\ open /\ ~fails THEN Len(binlog) ELSE synced
        /\ err' = IF fails THEN [err EXCEPT ![t] = "sync"] ELSE err
        /\ IF SyncPeriod = 1 /\ err[t] = "none" /\ ~fails
           THEN EndPosAfterSync(list[t])
           ELSE UNCHANGED end_pos
        /\ Goto(t, IF order_commits /\ ~(fails /\ AbortServer) THEN "to_commit" ELSE "after_sync")
  BY DEF SyncBinlog
<1>2. UNCHANGED <<open, binlog, server>>
  BY DEF SyncBinlog, otherVars
<1>3. /\ pc'[t] \in {"to_commit", "after_sync"}
      /\ \A u \in Thds \ {t} : pc'[u] = pc[u]
  BY <1>1, ThdsFacts DEF Goto, IInv, CommitTypeOK, StageTypeOK, PcTypeOK
<1>4. Faults = {} => err' = err
  BY <1>1
<1>5. StaysOpen'
  BY <1>2, <1>3, <1>4, ThdsFacts DEF Sending, StaysOpen
<1>6. /\ synced \in Nat /\ end_pos \in Nat /\ Len(binlog) \in Nat /\ sync_counter \in Nat
      /\ DOMAIN binlog = 1 .. Len(binlog)
  BY LenProperties DEF IInv, CommitTypeOK, LogTypeOK
<1>7. synced' \in Nat /\ synced <= synced' /\ synced' <= Len(binlog)
  BY <1>1, <1>6 DEF Sending, SyncedIsWritten
<1>8. ASSUME SyncPeriod = 1, err[t] = "none", ~fails PROVE end_pos' <= synced'
  <2>1. synced' = Len(binlog)
    BY <1>1, <1>6, <1>8 DEF DoSync, Sending, StaysOpen
  <2>2. end_pos <= Len(binlog)
    BY <1>6, <1>8 DEF Sending, SyncedIsWritten, SentIsSynced
  <2>3. end_pos' \in DOMAIN binlog \cup {end_pos}
    BY <1>1, <1>8 DEF EndPosAfterSync, TrxPositions
  <2> QED BY <1>6, <2>1, <2>2, <2>3
<1>9. SentIsSynced'
  BY <1>1, <1>6, <1>7, <1>8 DEF Sending, SyncedIsWritten, SentIsSynced
<1> QED BY <1>2, <1>5, <1>7, <1>9 DEF Sending, SyncedIsWritten

(* A hook preserves the invariant. *)
LEMMA HookSending ==
  ASSUME IInv, Sending, NEW t \in BinlogThds, AfterSyncHook(t) \/ AfterCommit(t)
  PROVE  Sending'
<1>1. PICK l \in {"commit", "sync_error", "signal"} :
        Goto(t, l) /\ (l = "sync_error" => err'[t] = "sync")
  BY DEF AfterSyncHook, AfterCommit, leaderVars
<1>2. UNCHANGED <<open, binlog, synced, end_pos, server>>
  BY DEF AfterSyncHook, AfterCommit, logVars, otherVars
<1>3. Faults = {} => err' = err
  BY DEF AfterSyncHook, AfterCommit, leaderVars
<1>4. pc'[t] = l /\ \A u \in Thds \ {t} : pc'[u] = pc[u]
  BY <1>1, ThdsFacts DEF Goto, IInv, CommitTypeOK, StageTypeOK, PcTypeOK
<1>5. StaysOpen'
  BY <1>1, <1>2, <1>3, <1>4, ThdsFacts DEF Sending, StaysOpen
<1> QED BY <1>2, <1>5 DEF Sending, SyncedIsWritten, SentIsSynced

(* A step of a binlog session preserves the invariant. *)
LEMMA BinlogSending ==
  ASSUME IInv, Sending, StopsOnError, server = "up", NEW t \in BinlogThds,
         Prepare(t) \/ FlushLogs(t) \/ BinlogStep(t)
  PROVE  Sending'
<1> USE ThdsFacts
<1> DEFINE Quiet == \E l : QuietLog(t, l)
<1>1. ASSUME Quiet PROVE Sending'
  BY <1>1, QuietLogStep
<1> HIDE DEF Quiet
<1>2. CASE Prepare(t) \/ FlushLogs(t)
  <2>1. QuietLog(t, "prepared") \/ QuietLog(t, "rotate")
    BY <1>2 DEF Prepare, FlushLogs, RequestRotation, QuietLog, logVars, otherVars, leaderVars
  <2> QED BY <1>1, <2>1 DEF Quiet
<1>3. CASE OrderedCommit(t)
  <2>1. QuietLog(t, EnrolledAs("BINLOG_FLUSH"))
    BY <1>3 DEF OrderedCommit, EnrollFor, Goto, QuietLog, logVars, otherVars,
       EnrolledAs, IInv, CommitTypeOK, LeaderTypeOK
  <2> QED BY <1>1, <2>1 DEF Quiet
<1>4. CASE BinlogLeader(t)
  <2>1. QuietLog(t, "BINLOG_FLUSH")
    BY <1>4 DEF BinlogLeader, BinlogLeaderWakes, Goto, QuietLog, logVars, otherVars, leaderVars
  <2> QED BY <1>1, <2>1 DEF Quiet
<1>5. CASE EnterFlush(t)
  <2>1. QuietLog(t, "flush_engine") \/ QuietLog(t, "to_commit_closed")
    BY <1>5 DEF EnterFlush, QuietLog, logVars, otherVars
  <2> QED BY <1>1, <2>1 DEF Quiet
<1>6. CASE FlushEngine(t)
  <2>1. QuietLog(t, "order_done") \/ QuietLog(t, "write")
    BY <1>6 DEF FlushEngine, QuietLog, logVars, otherVars, leaderVars
  <2> QED BY <1>1, <2>1 DEF Quiet
<1>7. CASE FinishOrderList(t)
  <2>1. QuietLog(t, "write") \/ QuietLog(t, "to_commit_closed")
    BY <1>7 DEF FinishOrderList, QuietLog, logVars, otherVars
  <2> QED BY <1>1, <2>1 DEF Quiet
<1>8. CASE WriteBinlog(t)
  BY <1>8, WriteSending
<1>9. CASE CloseBinlog(t)
  BY <1>9 DEF CloseBinlog, Sending, StaysOpen
<1>10. CASE LeaveFlush(t) \/ LeaveSync(t) \/ LeaveCommit(t)
  <2>1. PICK s \in {"SYNC", "COMMIT", "AFTER_COMMIT"}, m \in Mutexes : ChangeStage(t, s, m)
    BY <1>10 DEF LeaveFlush, LeaveSync, LeaveCommit, Mutexes
  <2>2. EnrolledAs(s) \in {s, "follow"}
    BY DEF EnrolledAs
  <2>3. QuietLog(t, EnrolledAs(s))
    BY <2>1, <2>2 DEF ChangeStage, EnrollFor, Goto, QuietLog, logVars, otherVars
  <2> QED BY <1>1, <2>3 DEF Quiet
<1>11. CASE LeaveClosedFlush(t)
  <2>1. EnrolledAs("COMMIT") \in {"COMMIT", "follow"}
    BY DEF EnrolledAs
  <2>2. QuietLog(t, EnrolledAs("COMMIT")) \/ QuietLog(t, "after_sync")
    BY <1>11, <2>1 DEF LeaveClosedFlush, ChangeStage, EnrollFor, Goto, QuietLog, logVars,
       otherVars, leaderVars
  <2> QED BY <1>1, <2>2 DEF Quiet
<1>12. CASE EnterSync(t) \/ EnterCommit(t) \/ EnterAfterCommit(t)
  <2>1. QuietLog(t, "sync") \/ QuietLog(t, "commit_hook") \/ QuietLog(t, "after_commit")
    BY <1>12 DEF EnterSync, EnterCommit, EnterAfterCommit, EnterStage, QuietLog, logVars,
       otherVars
  <2> QED BY <1>1, <2>1 DEF Quiet
<1>13. CASE SyncBinlog(t)
  BY <1>13, SyncSending
<1>14. CASE AfterSyncHook(t) \/ AfterCommit(t)
  BY <1>14, HookSending
<1>15. CASE CommitNext(t)
  BY <1>15 DEF CommitNext, stageVars, leaderVars, logVars, otherVars, Sending, StaysOpen,
     SyncedIsWritten, SentIsSynced
<1>16. CASE CommitGroupDone(t)
  <2>1. QuietLog(t, "to_after_commit")
    BY <1>16 DEF CommitGroupDone, QuietLog, logVars, leaderVars
  <2> QED BY <1>1, <2>1 DEF Quiet
<1>17. CASE HandleSyncError(t)
  <2>1. AbortServer
    BY <1>17 DEF HandleSyncError, StopsOnError, Sending, StaysOpen
  <2> QED BY <1>17, <2>1 DEF HandleSyncError, leaderVars, logVars, Sending, StaysOpen,
          SyncedIsWritten, SentIsSynced
<1>18. CASE Signal(t) \/ FollowerWakes(t)
  <2>1. QuietLog(t, "finish")
    BY <1>18 DEF Signal, FollowerWakes, QuietLog, logVars, otherVars, leaderVars
  <2> QED BY <1>1, <2>1 DEF Quiet
<1>19. CASE FinishInEngine(t)
  <2>1. QuietLog(t, "finish_low")
    BY <1>19 DEF FinishInEngine, QuietLog, logVars, otherVars, leaderVars
  <2> QED BY <1>1, <2>1 DEF Quiet
<1>20. CASE FinishCommit(t)
  <2>1. QuietLog(t, "idle") \/ QuietLog(t, "rotate")
    BY <1>20 DEF FinishCommit, RequestRotation, QuietLog, logVars
  <2> QED BY <1>1, <2>1 DEF Quiet
<1>21. CASE RotateLock(t)
  <2>1. QuietLog(t, "idle") \/ QuietLog(t, "rotate_wait")
    BY <1>21 DEF RotateLock, QuietLog, logVars, otherVars, leaderVars
  <2> QED BY <1>1, <2>1 DEF Quiet
<1>22. CASE WaitForPrepXids(t)
  <2>1. QuietLog(t, "new_file")
    BY <1>22 DEF WaitForPrepXids, QuietLog, logVars, otherVars, leaderVars
  <2> QED BY <1>1, <2>1 DEF Quiet
<1>23. CASE NewFile(t)
  <2>1. pc'[t] = "idle" /\ \A u \in Thds \ {t} : pc'[u] = pc[u]
    BY <1>23 DEF NewFile, Goto, IInv, CommitTypeOK, StageTypeOK, PcTypeOK
  <2>2. StaysOpen'
    BY <1>23, <2>1 DEF NewFile, leaderVars, otherVars, Sending, StaysOpen
  <2>3. Len(binlog) \in Nat
    BY LenProperties DEF IInv, CommitTypeOK, LogTypeOK
  <2> QED BY <1>23, <2>2, <2>3 DEF NewFile, Sending, SyncedIsWritten, SentIsSynced
<1> QED BY <1>2, <1>3, <1>4, <1>5, <1>6, <1>7, <1>8, <1>9, <1>10, <1>11, <1>12, <1>13,
        <1>14, <1>15, <1>16, <1>17, <1>18, <1>19, <1>20, <1>21, <1>22, <1>23
        DEF BinlogStep

(* A step of a worker preserves the invariant. *)
LEMMA OrderSending ==
  ASSUME IInv, Sending, NEW w \in OrderThds, OrderCommit(w) \/ OrderStep(w)
  PROVE  Sending'
<1>1. UNCHANGED <<open, binlog, synced, end_pos, server, err>>
  BY DEF OrderStep, OrderCommit, OrderEnroll, OrderHandOver, FollowerWakes, OrderFetch,
     EnterStage, OrderLockCommit, OrderFlush, OrderGtids, OrderSignal, logVars, otherVars,
     leaderVars
<1>2. \E l : Goto(w, l)
  BY DEF OrderStep, OrderCommit, OrderEnroll, EnrollFor, OrderHandOver, HandOverLead,
     FollowerWakes, OrderFetch, EnterStage, OrderLockCommit, OrderFlush, OrderGtids,
     OrderSignal, Goto
<1>3. \A u \in BinlogThds : pc'[u] = pc[u]
  BY <1>2, ThdsFacts DEF Goto, IInv, CommitTypeOK, StageTypeOK, PcTypeOK
<1> QED BY <1>1, <1>3 DEF Sending, StaysOpen, SyncedIsWritten, SentIsSynced

(* This invariant holds in every state. *)
LEMMA SendingInvariance ==
  ASSUME StopsOnError PROVE Spec => []Sending
<1>1. Init => Sending
  BY DEF Init, Sending, StaysOpen, SyncedIsWritten, SentIsSynced, Thds
<1>2. IInv /\ Sending /\ [Next]_vars => Sending'
  <2> SUFFICES ASSUME IInv, Sending, [Next]_vars PROVE Sending'
    OBVIOUS
  <2>1. CASE SetOrderCommits \/ Stop \/ UNCHANGED vars
    BY <2>1 DEF SetOrderCommits, Stop, vars, stageVars, leaderVars, logVars, otherVars,
       Sending, StaysOpen, SyncedIsWritten, SentIsSynced
  <2> QED BY <2>1, BinlogSending, OrderSending DEF Next
<1> QED BY <1>1, <1>2, Invariance, PTL DEF Spec

(* update_binlog_end_pos is called only behind sync_binlog_file when every *)
(* group is synced: with sync_binlog=1 a dump thread never sends what a    *)
(* crash of this server could lose, for any sessions, workers and groups,  *)
(* if a failing log stops the server.                                      *)
THEOREM SentIsSyncedHolds ==
  ASSUME StopsOnError PROVE Spec => []SentIsSynced
<1>1. Sending => SentIsSynced
  BY DEF Sending, SyncedIsWritten
<1> QED BY <1>1, SendingInvariance, PTL

-----------------------------------------------------------------------------
(***************************************************************************)
(* Queues and lists.                                                       *)
(***************************************************************************)

(* A server without applier workers that commit in order with no binary    *)
(* log: with them, the hand-over of the lead lets a session go while it is *)
(* still linked (the run of LeadHandOver.cfg).                             *)
NoOrderWorkers == OrderThds = {}

(* The places a session can be linked in: a queue, or the list of a leader. *)
Places == ({"queue"} \X Stages) \cup ({"list"} \X BinlogThds)

Held ==
  [p \in Places |->
     IF p[1] = "queue" THEN queue[p[2]]
     ELSE IF pc[p[2]] \in LeaderPcs THEN list[p[2]] ELSE << >>]

(* No element occurs twice, in one of the sequences of H or in two. *)
Once(H) ==
  \A p, q \in DOMAIN H : \A i \in DOMAIN H[p], j \in DOMAIN H[q] :
    H[p][i] = H[q][j] => p = q /\ i = j

(* A session u whose code is at c leads what is held at p. *)
Leads(c, u, p) == IF p[1] = "queue" THEN c \in {p[2], "wait_leader"} ELSE u = p[2]

(* Whoever is linked waits for its leader, unless it is the leader. *)
Asleep ==
  \A p \in Places : \A i \in DOMAIN Held[p] :
    pending[Held[p][i]] /\ (pc[Held[p][i]] = "follow" \/ Leads(pc[Held[p][i]], Held[p][i], p))

Linked == Once(Held) /\ Asleep

(* The elements of a concatenation. *)
LEMMA ConcatIndex ==
  ASSUME NEW S, NEW a \in Seq(S), NEW b \in Seq(S)
  PROVE  /\ a \o b \in Seq(S) /\ Len(a) \in Nat /\ Len(b) \in Nat
         /\ DOMAIN a = 1 .. Len(a) /\ DOMAIN b = 1 .. Len(b)
         /\ DOMAIN (a \o b) = 1 .. (Len(a) + Len(b))
         /\ \A i \in 1 .. Len(a) : (a \o b)[i] = a[i]
         /\ \A i \in (Len(a) + 1) .. (Len(a) + Len(b)) :
              (a \o b)[i] = b[i - Len(a)] /\ i - Len(a) \in 1 .. Len(b)
<1>1. /\ a \o b \in Seq(S) /\ Len(a \o b) = Len(a) + Len(b)
      /\ \A i \in 1 .. (Len(a) + Len(b)) :
           (a \o b)[i] = IF i <= Len(a) THEN a[i] ELSE b[i - Len(a)]
  BY ConcatProperties
<1>2. Len(a) \in Nat /\ Len(b) \in Nat /\ DOMAIN a = 1 .. Len(a) /\ DOMAIN b = 1 .. Len(b)
  BY LenProperties
<1> QED BY <1>1, <1>2, LenProperties

(* Moving everything at p to the end of what is at q. *)
LEMMA MoveOnce ==
  ASSUME NEW H \in [Places -> Seq(BinlogThds)], NEW G \in [Places -> Seq(BinlogThds)],
         NEW p \in Places, NEW q \in Places, p # q,
         G[q] = H[q] \o H[p], G[p] = << >>,
         \A r \in Places \ {p, q} : G[r] = H[r], Once(H)
  PROVE  /\ Once(G)
         /\ \A i \in DOMAIN G[q] :
              \/ \E k \in DOMAIN H[q] : G[q][i] = H[q][k]
              \/ \E k \in DOMAIN H[p] : G[q][i] = H[p][k]
<1> DEFINE m == Len(H[q])
<1>1. /\ m \in Nat /\ Len(H[p]) \in Nat
      /\ DOMAIN H[q] = 1 .. m /\ DOMAIN H[p] = 1 .. Len(H[p])
      /\ DOMAIN G[q] = 1 .. (m + Len(H[p]))
      /\ \A i \in 1 .. m : G[q][i] = H[q][i]
      /\ \A i \in (m + 1) .. (m + Len(H[p])) :
           G[q][i] = H[p][i - m] /\ i - m \in 1 .. Len(H[p])
  BY ConcatIndex
<1>2. DOMAIN G[p] = {} /\ DOMAIN H = Places /\ DOMAIN G = Places
  OBVIOUS
<1> HIDE DEF m
<1>0. \A r, s \in Places : \A i \in DOMAIN H[r], j \in DOMAIN H[s] :
        H[r][i] = H[s][j] => r = s /\ i = j
  BY <1>2 DEF Once
<1>3. \A i \in DOMAIN G[q] :
        \/ i \in 1 .. m /\ i \in DOMAIN H[q] /\ G[q][i] = H[q][i]
        \/ i > m /\ i \in Nat /\ i - m \in DOMAIN H[p] /\ G[q][i] = H[p][i - m]
  BY <1>1
<1>4. ASSUME NEW i \in DOMAIN G[q], NEW j \in DOMAIN G[q], G[q][i] = G[q][j] PROVE i = j
  <2>1. CASE i \in 1 .. m /\ j \in 1 .. m
    <3>1. H[q][i] = H[q][j] /\ i \in DOMAIN H[q] /\ j \in DOMAIN H[q]
      BY <1>1, <1>4, <2>1
    <3> QED BY <3>1, <1>0
  <2>2. CASE i > m /\ j > m
    <3>1. H[p][i - m] = H[p][j - m] /\ i - m \in DOMAIN H[p] /\ j - m \in DOMAIN H[p]
      BY <1>1, <1>3, <1>4, <2>2, SMTT(40)
    <3>2. i - m = j - m
      BY <3>1, <1>0
    <3> QED BY <3>2, <1>1, <1>3, <2>2
  <2>3. CASE i \in 1 .. m /\ j > m
    <3>1. H[q][i] = H[p][j - m] /\ i \in DOMAIN H[q] /\ j - m \in DOMAIN H[p]
      BY <1>1, <1>3, <1>4, <2>3, SMTT(40)
    <3> QED BY <3>1, <1>0
  <2>4. CASE i > m /\ j \in 1 .. m
    <3>1. H[p][i - m] = H[q][j] /\ i - m \in DOMAIN H[p] /\ j \in DOMAIN H[q]
      BY <1>1, <1>3, <1>4, <2>4, SMTT(40)
    <3> QED BY <3>1, <1>0
  <2> QED BY <1>1, <1>3, <2>1, <2>2, <2>3, <2>4
<1>5. ASSUME NEW r \in Places \ {p, q}, NEW i \in DOMAIN G[r], NEW j \in DOMAIN G[q]
      PROVE  G[r][i] # G[q][j]
  BY <1>0, <1>3, <1>5
<1>6. ASSUME NEW r \in Places \ {p, q}, NEW s \in Places \ {p, q},
             NEW i \in DOMAIN G[r], NEW j \in DOMAIN G[s], G[r][i] = G[s][j]
      PROVE  r = s /\ i = j
  BY <1>0, <1>6
<1>7. Once(G)
  <2> SUFFICES ASSUME NEW r \in Places, NEW s \in Places, NEW i \in DOMAIN G[r], NEW j \in DOMAIN G[s],
                      G[r][i] = G[s][j]
               PROVE  r = s /\ i = j
    BY <1>2 DEF Once
  <2>1. r # p /\ s # p
    BY <1>2
  <2>2. CASE r = q /\ s = q
    BY <2>2, <1>4
  <2>3. CASE r = q /\ s # q
    BY <2>1, <2>3, <1>5
  <2>4. CASE r # q /\ s = q
    BY <2>1, <2>4, <1>5
  <2>5. CASE r # q /\ s # q
    BY <2>1, <2>5, <1>6
  <2> QED BY <2>2, <2>3, <2>4, <2>5
<1> QED BY <1>3, <1>7

(* Putting a session that is nowhere else at the end of q. *)
LEMMA AddOnce ==
  ASSUME NEW H \in [Places -> Seq(BinlogThds)], NEW G \in [Places -> Seq(BinlogThds)],
         NEW q \in Places, NEW x \in BinlogThds, G[q] = H[q] \o <<x>>,
         \A r \in Places \ {q} : G[r] = H[r], Once(H),
         \A r \in Places : \A i \in DOMAIN H[r] : H[r][i] # x
  PROVE  /\ Once(G)
         /\ \A i \in DOMAIN G[q] : G[q][i] = x \/ \E k \in DOMAIN H[q] : G[q][i] = H[q][k]
<1> DEFINE m == Len(H[q])
<1>1. /\ m \in Nat /\ DOMAIN H[q] = 1 .. m
      /\ DOMAIN G[q] = 1 .. (m + 1)
      /\ \A i \in 1 .. m : G[q][i] = H[q][i]
      /\ G[q][m + 1] = x
  BY ConcatIndex, ShortSeqs
<1>2. DOMAIN H = Places /\ DOMAIN G = Places
  OBVIOUS
<1> HIDE DEF m
<1>0. \A r, s \in Places : \A i \in DOMAIN H[r], j \in DOMAIN H[s] :
        H[r][i] = H[s][j] => r = s /\ i = j
  BY <1>2 DEF Once
<1>3. \A i \in DOMAIN G[q] :
        \/ i \in 1 .. m /\ i \in DOMAIN H[q] /\ G[q][i] = H[q][i]
        \/ i = m + 1 /\ G[q][i] = x
  BY <1>1
<1>4. ASSUME NEW i \in DOMAIN G[q], NEW j \in DOMAIN G[q], G[q][i] = G[q][j] PROVE i = j
  <2>1. CASE i \in 1 .. m /\ j \in 1 .. m
    <3>1. H[q][i] = H[q][j] /\ i \in DOMAIN H[q] /\ j \in DOMAIN H[q]
      BY <1>1, <1>4, <2>1
    <3> QED BY <3>1, <1>0
  <2>2. CASE i = m + 1 \/ j = m + 1
    <3>1. \A k \in 1 .. m : G[q][k] # x
      BY <1>1
    <3> QED BY <1>1, <1>3, <1>4, <2>2, <3>1
  <2> QED BY <1>3, <2>1, <2>2
<1>5. ASSUME NEW r \in Places \ {q}, NEW i \in DOMAIN G[r], NEW j \in DOMAIN G[q]
      PROVE  G[r][i] # G[q][j]
  BY <1>0, <1>3, <1>5
<1>6. ASSUME NEW r \in Places \ {q}, NEW s \in Places \ {q},
             NEW i \in DOMAIN G[r], NEW j \in DOMAIN G[s], G[r][i] = G[s][j]
      PROVE  r = s /\ i = j
  BY <1>0, <1>6
<1>7. Once(G)
  <2> SUFFICES ASSUME NEW r \in Places, NEW s \in Places, NEW i \in DOMAIN G[r], NEW j \in DOMAIN G[s],
                      G[r][i] = G[s][j]
               PROVE  r = s /\ i = j
    BY <1>2 DEF Once
  <2>2. CASE r = q /\ s = q
    BY <2>2, <1>4
  <2>3. CASE r = q /\ s # q
    BY <2>3, <1>5
  <2>4. CASE r # q /\ s = q
    BY <2>4, <1>5
  <2>5. CASE r # q /\ s # q
    BY <2>5, <1>6
  <2> QED BY <2>2, <2>3, <2>4, <2>5
<1> QED BY <1>3, <1>7

(* Taking away everything at p. *)
LEMMA DropOnce ==
  ASSUME NEW H \in [Places -> Seq(BinlogThds)], NEW G \in [Places -> Seq(BinlogThds)], NEW p \in Places,
         G[p] = << >>, \A r \in Places \ {p} : G[r] = H[r], Once(H)
  PROVE  Once(G)
<1>1. DOMAIN H = Places /\ DOMAIN G = Places /\ DOMAIN G[p] = {}
  OBVIOUS
<1>0. \A r, s \in Places : \A i \in DOMAIN H[r], j \in DOMAIN H[s] :
        H[r][i] = H[s][j] => r = s /\ i = j
  BY <1>1 DEF Once
<1> SUFFICES ASSUME NEW r \in Places, NEW s \in Places, NEW i \in DOMAIN G[r], NEW j \in DOMAIN G[s],
                    G[r][i] = G[s][j]
             PROVE  r = s /\ i = j
  BY <1>1 DEF Once
<1>2. r # p /\ s # p
  BY <1>1
<1> QED BY <1>0, <1>2

(* A place is a queue or a list. *)
LEMMA PlaceCases ==
  /\ \A s \in Stages : /\ <<"queue", s>> \in Places
                       /\ <<"queue", s>>[1] = "queue" /\ <<"queue", s>>[2] = s
  /\ \A t \in BinlogThds : /\ <<"list", t>> \in Places
                           /\ <<"list", t>>[1] = "list" /\ <<"list", t>>[2] = t
  /\ \A p \in Places : \/ \E s \in Stages : p = <<"queue", s>>
                       \/ \E t \in BinlogThds : p = <<"list", t>>
  /\ \A s \in Stages, t \in BinlogThds : <<"queue", s>> # <<"list", t>>
BY DEF Places

(* Without workers every session is a binlog session. *)
LEMMA NoWorkerFacts ==
  ASSUME NoOrderWorkers
  PROVE  Thds = BinlogThds /\ \A s \in Seq(OrderThds) : s = << >>
<1>1. Thds = BinlogThds
  BY DEF NoOrderWorkers, Thds
<1>2. ASSUME NEW s \in Seq(OrderThds) PROVE s = << >>
  <2>1. Len(s) \in Nat /\ \A i \in 1 .. Len(s) : s[i] \in {}
    BY ElementOfSeq, LenProperties DEF NoOrderWorkers
  <2>2. Len(s) = 0
    BY <2>1
  <2> QED BY <2>2, EmptySeq
<1> QED BY <1>1, <1>2

(* What each place holds, from the types. *)
LEMMA HeldFacts ==
  ASSUME NoOrderWorkers, QueueTypeOK, LeaderTypeOK
  PROVE  /\ Held \in [Places -> Seq(BinlogThds)]
         /\ \A s \in Stages : Held[<<"queue", s>>] = queue[s]
         /\ \A t \in BinlogThds :
              Held[<<"list", t>>] = IF pc[t] \in LeaderPcs THEN list[t] ELSE << >>
<1>1. \A s \in Stages : queue[s] \in Seq(BinlogThds)
  BY NoWorkerFacts, ShortSeqs DEF QueueTypeOK, Stages
<1>2. \A t \in BinlogThds : list[t] \in Seq(BinlogThds)
  BY DEF LeaderTypeOK
<1>3. \A s \in Stages : Held[<<"queue", s>>] = queue[s]
  BY PlaceCases DEF Held
<1>4. \A t \in BinlogThds :
              Held[<<"list", t>>] = IF pc[t] \in LeaderPcs THEN list[t] ELSE << >>
  BY PlaceCases DEF Held
<1>5. ASSUME NEW p \in Places PROVE Held[p] \in Seq(BinlogThds)
  <2>1. CASE \E s \in Stages : p = <<"queue", s>>
    BY <1>1, <1>3, <2>1
  <2>2. CASE \E t \in BinlogThds : p = <<"list", t>>
    <3>1. << >> \in Seq(BinlogThds)
      OBVIOUS
    <3> QED BY <1>2, <1>4, <2>2, <3>1
  <2> QED BY <2>1, <2>2, PlaceCases
<1> DEFINE e(p) == IF p[1] = "queue" THEN queue[p[2]]
                   ELSE IF pc[p[2]] \in LeaderPcs THEN list[p[2]] ELSE << >>
<1>6. Held = [p \in Places |-> e(p)]
  BY DEF Held
<1> HIDE DEF e
<1>7. Held \in [Places -> Seq(BinlogThds)]
  BY <1>5, <1>6
<1> QED BY <1>3, <1>4, <1>7

(* The same in the next state. *)
LEMMA HeldFactsNext ==
  ASSUME NoOrderWorkers, QueueTypeOK', LeaderTypeOK'
  PROVE  /\ Held' \in [Places -> Seq(BinlogThds)]
         /\ \A s \in Stages : Held'[<<"queue", s>>] = queue'[s]
         /\ \A t \in BinlogThds :
              Held'[<<"list", t>>] = IF pc'[t] \in LeaderPcs THEN list'[t] ELSE << >>
<1>1. \A s \in Stages : queue'[s] \in Seq(BinlogThds)
  BY NoWorkerFacts, ShortSeqs DEF QueueTypeOK, Stages
<1>2. \A t \in BinlogThds : list'[t] \in Seq(BinlogThds)
  BY DEF LeaderTypeOK
<1>3. \A s \in Stages : Held'[<<"queue", s>>] = queue'[s]
  BY PlaceCases DEF Held
<1>4. \A t \in BinlogThds :
              Held'[<<"list", t>>] = IF pc'[t] \in LeaderPcs THEN list'[t] ELSE << >>
  BY PlaceCases DEF Held
<1>5. ASSUME NEW p \in Places PROVE Held'[p] \in Seq(BinlogThds)
  <2>1. CASE \E s \in Stages : p = <<"queue", s>>
    BY <1>1, <1>3, <2>1
  <2>2. CASE \E t \in BinlogThds : p = <<"list", t>>
    <3>1. << >> \in Seq(BinlogThds)
      OBVIOUS
    <3> QED BY <1>2, <1>4, <2>2, <3>1
  <2> QED BY <2>1, <2>2, PlaceCases
<1> DEFINE e(p) == IF p[1] = "queue" THEN queue'[p[2]]
                   ELSE IF pc'[p[2]] \in LeaderPcs THEN list'[p[2]] ELSE << >>
<1>6. Held' = [p \in Places |-> e(p)]
  BY DEF Held
<1> HIDE DEF e
<1>7. Held' \in [Places -> Seq(BinlogThds)]
  BY <1>5, <1>6
<1> QED BY <1>3, <1>4, <1>7

(* What is held, before a step. *)
LEMMA HeldBefore ==
  ASSUME NoOrderWorkers, IInv
  PROVE  /\ Held \in [Places -> Seq(BinlogThds)]
         /\ \A s \in Stages : Held[<<"queue", s>>] = queue[s]
         /\ \A t \in BinlogThds :
              Held[<<"list", t>>] = IF pc[t] \in LeaderPcs THEN list[t] ELSE << >>
         /\ \A p \in Places : \A i \in DOMAIN Held[p] : Held[p][i] \in BinlogThds
<1>1. QueueTypeOK /\ LeaderTypeOK
  BY DEF IInv, CommitTypeOK, StageTypeOK
<1>2. /\ Held \in [Places -> Seq(BinlogThds)]
      /\ \A s \in Stages : Held[<<"queue", s>>] = queue[s]
      /\ \A t \in BinlogThds :
           Held[<<"list", t>>] = IF pc[t] \in LeaderPcs THEN list[t] ELSE << >>
  BY <1>1, HeldFacts
<1>3. \A p \in Places : \A i \in DOMAIN Held[p] : Held[p][i] \in BinlogThds
  BY <1>2
<1> QED BY <1>2, <1>3

(* The places of a session that does not wait or lead are none. *)
LEMMA NotHeld ==
  ASSUME NoOrderWorkers, IInv, Linked, NEW t \in BinlogThds,
         pc[t] \notin LeaderPcs \cup QueueLeaderPcs, pc[t] = "follow" => ~pending[t]
  PROVE  \A p \in Places : \A i \in DOMAIN Held[p] : Held[p][i] # t
<1> SUFFICES ASSUME NEW p \in Places, NEW i \in DOMAIN Held[p], Held[p][i] = t PROVE FALSE
  OBVIOUS
<1>1. pending[t] /\ (pc[t] = "follow" \/ Leads(pc[t], t, p))
  BY DEF Linked, Asleep
<1>2. Leads(pc[t], t, p)
  BY <1>1
<1>3. CASE \E s \in Stages : p = <<"queue", s>>
  <2>1. PICK s \in Stages : p = <<"queue", s>>
    BY <1>3
  <2>2. pc[t] \in {s, "wait_leader"}
    BY <1>2, <2>1, PlaceCases DEF Leads
  <2>3. s # "COMMIT_ORDER_FLUSH"
    BY <2>1, HeldBefore, NoWorkerFacts DEF IInv, CommitTypeOK, StageTypeOK, QueueTypeOK
  <2> QED BY <2>2, <2>3 DEF QueueLeaderPcs, Stages
<1>4. CASE \E u \in BinlogThds : p = <<"list", u>>
  <2>1. p = <<"list", t>>
    BY <1>2, <1>4, PlaceCases DEF Leads
  <2> QED BY <2>1, HeldBefore
<1> QED BY <1>3, <1>4, PlaceCases

(* A leader is linked in its own list only. *)
LEMMA LeaderHeld ==
  ASSUME NoOrderWorkers, IInv, Linked, NEW t \in BinlogThds, pc[t] \in LeaderPcs,
         NEW p \in Places, NEW i \in DOMAIN Held[p], Held[p][i] = t
  PROVE  p = <<"list", t>>
<1>1. pc[t] # "follow" /\ pc[t] \notin Stages \cup {"wait_leader"}
  BY DEF LeaderPcs, Stages
<1>2. Leads(pc[t], t, p)
  BY <1>1 DEF Linked, Asleep
<1> QED BY <1>1, <1>2, PlaceCases DEF Leads

(* What each place holds in the next state. *)
LEMMA HeldAfter ==
  ASSUME NoOrderWorkers, IInv'
  PROVE  /\ Held' \in [Places -> Seq(BinlogThds)]
         /\ \A s \in Stages : Held'[<<"queue", s>>] = queue'[s]
         /\ \A t \in BinlogThds :
              Held'[<<"list", t>>] = IF pc'[t] \in LeaderPcs THEN list'[t] ELSE << >>
<1>1. QueueTypeOK' /\ LeaderTypeOK'
  BY DEF IInv, CommitTypeOK, StageTypeOK
<1> QED BY <1>1, HeldFactsNext

(* A step of a leader that stays one, or of a session that is not linked, *)
(* which leaves the queues, the lists and the flags alone.                *)
InPlace(t, l) ==
  /\ Goto(t, l) /\ UNCHANGED <<queue, pending>>
  /\ \A u \in BinlogThds : u # t \/ l \in LeaderPcs => list'[u] = list[u]
  /\ \/ pc[t] \in LeaderPcs /\ l \in LeaderPcs
     \/ /\ pc[t] \notin LeaderPcs \cup QueueLeaderPcs /\ l \notin LeaderPcs
        /\ pc[t] = "follow" => ~pending[t]

(* Nobody moves: a session goes on with what it has. *)
LEMMA InPlaceStep ==
  ASSUME NoOrderWorkers, IInv, IInv', Linked, NEW t \in BinlogThds, NEW l, InPlace(t, l)
  PROVE  Held' = Held /\ Linked'
<1>1. pc'[t] = l /\ \A u \in BinlogThds \ {t} : pc'[u] = pc[u]
  BY ThdsFacts DEF InPlace, Goto, IInv, CommitTypeOK, StageTypeOK, PcTypeOK
<1>2. \A s \in Stages : Held'[<<"queue", s>>] = Held[<<"queue", s>>]
  BY HeldBefore, HeldAfter DEF InPlace
<1>3. ASSUME NEW u \in BinlogThds PROVE Held'[<<"list", u>>] = Held[<<"list", u>>]
  <2>1. CASE u = t
    BY <1>1, <2>1, HeldBefore, HeldAfter DEF InPlace
  <2>2. CASE u # t
    BY <1>1, <2>2, HeldBefore, HeldAfter DEF InPlace
  <2> QED BY <2>1, <2>2
<1>4. \A p \in Places : Held'[p] = Held[p]
  BY <1>2, <1>3, PlaceCases
<1>5. Held' = Held
  <2>1. Held \in [Places -> Seq(BinlogThds)] /\ Held' \in [Places -> Seq(BinlogThds)]
    BY HeldBefore, HeldAfter
  <2> QED BY <1>4, <2>1
<1>6. Asleep'
  <2> SUFFICES ASSUME NEW p \in Places, NEW i \in DOMAIN Held[p]
               PROVE  /\ pending'[Held[p][i]]
                      /\ pc'[Held[p][i]] = "follow" \/ Leads(pc'[Held[p][i]], Held[p][i], p)
    BY <1>5 DEF Asleep
  <2> DEFINE u == Held[p][i]
  <2>1. u \in BinlogThds /\ pending[u] /\ (pc[u] = "follow" \/ Leads(pc[u], u, p))
    BY HeldBefore DEF Linked, Asleep
  <2>2. CASE u # t
    BY <1>1, <2>1, <2>2 DEF InPlace, Leads
  <2>3. CASE u = t
    <3>1. pc[t] \in LeaderPcs
      BY <2>3, NotHeld DEF InPlace
    <3>2. p = <<"list", t>>
      BY <2>3, <3>1, LeaderHeld
    <3> QED BY <2>1, <2>3, <3>2, PlaceCases DEF InPlace, Leads
  <2> QED BY <2>2, <2>3
<1> QED BY <1>5, <1>6 DEF Linked

(* Steps that move no session and leave the queues, lists and flags alone. *)
LEMMA StillStep ==
  ASSUME NoOrderWorkers, Linked, UNCHANGED <<pc, queue, pending, list>>
  PROVE  Held' = Held /\ Linked'
<1>1. Held' = Held
  BY DEF Held
<1> QED BY <1>1 DEF Linked, Asleep, Leads

(* A leader lets go of its list. *)
LEMMA SignalStep ==
  ASSUME NoOrderWorkers, IInv, IInv', Linked, NEW t \in BinlogThds, Signal(t)
  PROVE  /\ Linked' /\ Held'[<<"list", t>>] = << >>
         /\ \A p \in Places \ {<<"list", t>>} : Held'[p] = Held[p]
<1>1. /\ pc[t] = "signal" /\ pc'[t] = "finish"
      /\ \A u \in BinlogThds \ {t} : pc'[u] = pc[u]
  BY ThdsFacts DEF Signal, Goto, IInv, CommitTypeOK, StageTypeOK, PcTypeOK
<1>2. UNCHANGED <<queue, list>>
  BY DEF Signal, leaderVars
<1>3. \A u \in BinlogThds :
        pending'[u] = (pending[u] /\ u \notin {list[t][i] : i \in DOMAIN list[t]})
  BY ThdsFacts DEF Signal, SignalDone
<1>4. Held[<<"list", t>>] = list[t] /\ Held'[<<"list", t>>] = << >>
  BY <1>1, HeldBefore, HeldAfter DEF LeaderPcs
<1>5. ASSUME NEW p \in Places \ {<<"list", t>>} PROVE Held'[p] = Held[p]
  <2>1. CASE \E s \in Stages : p = <<"queue", s>>
    BY <1>2, <2>1, HeldBefore, HeldAfter
  <2>2. CASE \E u \in BinlogThds : p = <<"list", u>>
    BY <1>1, <1>2, <2>2, HeldBefore, HeldAfter, ZenonT(40)
  <2> QED BY <2>1, <2>2, PlaceCases
<1>6. Once(Held')
  BY <1>4, <1>5, HeldBefore, HeldAfter, PlaceCases, DropOnce DEF Linked
<1>7. Asleep'
  <2> SUFFICES ASSUME NEW p \in Places, NEW i \in DOMAIN Held'[p]
               PROVE  /\ pending'[Held'[p][i]]
                      /\ pc'[Held'[p][i]] = "follow" \/ Leads(pc'[Held'[p][i]], Held'[p][i], p)
    BY DEF Asleep
  <2>1. p # <<"list", t>>
    BY <1>4
  <2> DEFINE u == Held[p][i]
  <2>2. Held'[p] = Held[p] /\ i \in DOMAIN Held[p] /\ Held'[p][i] = u
    BY <1>5, <2>1
  <2>3. u \in BinlogThds /\ pending[u] /\ (pc[u] = "follow" \/ Leads(pc[u], u, p))
    BY <2>2, HeldBefore DEF Linked, Asleep
  <2>4. u # t
    BY <2>1, <2>2, <1>1, LeaderHeld DEF LeaderPcs
  <2>5. \A j \in DOMAIN list[t] : list[t][j] # u
    <3>1. DOMAIN Held = Places
      BY HeldBefore
    <3> QED BY <1>4, <2>1, <2>2, <3>1, PlaceCases DEF Linked, Once
  <2>6. pending'[u]
    BY <1>3, <2>3, <2>5
  <2> HIDE DEF u
  <2> QED BY <1>1, <2>2, <2>3, <2>4, <2>6 DEF Leads
<1> QED BY <1>4, <1>5, <1>6, <1>7 DEF Linked

(* A session joins the queue of the flush stage. *)
LEMMA JoinStep ==
  ASSUME NoOrderWorkers, IInv, IInv', Linked, NEW t \in BinlogThds, OrderedCommit(t)
  PROVE  /\ Linked'
         /\ \A p \in Places \ {<<"queue", "BINLOG_FLUSH">>} : Held'[p] = Held[p]
         /\ \A i \in DOMAIN Held'[<<"queue", "BINLOG_FLUSH">>] :
              \/ Held'[<<"queue", "BINLOG_FLUSH">>][i] = t
              \/ \E k \in DOMAIN Held[<<"queue", "BINLOG_FLUSH">>] :
                   Held'[<<"queue", "BINLOG_FLUSH">>][i] = Held[<<"queue", "BINLOG_FLUSH">>][k]
<1> DEFINE q == <<"queue", "BINLOG_FLUSH">>
<1>1. EnrolledAs("BINLOG_FLUSH") \in {"follow", "wait_leader", "BINLOG_FLUSH"}
  BY DEF EnrolledAs
<1>2. /\ pc[t] = "prepared" /\ pc'[t] \in {"follow", "wait_leader", "BINLOG_FLUSH"}
      /\ \A u \in BinlogThds \ {t} : pc'[u] = pc[u]
  BY <1>1, ThdsFacts DEF OrderedCommit, EnrollFor, IInv, CommitTypeOK, StageTypeOK, PcTypeOK
<1>3. /\ list' = list /\ queue'["BINLOG_FLUSH"] = queue["BINLOG_FLUSH"] \o <<t>>
      /\ \A s \in Stages \ {"BINLOG_FLUSH"} : queue'[s] = queue[s]
  BY DEF OrderedCommit, EnrollFor, IInv, CommitTypeOK, StageTypeOK, QueueTypeOK, Stages
<1>4. pending'[t] /\ \A u \in BinlogThds \ {t} : pending'[u] = pending[u]
  BY ThdsFacts DEF OrderedCommit, InitThdVariables, IInv, CommitTypeOK, StageTypeOK, SyncTypeOK
<1>5. \A p \in Places : \A i \in DOMAIN Held[p] : Held[p][i] # t
  BY <1>2, NotHeld DEF LeaderPcs, QueueLeaderPcs
<1>6. "BINLOG_FLUSH" \in Stages /\ q \in Places
  BY PlaceCases DEF Stages
<1>7. Held'[q] = Held[q] \o <<t>>
  BY <1>3, <1>6, HeldBefore, HeldAfter
<1>8. ASSUME NEW p \in Places \ {q} PROVE Held'[p] = Held[p]
  <2>1. CASE \E s \in Stages : p = <<"queue", s>>
    BY <1>3, <2>1, HeldBefore, HeldAfter
  <2>2. CASE \E u \in BinlogThds : p = <<"list", u>>
    <3>1. PICK u \in BinlogThds : p = <<"list", u>>
      BY <2>2
    <3>2. pc'[u] \in LeaderPcs <=> pc[u] \in LeaderPcs
      BY <1>2 DEF LeaderPcs
    <3> QED BY <1>3, <3>1, <3>2, HeldBefore, HeldAfter
  <2> QED BY <2>1, <2>2, PlaceCases
<1>9. /\ Once(Held')
      /\ \A i \in DOMAIN Held'[q] : Held'[q][i] = t \/ \E k \in DOMAIN Held[q] : Held'[q][i] = Held[q][k]
  <2> HIDE DEF q
  <2>1. Held \in [Places -> Seq(BinlogThds)] /\ Held' \in [Places -> Seq(BinlogThds)] /\ Once(Held)
    BY HeldBefore, HeldAfter DEF Linked
  <2>2. \A p \in Places \ {q} : Held'[p] = Held[p]
    BY <1>8
  <2>3. ASSUME NEW H \in [Places -> Seq(BinlogThds)], NEW G \in [Places -> Seq(BinlogThds)],
               G[q] = H[q] \o <<t>>, \A r \in Places \ {q} : G[r] = H[r], Once(H),
               \A r \in Places : \A i \in DOMAIN H[r] : H[r][i] # t
        PROVE  /\ Once(G)
               /\ \A i \in DOMAIN G[q] :
                    G[q][i] = t \/ \E k \in DOMAIN H[q] : G[q][i] = H[q][k]
    BY <1>6, <2>3, AddOnce
  <2> QED BY <1>5, <1>7, <2>1, <2>2, <2>3
<1>10. Asleep'
  <2> SUFFICES ASSUME NEW p \in Places, NEW i \in DOMAIN Held'[p]
               PROVE  /\ pending'[Held'[p][i]]
                      /\ pc'[Held'[p][i]] = "follow" \/ Leads(pc'[Held'[p][i]], Held'[p][i], p)
    BY DEF Asleep
  <2>1. ASSUME NEW k \in DOMAIN Held[p], Held'[p][i] = Held[p][k]
        PROVE  /\ pending'[Held'[p][i]]
               /\ pc'[Held'[p][i]] = "follow" \/ Leads(pc'[Held'[p][i]], Held'[p][i], p)
    <3> DEFINE u == Held[p][k]
    <3>1. u \in BinlogThds \ {t} /\ pending[u] /\ (pc[u] = "follow" \/ Leads(pc[u], u, p))
      BY <1>5, HeldBefore DEF Linked, Asleep
    <3> HIDE DEF u
    <3>2. pending'[u] /\ (pc'[u] = "follow" \/ Leads(pc'[u], u, p))
      BY <1>2, <1>4, <3>1 DEF Leads
    <3> QED BY <2>1, <3>2 DEF u, Leads
  <2>2. CASE p # q
    BY <1>8, <2>1, <2>2
  <2>3. CASE p = q /\ Held'[p][i] = t
    BY <1>2, <1>4, <2>3 DEF Leads
  <2> QED BY <1>9, <2>1, <2>2, <2>3
<1> QED BY <1>8, <1>9, <1>10 DEF Linked

(* Everything at p is linked behind what is at q, and the leader t of p    *)
(* leads q or sleeps.                                                      *)
MovesTo(t, p, q) ==
  /\ Held'[q] = Held[q] \o Held[p] /\ Held'[p] = << >>
  /\ \A r \in Places \ {p, q} : Held'[r] = Held[r]
  /\ UNCHANGED pending /\ \A u \in BinlogThds \ {t} : pc'[u] = pc[u]
  /\ \E k \in DOMAIN Held[p] : Held[p][k] = t
  /\ \A k \in DOMAIN Held[p] : Held[p][k] # t => pc[Held[p][k]] = "follow"
  /\ pc'[t] = "follow" \/ Leads(pc'[t], t, q)

(* A place is emptied into another one. *)
LEMMA MoveStep ==
  ASSUME NoOrderWorkers, IInv, IInv', Linked, NEW t \in BinlogThds,
         NEW p \in Places, NEW q \in Places, p # q, MovesTo(t, p, q)
  PROVE  /\ Linked'
         /\ \A i \in DOMAIN Held'[q] :
              \/ \E k \in DOMAIN Held[q] : Held'[q][i] = Held[q][k]
              \/ \E k \in DOMAIN Held[p] : Held'[q][i] = Held[p][k]
<1>1. Held \in [Places -> Seq(BinlogThds)] /\ Held' \in [Places -> Seq(BinlogThds)] /\ Once(Held)
  BY HeldBefore, HeldAfter DEF Linked
<1>2. ASSUME NEW H \in [Places -> Seq(BinlogThds)], NEW G \in [Places -> Seq(BinlogThds)],
             G[q] = H[q] \o H[p], G[p] = << >>, \A r \in Places \ {p, q} : G[r] = H[r], Once(H)
      PROVE  /\ Once(G)
             /\ \A i \in DOMAIN G[q] :
                  \/ \E k \in DOMAIN H[q] : G[q][i] = H[q][k]
                  \/ \E k \in DOMAIN H[p] : G[q][i] = H[p][k]
  BY <1>2, MoveOnce, ZenonT(40)
<1>3. /\ Once(Held')
      /\ \A i \in DOMAIN Held'[q] :
           \/ \E k \in DOMAIN Held[q] : Held'[q][i] = Held[q][k]
           \/ \E k \in DOMAIN Held[p] : Held'[q][i] = Held[p][k]
  BY <1>1, <1>2 DEF MovesTo
<1>4. ASSUME NEW r \in Places \ {p}, NEW k \in DOMAIN Held[r]
      PROVE  Held[r][k] # t
  <2>1. DOMAIN Held = Places
    BY <1>1
  <2> QED BY <1>1, <2>1 DEF MovesTo, Once
<1>5. ASSUME NEW r \in Places \ {p}, NEW k \in DOMAIN Held[r], NEW u, u = Held[r][k]
      PROVE  pending'[u] /\ (pc'[u] = "follow" \/ Leads(pc'[u], u, r))
  <2>1. u \in BinlogThds \ {t} /\ pending[u] /\ (pc[u] = "follow" \/ Leads(pc[u], u, r))
    BY <1>4, <1>5, HeldBefore DEF Linked, Asleep
  <2> QED BY <2>1 DEF MovesTo
<1>6. ASSUME NEW k \in DOMAIN Held[p], NEW u, u = Held[p][k]
      PROVE  pending'[u] /\ (pc'[u] = "follow" \/ Leads(pc'[u], u, q))
  <2>1. u \in BinlogThds /\ pending[u]
    BY <1>6, HeldBefore DEF Linked, Asleep
  <2>2. CASE u = t
    BY <2>1, <2>2 DEF MovesTo
  <2>3. CASE u # t
    BY <1>6, <2>1, <2>3 DEF MovesTo
  <2> QED BY <2>2, <2>3
<1>7. Asleep'
  <2> SUFFICES ASSUME NEW r \in Places, NEW i \in DOMAIN Held'[r]
               PROVE  /\ pending'[Held'[r][i]]
                      /\ pc'[Held'[r][i]] = "follow" \/ Leads(pc'[Held'[r][i]], Held'[r][i], r)
    BY DEF Asleep
  <2>1. r # p
    BY DEF MovesTo
  <2>2. CASE r = q
    BY <1>3, <1>5, <1>6, <2>1, <2>2
  <2>3. CASE r # q
    BY <1>5, <2>1, <2>3 DEF MovesTo
  <2> QED BY <2>2, <2>3
<1> QED BY <1>3, <1>7 DEF Linked

(* A leader fetches the queue of its stage. *)
LEMMA FetchMoves ==
  ASSUME NoOrderWorkers, IInv, IInv', Linked, NEW t \in BinlogThds,
         NEW s \in Stages \ {"COMMIT_ORDER_FLUSH"}, NEW l \in LeaderPcs, pc[t] = s, Goto(t, l),
         list' = [list EXCEPT ![t] = queue[s]], queue'[s] = << >>, UNCHANGED pending,
         \A r \in Stages \ {s} : queue'[r] = queue[r]
  PROVE  MovesTo(t, <<"queue", s>>, <<"list", t>>)
<1> DEFINE p == <<"queue", s>>
           q == <<"list", t>>
<1>1. pc'[t] = l /\ \A u \in BinlogThds \ {t} : pc'[u] = pc[u]
  BY ThdsFacts DEF Goto, IInv, CommitTypeOK, StageTypeOK, PcTypeOK
<1>2. list'[t] = queue[s] /\ \A u \in BinlogThds \ {t} : list'[u] = list[u]
  BY ThdsFacts DEF IInv, CommitTypeOK, LeaderTypeOK
<1>3. s \notin LeaderPcs
  BY DEF Stages, LeaderPcs
<1>4. p \in Places /\ q \in Places
  BY PlaceCases
<1>5. Held[p] = queue[s] /\ Held[q] = << >> /\ Held'[q] = queue[s] /\ Held'[p] = << >>
  BY <1>1, <1>2, <1>3, HeldBefore, HeldAfter
<1>6. queue[s] \in Seq(BinlogThds)
  BY <1>4, <1>5, HeldBefore
<1>7. Held'[q] = Held[q] \o Held[p]
  BY <1>5, <1>6, ConcatFacts, ShortSeqs
<1>8. ASSUME NEW r \in Places \ {p, q} PROVE Held'[r] = Held[r]
  <2>1. CASE \E w \in Stages : r = <<"queue", w>>
    <3>1. PICK w \in Stages \ {s} : r = <<"queue", w>>
      BY <1>8, <2>1
    <3> QED BY <3>1, HeldBefore, HeldAfter
  <2>2. CASE \E u \in BinlogThds : r = <<"list", u>>
    <3>1. PICK u \in BinlogThds \ {t} : r = <<"list", u>>
      BY <1>8, <2>2
    <3> QED BY <1>1, <1>2, <3>1, HeldBefore, HeldAfter
  <2> QED BY <2>1, <2>2, PlaceCases
<1>9. queue[s] # << >> /\ Head(queue[s]) = t
  BY DEF IInv, Structure, StageLeader, Stages
<1>10. 1 \in DOMAIN queue[s] /\ queue[s][1] = t
  BY <1>6, <1>9, EmptySeq, LenProperties, HeadTailProperties
<1>11. ASSUME NEW k \in DOMAIN Held[p], Held[p][k] # t PROVE pc[Held[p][k]] = "follow"
  <2> DEFINE u == Held[p][k]
  <2>1. u \in BinlogThds /\ (pc[u] = "follow" \/ pc[u] \in {s, "wait_leader"})
    BY <1>4, HeldBefore, PlaceCases DEF Linked, Asleep, Leads
  <2>2. pc[u] # s
    BY <1>9, <1>11, <2>1 DEF IInv, Structure, StageLeader, Stages
  <2>3. ASSUME pc[u] = "wait_leader" PROVE FALSE
    <3> DEFINE b == queue["BINLOG_FLUSH"]
               z == <<"queue", "BINLOG_FLUSH">>
    <3>1. b # << >> /\ Head(b) = u
      BY <2>1, <2>3 DEF IInv, Structure, StageLeader
    <3>2. z \in Places /\ Held[z] = b /\ b \in Seq(BinlogThds)
      BY HeldBefore, PlaceCases DEF Stages
    <3>3. 1 \in DOMAIN Held[z] /\ Held[z][1] = u
      BY <3>1, <3>2, EmptySeq, LenProperties, HeadTailProperties
    <3>4. DOMAIN Held = Places
      BY HeldBefore
    <3>5. p = z
      BY <1>4, <3>2, <3>3, <3>4 DEF Linked, Once
    <3>6. Held[p][1] = t
      BY <1>5, <1>10
    <3> QED BY <1>11, <3>3, <3>5, <3>6
  <2> QED BY <2>1, <2>2, <2>3
<1>12. Leads(pc'[t], t, q)
  BY PlaceCases DEF Leads
<1> QED BY <1>1, <1>5, <1>7, <1>8, <1>10, <1>11, <1>12 DEF MovesTo

(* A leader hands its list over to the next stage. *)
LEMMA ChangeMoves ==
  ASSUME NoOrderWorkers, IInv, IInv', Linked, NEW t \in BinlogThds,
         NEW s \in {"SYNC", "COMMIT", "AFTER_COMMIT"}, NEW m, ChangeStage(t, s, m),
         pc[t] \in LeaderPcs
  PROVE  MovesTo(t, <<"list", t>>, <<"queue", s>>)
<1> DEFINE p == <<"list", t>>
           q == <<"queue", s>>
<1>1. EnrolledAs(s) \in {"follow", s} /\ s \in Stages
  BY DEF EnrolledAs, Stages
<1>2. /\ pc'[t] \in {"follow", s} /\ \A u \in BinlogThds \ {t} : pc'[u] = pc[u]
      /\ UNCHANGED pending
  BY <1>1, ThdsFacts DEF ChangeStage, EnrollFor, IInv, CommitTypeOK, StageTypeOK, PcTypeOK
<1>3. pc'[t] \notin LeaderPcs
  BY <1>2 DEF LeaderPcs
<1>4. \A u \in BinlogThds \ {t} : list'[u] = list[u]
  BY ThdsFacts DEF ChangeStage, IInv, CommitTypeOK, LeaderTypeOK
<1>5. queue'[s] = queue[s] \o list[t] /\ \A r \in Stages \ {s} : queue'[r] = queue[r]
  BY <1>1 DEF ChangeStage, EnrollFor, IInv, CommitTypeOK, StageTypeOK, QueueTypeOK
<1>6. p \in Places /\ q \in Places
  BY <1>1, PlaceCases
<1>7. /\ Held[p] = list[t] /\ Held[q] = queue[s]
      /\ Held'[q] = Held[q] \o Held[p] /\ Held'[p] = << >>
  BY <1>1, <1>3, <1>5, HeldBefore, HeldAfter
<1>8. ASSUME NEW r \in Places \ {p, q} PROVE Held'[r] = Held[r]
  <2>1. CASE \E w \in Stages : r = <<"queue", w>>
    BY <1>5, <1>8, <2>1, HeldBefore, HeldAfter
  <2>2. CASE \E u \in BinlogThds : r = <<"list", u>>
    <3>1. PICK u \in BinlogThds \ {t} : r = <<"list", u>>
      BY <1>8, <2>2
    <3> QED BY <1>2, <1>4, <3>1, HeldBefore, HeldAfter, ZenonT(40)
  <2> QED BY <2>1, <2>2, PlaceCases
<1>9. list[t] \in Seq(BinlogThds) /\ list[t] # << >> /\ Head(list[t]) = t
  BY DEF IInv, CommitTypeOK, LeaderTypeOK, Structure, LeaderHeadsList
<1>10. 1 \in DOMAIN Held[p] /\ Held[p][1] = t
  BY <1>7, <1>9, EmptySeq, LenProperties, HeadTailProperties
<1>11. ASSUME NEW k \in DOMAIN Held[p], Held[p][k] # t PROVE pc[Held[p][k]] = "follow"
  BY <1>6, <1>11, PlaceCases DEF Linked, Asleep, Leads
<1>12. pc'[t] = "follow" \/ Leads(pc'[t], t, q)
  BY <1>1, <1>2, PlaceCases DEF Leads
<1> QED BY <1>2, <1>7, <1>8, <1>10, <1>11, <1>12 DEF MovesTo

(* The actions that leave every queue and list as it is. *)
InPlaceAction(t) ==
  \/ Prepare(t) \/ FlushLogs(t) \/ FlushEngine(t) \/ FinishOrderList(t) \/ WriteBinlog(t)
  \/ CloseBinlog(t) \/ SyncBinlog(t) \/ (LeaveClosedFlush(t) /\ ~order_commits)
  \/ AfterSyncHook(t) \/ CommitGroupDone(t) \/ AfterCommit(t)
  \/ (HandleSyncError(t) /\ ~AbortServer) \/ FollowerWakes(t)
  \/ FinishInEngine(t) \/ FinishCommit(t)
  \/ RotateLock(t) \/ WaitForPrepXids(t) \/ NewFile(t)

StillAction(t) == CommitNext(t) \/ (HandleSyncError(t) /\ AbortServer)

FetchAction(t) == EnterFlush(t) \/ EnterSync(t) \/ EnterCommit(t) \/ EnterAfterCommit(t)

ChangeAction(t) ==
  LeaveFlush(t) \/ LeaveSync(t) \/ LeaveCommit(t) \/ (LeaveClosedFlush(t) /\ order_commits)

(* The actions in which nobody moves. *)
LEMMA InPlaceActions ==
  ASSUME NoOrderWorkers, IInv, NEW t \in BinlogThds, InPlaceAction(t)
  PROVE  \E l : InPlace(t, l)
<1> USE DEF InPlace, LeaderPcs, QueueLeaderPcs, leaderVars
<1>1. CASE Prepare(t)
  <2>1. InPlace(t, "prepared") BY <1>1 DEF Prepare
  <2> QED BY <2>1
<1>2. CASE FlushLogs(t)
  <2>1. InPlace(t, "rotate") BY <1>2 DEF FlushLogs, RequestRotation
  <2> QED BY <2>1
<1>3. CASE FlushEngine(t)
  <2>1. InPlace(t, "order_done") \/ InPlace(t, "write") BY <1>3 DEF FlushEngine
  <2> QED BY <2>1
<1>4. CASE FinishOrderList(t)
  <2>1. order_list = << >>
    BY NoWorkerFacts DEF IInv, CommitTypeOK, LeaderTypeOK
  <2>2. pending' = pending
    <3>1. pending' = [u \in Thds |-> pending[u] /\ u \notin {}]
      BY <1>4, <2>1 DEF FinishOrderList, SignalDone
    <3>2. pending \in [Thds -> BOOLEAN]
      BY DEF IInv, CommitTypeOK, StageTypeOK, SyncTypeOK
    <3>3. \A u \in Thds : (pending[u] /\ u \notin {}) = pending[u]
      BY <3>2
    <3> QED BY <3>1, <3>2, <3>3
  <2>3. InPlace(t, "write") \/ InPlace(t, "to_commit_closed")
    BY <1>4, <2>2 DEF FinishOrderList
  <2> QED BY <2>3
<1>5. CASE WriteBinlog(t)
  <2>1. InPlace(t, "close_flush") \/ InPlace(t, "to_sync") BY <1>5 DEF WriteBinlog
  <2> QED BY <2>1
<1>6. CASE CloseBinlog(t)
  <2>1. InPlace(t, "to_sync") \/ InPlace(t, "signal") BY <1>6 DEF CloseBinlog
  <2> QED BY <2>1
<1>7. CASE SyncBinlog(t)
  <2>1. InPlace(t, "to_commit") \/ InPlace(t, "after_sync") BY <1>7 DEF SyncBinlog
  <2> QED BY <2>1
<1>8. CASE LeaveClosedFlush(t) /\ ~order_commits
  <2>1. InPlace(t, "after_sync") BY <1>8 DEF LeaveClosedFlush
  <2> QED BY <2>1
<1>9. CASE AfterSyncHook(t)
  <2>1. InPlace(t, "commit") \/ InPlace(t, "sync_error") \/ InPlace(t, "signal")
    BY <1>9 DEF AfterSyncHook
  <2> QED BY <2>1
<1>10. CASE CommitGroupDone(t)
  <2>1. InPlace(t, "to_after_commit") BY <1>10 DEF CommitGroupDone
  <2> QED BY <2>1
<1>11. CASE AfterCommit(t)
  <2>1. InPlace(t, "sync_error") \/ InPlace(t, "signal") BY <1>11 DEF AfterCommit
  <2> QED BY <2>1
<1>12. CASE HandleSyncError(t) /\ ~AbortServer
  <2>1. InPlace(t, "close_sync") BY <1>12 DEF HandleSyncError
  <2> QED BY <2>1
<1>13. CASE FollowerWakes(t)
  <2>1. InPlace(t, "finish") BY <1>13 DEF FollowerWakes
  <2> QED BY <2>1
<1>14. CASE FinishInEngine(t)
  <2>1. InPlace(t, "finish_low") BY <1>14 DEF FinishInEngine
  <2> QED BY <2>1
<1>15. CASE FinishCommit(t)
  <2>1. \A u \in BinlogThds \ {t} : list'[u] = list[u]
    BY <1>15, ThdsFacts DEF FinishCommit, IInv, CommitTypeOK, LeaderTypeOK
  <2>2. InPlace(t, "idle") \/ InPlace(t, "rotate")
    BY <1>15, <2>1 DEF FinishCommit, RequestRotation
  <2> QED BY <2>2
<1>16. CASE RotateLock(t)
  <2>1. InPlace(t, "idle") \/ InPlace(t, "rotate_wait") BY <1>16 DEF RotateLock
  <2> QED BY <2>1
<1>17. CASE WaitForPrepXids(t)
  <2>1. InPlace(t, "new_file") BY <1>17 DEF WaitForPrepXids
  <2> QED BY <2>1
<1>18. CASE NewFile(t)
  <2>1. InPlace(t, "idle") BY <1>18 DEF NewFile
  <2> QED BY <2>1
<1> HIDE DEF InPlace
<1> QED BY <1>1, <1>2, <1>3, <1>4, <1>5, <1>6, <1>7, <1>8, <1>9, <1>10, <1>11, <1>12, <1>13,
        <1>14, <1>15, <1>16, <1>17, <1>18 DEF InPlaceAction

(* The actions in which no session goes anywhere. *)
LEMMA StillActions ==
  ASSUME NEW t, StillAction(t)
  PROVE  UNCHANGED <<pc, queue, pending, list>>
BY DEF StillAction, CommitNext, HandleSyncError, stageVars, leaderVars

(* The actions that fetch a queue. *)
LEMMA FetchActions ==
  ASSUME NoOrderWorkers, IInv, IInv', Linked, NEW t \in BinlogThds, FetchAction(t)
  PROVE  \E s \in {"BINLOG_FLUSH", "SYNC", "COMMIT", "AFTER_COMMIT"} :
           /\ MovesTo(t, <<"queue", s>>, <<"list", t>>) /\ pc[t] = s
           /\ s = "BINLOG_FLUSH" => EnterFlush(t)
           /\ s = "SYNC" => pc'[t] = "sync"
           /\ s = "COMMIT" => pc'[t] = "commit_hook"
           /\ s = "AFTER_COMMIT" => pc'[t] = "after_commit"
<1>1. CASE EnterFlush(t)
  <2>1. PICK l \in LeaderPcs : Goto(t, l)
    BY <1>1 DEF EnterFlush, LeaderPcs
  <2>2. queue["COMMIT_ORDER_FLUSH"] = << >>
    BY NoWorkerFacts DEF IInv, CommitTypeOK, StageTypeOK, QueueTypeOK
  <2>3. /\ queue'["BINLOG_FLUSH"] = << >>
        /\ \A r \in Stages \ {"BINLOG_FLUSH"} : queue'[r] = queue[r]
    BY <1>1, <2>2 DEF EnterFlush, FetchQueues, Stages
  <2>4. MovesTo(t, <<"queue", "BINLOG_FLUSH">>, <<"list", t>>)
    BY <1>1, <2>1, <2>3, FetchMoves DEF EnterFlush, Stages
  <2> QED BY <1>1, <2>4 DEF EnterFlush
<1>2. ASSUME NEW s \in {"SYNC", "COMMIT", "AFTER_COMMIT"}, NEW m,
             NEW l \in LeaderPcs, EnterStage(t, s, m, l)
      PROVE  MovesTo(t, <<"queue", s>>, <<"list", t>>) /\ pc[t] = s /\ pc'[t] = l
  <2>1. /\ queue'[s] = << >> /\ \A r \in Stages \ {s} : queue'[r] = queue[r]
        /\ s \in Stages \ {"COMMIT_ORDER_FLUSH"}
    BY <1>2 DEF EnterStage, FetchQueues, Stages
  <2>2. pc'[t] = l
    BY <1>2, ThdsFacts DEF EnterStage, Goto, IInv, CommitTypeOK, StageTypeOK, PcTypeOK
  <2> QED BY <1>2, <2>1, <2>2, FetchMoves DEF EnterStage
<1>3. CASE EnterSync(t) \/ EnterCommit(t) \/ EnterAfterCommit(t)
  BY <1>2, <1>3 DEF EnterSync, EnterCommit, EnterAfterCommit, LeaderPcs
<1> QED BY <1>1, <1>3 DEF FetchAction

(* The actions that enrol a list in the next queue. *)
LEMMA ChangeActions ==
  ASSUME NoOrderWorkers, IInv, IInv', Linked, NEW t \in BinlogThds, ChangeAction(t)
  PROVE  \E s \in {"SYNC", "COMMIT", "AFTER_COMMIT"} :
           /\ MovesTo(t, <<"list", t>>, <<"queue", s>>)
           /\ pc[t] = IF s = "SYNC" THEN "to_sync"
                      ELSE IF s = "AFTER_COMMIT" THEN "to_after_commit"
                      ELSE IF LeaveSync(t) THEN "to_commit" ELSE "to_commit_closed"
<1>1. CASE LeaveFlush(t)
  BY <1>1, ChangeMoves DEF LeaveFlush, LeaderPcs
<1>2. CASE LeaveSync(t)
  BY <1>2, ChangeMoves DEF LeaveSync, LeaderPcs
<1>3. CASE LeaveCommit(t)
  BY <1>3, ChangeMoves DEF LeaveCommit, LeaderPcs
<1>4. CASE LeaveClosedFlush(t) /\ order_commits
  BY <1>4, ChangeMoves DEF LeaveClosedFlush, LeaveSync, LeaderPcs
<1> QED BY <1>1, <1>2, <1>3, <1>4 DEF ChangeAction

(* Nobody waits for a commit order leader that is not there. *)
LEMMA NeverHandedOver ==
  ASSUME NoOrderWorkers, IInv, Linked, NEW t \in BinlogThds, BinlogLeader(t)
  PROVE  FALSE
<1> DEFINE z == <<"queue", "BINLOG_FLUSH">>
<1>1. pc[t] = "wait_leader" /\ ~pending[t]
  BY DEF BinlogLeader, BinlogLeaderWakes
<1>2. queue["BINLOG_FLUSH"] # << >> /\ Head(queue["BINLOG_FLUSH"]) = t
  BY <1>1 DEF IInv, Structure, StageLeader
<1>3. z \in Places /\ Held[z] = queue["BINLOG_FLUSH"] /\ Held[z] \in Seq(BinlogThds)
  BY HeldBefore, PlaceCases DEF Stages
<1>4. 1 \in DOMAIN Held[z] /\ Held[z][1] = t
  BY <1>2, <1>3, EmptySeq, LenProperties, HeadTailProperties
<1> QED BY <1>1, <1>3, <1>4 DEF Linked, Asleep

(* These are all the actions of a session. *)
LEMMA ActionCases ==
  ASSUME NEW t, Prepare(t) \/ FlushLogs(t) \/ BinlogStep(t)
  PROVE  \/ InPlaceAction(t) \/ StillAction(t) \/ FetchAction(t) \/ ChangeAction(t)
         \/ Signal(t) \/ OrderedCommit(t) \/ BinlogLeader(t)
BY DEF BinlogStep, InPlaceAction, StillAction, FetchAction, ChangeAction

(* Every step preserves the invariant. *)
LEMMA NextLinked ==
  ASSUME NoOrderWorkers, IInv, IInv', Linked, [Next]_vars PROVE Linked'
<1>1. ASSUME NEW t \in BinlogThds, Prepare(t) \/ FlushLogs(t) \/ BinlogStep(t) PROVE Linked'
  <2>1. CASE InPlaceAction(t)
    BY <2>1, InPlaceActions, InPlaceStep
  <2>2. CASE StillAction(t)
    BY <2>2, StillActions, StillStep
  <2>3. CASE FetchAction(t)
    <3>1. PICK s \in Stages : MovesTo(t, <<"queue", s>>, <<"list", t>>)
      BY <2>3, FetchActions DEF Stages
    <3> QED BY <3>1, MoveStep, PlaceCases
  <2>4. CASE ChangeAction(t)
    <3>1. PICK s \in Stages : MovesTo(t, <<"list", t>>, <<"queue", s>>)
      BY <2>4, ChangeActions DEF Stages
    <3> QED BY <3>1, MoveStep, PlaceCases
  <2>5. CASE Signal(t)
    BY <2>5, SignalStep
  <2>6. CASE OrderedCommit(t)
    BY <2>6, JoinStep
  <2>7. CASE BinlogLeader(t)
    BY <2>7, NeverHandedOver
  <2> QED BY <1>1, <2>1, <2>2, <2>3, <2>4, <2>5, <2>6, <2>7, ActionCases
<1>2. CASE SetOrderCommits \/ Stop \/ UNCHANGED vars
  BY <1>2, StillStep DEF SetOrderCommits, Stop, vars, stageVars, leaderVars
<1> QED BY <1>1, <1>2 DEF Next, NoOrderWorkers

(* At first every place is empty. *)
LEMMA InitHeld ==
  ASSUME NoOrderWorkers, Init PROVE \A p \in Places : Held[p] = << >>
<1>1. \A s \in Stages : Held[<<"queue", s>>] = << >>
  BY HeldBefore, InitInv DEF Init
<1>2. \A t \in BinlogThds : Held[<<"list", t>>] = << >>
  BY HeldBefore, InitInv, ThdsFacts DEF Init
<1> QED BY <1>1, <1>2, PlaceCases

(* This invariant holds in every state. *)
LEMMA LinkedInvariance ==
  ASSUME NoOrderWorkers PROVE Spec => []Linked
<1>1. Init => Linked
  BY InitHeld, HeldBefore, InitInv DEF Linked, Once, Asleep
<1>2. IInv /\ IInv' /\ Linked /\ [Next]_vars => Linked'
  BY NextLinked
<1> QED BY <1>1, <1>2, Invariance, PTL DEF Spec

(* enroll_for, "we're a follower and wait for the leader to process the    *)
(* queue", for any number of sessions, with any errors and settings: a     *)
(* session that is linked in a queue or in a leader's list sleeps until    *)
(* the leader of that list signals it.  What is left out is the applier    *)
(* worker that hands its lead over, with which it is false.                *)
THEOREM QueuedSessionsWaitHolds ==
  ASSUME NoOrderWorkers PROVE Spec => []QueuedSessionsWait
<1>1. IInv /\ Linked => QueuedSessionsWait
  <2> SUFFICES ASSUME IInv, Linked PROVE QueuedSessionsWait
    OBVIOUS
  <2>1. ASSUME NEW s \in Stages, NEW i \in DOMAIN queue[s]
        PROVE  \/ pc[queue[s][i]] \in {s, "wait_leader"}
               \/ pc[queue[s][i]] = "follow" /\ pending[queue[s][i]]
    <3>1. <<"queue", s>> \in Places /\ Held[<<"queue", s>>] = queue[s]
      BY HeldBefore, PlaceCases
    <3> QED BY <3>1, PlaceCases DEF Linked, Asleep, Leads
  <2>2. ASSUME NEW t \in Thds, pc[t] \in LeaderPcs, NEW u \in Members(list[t]) \ {t}
        PROVE  pc[u] = "follow" /\ pending[u]
    <3>1. t \in BinlogThds
      BY NoWorkerFacts
    <3>2. <<"list", t>> \in Places /\ Held[<<"list", t>>] = list[t]
      BY <2>2, <3>1, HeldBefore, PlaceCases
    <3>3. PICK i \in DOMAIN list[t] : u = list[t][i]
      BY DEF Members
    <3> QED BY <2>2, <3>1, <3>2, <3>3, PlaceCases DEF Linked, Asleep, Leads
  <2> QED BY <2>1, <2>2 DEF QueuedSessionsWait
<1> QED BY <1>1, Invariance, LinkedInvariance, PTL

-----------------------------------------------------------------------------
(***************************************************************************)
(* Regions: the sessions linked in some of the queues, or in the lists of  *)
(* leaders at some places of the code.                                     *)
(***************************************************************************)
InRegion(S, C, p) == IF p[1] = "queue" THEN p[2] \in S ELSE pc[p[2]] \in C

Region(S, C) ==
  {u \in BinlogThds :
     \E p \in Places : InRegion(S, C, p) /\ \E i \in DOMAIN Held[p] : Held[p][i] = u}

(* The queue a leader that leaves a stage enrols its list in. *)
NextStage ==
  [to_sync |-> "SYNC", to_commit |-> "COMMIT", to_commit_closed |-> "COMMIT",
   to_after_commit |-> "AFTER_COMMIT"]

(* The queue that goes with each place a stage is left from. *)
LEMMA NextStages ==
  ASSUME NEW t, ChangeAction(t)
  PROVE  \/ pc[t] = "to_sync" /\ NextStage[pc[t]] = "SYNC"
         \/ pc[t] \in {"to_commit", "to_commit_closed"} /\ NextStage[pc[t]] = "COMMIT"
         \/ pc[t] = "to_after_commit" /\ NextStage[pc[t]] = "AFTER_COMMIT"
BY DEF ChangeAction, LeaveFlush, LeaveSync, LeaveCommit, LeaveClosedFlush, NextStage

(* How a session comes into a region. *)
Enters(S, C, t, u) ==
  \/ OrderedCommit(t) /\ "BINLOG_FLUSH" \in S /\ u = t
  \/ InPlaceAction(t) /\ pc[t] \notin C /\ pc'[t] \in C /\ u \in Members(list[t])
  \/ FetchAction(t) /\ pc[t] \notin S /\ pc'[t] \in C
  \/ ChangeAction(t) /\ pc[t] \notin C /\ NextStage[pc[t]] \in S /\ u \in Members(list[t])

(* Whoever is linked at a place of a region is in the region. *)
LEMMA RegionElement ==
  ASSUME NoOrderWorkers, IInv, NEW S, NEW C, NEW p \in Places, InRegion(S, C, p),
         NEW i \in DOMAIN Held[p]
  PROVE  Held[p][i] \in Region(S, C)
BY HeldBefore DEF Region

(* Of the members of a leader's list: where they are linked. *)
LEMMA ListElement ==
  ASSUME NoOrderWorkers, IInv, NEW t \in BinlogThds, pc[t] \in LeaderPcs, NEW u \in Members(list[t])
  PROVE  \E i \in DOMAIN Held[<<"list", t>>] : Held[<<"list", t>>][i] = u
BY HeldBefore DEF Members

(* A leader inside a region has its list there. *)
LEMMA ListRegion ==
  ASSUME NoOrderWorkers, IInv, NEW S, NEW C, NEW t \in BinlogThds, pc[t] \in LeaderPcs \cap C
  PROVE  Members(list[t]) \subseteq Region(S, C)
<1> SUFFICES ASSUME NEW u \in Members(list[t]) PROVE u \in Region(S, C)
  OBVIOUS
<1>1. PICK i \in DOMAIN Held[<<"list", t>>] : Held[<<"list", t>>][i] = u
  BY ListElement
<1>2. <<"list", t>> \in Places /\ InRegion(S, C, <<"list", t>>)
  BY PlaceCases DEF InRegion
<1> QED BY <1>1, <1>2, RegionElement

(* A session in the list of a leader outside a region is not in it. *)
LEMMA ListApart ==
  ASSUME NoOrderWorkers, IInv, Linked, NEW S, NEW C, NEW t \in BinlogThds,
         pc[t] \in LeaderPcs \ C
  PROVE  Members(list[t]) \cap Region(S, C) = {}
<1> SUFFICES ASSUME NEW u \in Members(list[t]), u \in Region(S, C) PROVE FALSE
  OBVIOUS
<1>1. PICK i \in DOMAIN Held[<<"list", t>>] : Held[<<"list", t>>][i] = u
  BY ListElement
<1>2. PICK p \in Places : InRegion(S, C, p) /\ \E k \in DOMAIN Held[p] : Held[p][k] = u
  BY DEF Region
<1>3. DOMAIN Held = Places /\ <<"list", t>> \in Places
  BY HeldBefore, PlaceCases
<1>4. p = <<"list", t>>
  BY <1>1, <1>2, <1>3 DEF Linked, Once
<1> QED BY <1>2, <1>4, PlaceCases DEF InRegion

(* A session that is not linked anywhere is in no region. *)
LEMMA OutsideRegion ==
  ASSUME NoOrderWorkers, IInv, Linked, NEW S, NEW C, NEW t \in BinlogThds,
         pc[t] \notin LeaderPcs \cup QueueLeaderPcs, pc[t] = "follow" => ~pending[t]
  PROVE  t \notin Region(S, C)
BY NotHeld DEF Region

(* A session that is in a region was there, or entered it. *)
LEMMA RegionStep ==
  ASSUME NoOrderWorkers, IInv, IInv', Linked, NEW CONSTANT S, NEW CONSTANT C,
         NEW t \in BinlogThds, Prepare(t) \/ FlushLogs(t) \/ BinlogStep(t),
         NEW u \in BinlogThds, u \in Region(S, C)'
  PROVE  u \in Region(S, C) \/ Enters(S, C, t, u)
<1>1. PICK q \in Places : InRegion(S, C, q)' /\ \E i \in DOMAIN Held'[q] : Held'[q][i] = u
  BY DEF Region
<1>2. PICK i \in DOMAIN Held'[q] : Held'[q][i] = u
  BY <1>1
<1> HIDE DEF Held
<1>3. InRegion(S, C, q)' <=> IF q[1] = "queue" THEN q[2] \in S ELSE pc'[q[2]] \in C
  BY DEF InRegion
<1>4. ASSUME NEW p \in Places, InRegion(S, C, p), NEW k \in DOMAIN Held[p], Held[p][k] = u
      PROVE  u \in Region(S, C)
  BY <1>4, RegionElement
<1>5. ASSUME Held'[q] = Held[q], q[1] = "queue" \/ pc'[q[2]] = pc[q[2]]
      PROVE  u \in Region(S, C)
  <2>1. InRegion(S, C, q)
    BY <1>1, <1>3, <1>5 DEF InRegion
  <2> QED BY <1>2, <1>4, <1>5, <2>1
<1>6. CASE InPlaceAction(t)
  <2>1. PICK l : InPlace(t, l)
    BY <1>6, InPlaceActions
  <2>2. Held' = Held
    BY <2>1, InPlaceStep
  <2>3. pc'[t] = l /\ \A v \in BinlogThds \ {t} : pc'[v] = pc[v]
    BY <2>1, ThdsFacts DEF InPlace, Goto, IInv, CommitTypeOK, StageTypeOK, PcTypeOK
  <2>4. CASE q[1] = "queue" \/ q # <<"list", t>>
    BY <1>5, <2>2, <2>3, <2>4, PlaceCases
  <2>5. CASE q = <<"list", t>> /\ pc[t] \in C
    <3>1. InRegion(S, C, q)
      BY <2>5, PlaceCases DEF InRegion
    <3> QED BY <1>2, <1>4, <2>2, <3>1
  <2>6. CASE q = <<"list", t>> /\ pc[t] \notin C
    <3>1. pc'[t] \in C
      BY <1>1, <1>3, <2>6, PlaceCases
    <3>2. Held[q][i] = u /\ i \in DOMAIN Held[q]
      BY <1>2, <2>2
    <3>3. Held[q] = IF pc[t] \in LeaderPcs THEN list[t] ELSE << >>
      BY <2>6, HeldBefore
    <3>4. u \in Members(list[t])
      BY <3>2, <3>3 DEF Members
    <3> QED BY <1>6, <2>6, <3>1, <3>4 DEF Enters
  <2> QED BY <2>4, <2>5, <2>6, PlaceCases
<1>7. CASE StillAction(t)
  BY <1>5, <1>7, StillActions, StillStep
<1>8. ASSUME NEW p \in Places, NEW r \in Places, p # r, MovesTo(t, p, r), q # <<"list", t>>,
             InRegion(S, C, r)' /\ r[1] = "queue" => InRegion(S, C, r)
      PROVE  u \in Region(S, C) \/ (q = r /\ \E k \in DOMAIN Held[p] : Held[p][k] = u)
  <2>1. q[1] = "queue" \/ pc'[q[2]] = pc[q[2]]
    BY <1>8, PlaceCases DEF MovesTo
  <2>2. CASE q \notin {p, r}
    BY <1>5, <1>8, <2>1, <2>2 DEF MovesTo
  <2>3. CASE q = p
    BY <1>2, <1>8, <2>3 DEF MovesTo
  <2>4. CASE q = r
    <3>1. \/ \E k \in DOMAIN Held[r] : u = Held[r][k]
          \/ \E k \in DOMAIN Held[p] : u = Held[p][k]
      BY <1>2, <1>8, <2>4, MoveStep
    <3>2. InRegion(S, C, r)
      BY <1>1, <1>3, <2>1, <2>4 DEF InRegion
    <3> QED BY <1>4, <2>4, <3>1, <3>2
  <2> QED BY <2>2, <2>3, <2>4
<1>9. CASE FetchAction(t)
  <2>1. PICK s \in Stages : MovesTo(t, <<"queue", s>>, <<"list", t>>) /\ pc[t] = s
    BY <1>9, FetchActions DEF Stages
  <2> DEFINE p == <<"queue", s>>
             r == <<"list", t>>
  <2>2. p \in Places /\ r \in Places /\ p # r /\ p[1] = "queue" /\ p[2] = s
    BY PlaceCases
  <2>3. CASE q # r
    <3>1. q[1] = "queue" \/ pc'[q[2]] = pc[q[2]]
      BY <2>1, <2>3, PlaceCases DEF MovesTo
    <3>2. CASE q = p
      BY <1>2, <2>1, <3>2 DEF MovesTo
    <3>3. CASE q # p
      BY <1>5, <2>1, <2>3, <3>1, <3>3 DEF MovesTo
    <3> QED BY <3>2, <3>3
  <2>4. CASE q = r
    <3>1. pc'[t] \in C
      BY <1>1, <1>3, <2>4, PlaceCases
    <3>2. CASE s \notin S
      BY <1>9, <2>1, <3>1, <3>2 DEF Enters
    <3>3. CASE s \in S
      <4>1. InRegion(S, C, p)
        BY <2>2, <3>3 DEF InRegion
      <4>2. pc[t] \notin LeaderPcs
        BY <2>1 DEF Stages, LeaderPcs
      <4>3. Held[r] = << >>
        BY <4>2, HeldBefore
      <4>4. \E k \in DOMAIN Held[p] : u = Held[p][k]
        BY <1>2, <2>1, <2>2, <2>4, <4>3, MoveStep
      <4> QED BY <1>4, <2>2, <4>1, <4>4
    <3> QED BY <3>2, <3>3
  <2> QED BY <2>3, <2>4
<1>10. CASE ChangeAction(t)
  <2>1. PICK s \in {"SYNC", "COMMIT", "AFTER_COMMIT"} :
          MovesTo(t, <<"list", t>>, <<"queue", s>>) /\ NextStage[pc[t]] = s
    BY <1>10, ChangeActions DEF NextStage
  <2> DEFINE p == <<"list", t>>
             r == <<"queue", s>>
  <2>2. p \in Places /\ r \in Places /\ p # r /\ r[1] = "queue" /\ r[2] = s
    BY PlaceCases DEF Stages
  <2>3. q # p
    BY <1>2, <2>1 DEF MovesTo
  <2>4. u \in Region(S, C) \/ (q = r /\ \E k \in DOMAIN Held[p] : Held[p][k] = u)
    BY <1>8, <2>1, <2>2, <2>3 DEF InRegion
  <2>5. ASSUME q = r, NEW k \in DOMAIN Held[p], Held[p][k] = u
        PROVE  u \in Region(S, C) \/ Enters(S, C, t, u)
    <3>1. CASE pc[t] \in C
      <4>1. InRegion(S, C, p)
        BY <3>1, PlaceCases DEF InRegion
      <4> QED BY <1>4, <2>2, <2>5, <4>1
    <3>2. CASE pc[t] \notin C
      <4>1. s \in S
        BY <1>1, <1>3, <2>2, <2>5
      <4>2. Held[p] = IF pc[t] \in LeaderPcs THEN list[t] ELSE << >>
        BY HeldBefore
      <4>3. u \in Members(list[t])
        BY <2>5, <4>2 DEF Members
      <4> QED BY <1>10, <2>1, <3>2, <4>1, <4>3 DEF Enters
    <3> QED BY <3>1, <3>2
  <2> QED BY <2>4, <2>5
<1>11. CASE Signal(t)
  <2>1. /\ Held'[<<"list", t>>] = << >>
        /\ \A p \in Places \ {<<"list", t>>} : Held'[p] = Held[p]
    BY <1>11, SignalStep
  <2>2. \A v \in BinlogThds \ {t} : pc'[v] = pc[v]
    BY <1>11, ThdsFacts DEF Signal, Goto, IInv, CommitTypeOK, StageTypeOK, PcTypeOK
  <2>3. q # <<"list", t>>
    BY <1>2, <2>1
  <2> QED BY <1>5, <2>1, <2>2, <2>3, PlaceCases
<1>12. CASE OrderedCommit(t)
  <2> DEFINE r == <<"queue", "BINLOG_FLUSH">>
  <2>1. r \in Places /\ r[1] = "queue" /\ r[2] = "BINLOG_FLUSH"
    BY PlaceCases DEF Stages
  <2>2. /\ \A p \in Places \ {r} : Held'[p] = Held[p]
        /\ \A j \in DOMAIN Held'[r] :
             Held'[r][j] = t \/ \E k \in DOMAIN Held[r] : Held'[r][j] = Held[r][k]
    BY <1>12, JoinStep
  <2>3. \A v \in BinlogThds \ {t} : pc'[v] = pc[v]
    BY <1>12, ThdsFacts DEF OrderedCommit, EnrollFor, IInv, CommitTypeOK, StageTypeOK, PcTypeOK
  <2>4. CASE q = r
    <3>1. "BINLOG_FLUSH" \in S
      BY <1>1, <1>3, <2>1, <2>4
    <3>2. InRegion(S, C, r)
      BY <2>1, <3>1 DEF InRegion
    <3>3. u = t \/ \E k \in DOMAIN Held[r] : u = Held[r][k]
      BY <1>2, <2>2, <2>4
    <3> QED BY <1>4, <1>12, <2>1, <3>1, <3>2, <3>3 DEF Enters
  <2>5. CASE q = <<"list", t>>
    <3>1. pc'[t] \notin LeaderPcs
      BY <1>12, ThdsFacts DEF OrderedCommit, EnrollFor, EnrolledAs, LeaderPcs,
         IInv, CommitTypeOK, StageTypeOK, PcTypeOK
    <3>2. Held'[q] = << >>
      BY <2>5, <3>1, HeldAfter
    <3> QED BY <1>2, <3>2
  <2>6. CASE q # r /\ q # <<"list", t>>
    BY <1>5, <2>2, <2>3, <2>6, PlaceCases
  <2> QED BY <2>4, <2>5, <2>6
<1>13. CASE BinlogLeader(t)
  BY <1>13, NeverHandedOver
<1> QED BY <1>6, <1>7, <1>9, <1>10, <1>11, <1>12, <1>13, ActionCases

-----------------------------------------------------------------------------
(***************************************************************************)
(* The count of prepared transactions.                                     *)
(***************************************************************************)

(* The sessions that a flush leader will write, and which nobody wrote. *)
FlushPcs == {"flush_engine", "order_done", "write"}

Fresh == Region({"BINLOG_FLUSH"}, FlushPcs)

NotYetWritten == \A u \in Fresh : ~xid_written[u]

WrittenInCommit ==
  \A t \in BinlogThds : xid_written[t] => pc[t] \notin OutsideCommit \cup {"prepared"}

BegunInCommit == \A t \in BinlogThds : pc[t] \notin OutsideCommit => trx[t] # 0

CountIsRight == prep_xids = Cardinality({t \in BinlogThds : xid_written[t]})

LoggedIsCounted ==
  \A i \in DOMAIN binlog :
    \/ binlog[i] \in Members(committed)
    \/ \E u \in BinlogThds : xid_written[u] /\ binlog[i] = Trx(u)

Counted ==
  NotYetWritten /\ WrittenInCommit /\ BegunInCommit /\ CountIsRight /\ LoggedIsCounted

(* The step with which a session comes to the place l of the code. *)
Path(t, l) ==
  \/ l = pc[t] /\ StillAction(t)
  \/ l \in OutsideCommit /\ (pc[t] \in OutsideCommit \/ FinishCommit(t))
  \/ l = "prepared" /\ Prepare(t)
  \/ l \in {"BINLOG_FLUSH", "wait_leader"} /\ pc[t] \in {"prepared", "wait_leader"}
  \/ l \in FlushPcs /\ pc[t] \in FlushPcs \cup {"BINLOG_FLUSH"}
  \/ l = "to_commit_closed" /\ ~open /\ (EnterFlush(t) \/ FinishOrderList(t))
  \/ l \in {"close_flush", "to_sync"} /\ WriteBinlog(t)
  \/ l = "to_sync" /\ CloseBinlog(t) /\ pc[t] = "close_flush"
  \/ l = "sync" /\ EnterSync(t)
  \/ l \in {"to_commit", "after_sync"} /\ SyncBinlog(t)
  \/ l = "after_sync" /\ LeaveClosedFlush(t) /\ ~order_commits
  \/ l = "commit_hook" /\ EnterCommit(t)
  \/ l = "commit" /\ AfterSyncHook(t) /\ pc[t] = "commit_hook"
  \/ l = "to_after_commit" /\ CommitGroupDone(t)
  \/ l = "after_commit" /\ EnterAfterCommit(t)
  \/ l \in {"sync_error", "signal"} /\ AfterCommit(t)
  \/ l \in {"sync_error", "signal"} /\ AfterSyncHook(t) /\ pc[t] = "after_sync"
  \/ l = "close_sync" /\ HandleSyncError(t) /\ pc[t] = "sync_error" /\ ~AbortServer
  \/ l = "signal" /\ CloseBinlog(t) /\ pc[t] = "close_sync"
  \/ ChangeAction(t) /\ l = NextStage[pc[t]]
  \/ l = "follow" /\ (OrderedCommit(t) \/ ChangeAction(t))
  \/ l = "finish" /\ (Signal(t) \/ FollowerWakes(t))
  \/ l = "finish_low" /\ FinishInEngine(t)

(* Every step follows a path, and moves one session only. *)
LEMMA Paths ==
  ASSUME IInv, NEW t \in BinlogThds, Prepare(t) \/ FlushLogs(t) \/ BinlogStep(t)
  PROVE  Path(t, pc'[t]) /\ \A u \in Thds \ {t} : pc'[u] = pc[u]
<1>1. ASSUME NEW l, Goto(t, l), Path(t, l)
      PROVE  Path(t, pc'[t]) /\ \A u \in Thds \ {t} : pc'[u] = pc[u]
  <2>1. pc'[t] = l /\ \A u \in Thds \ {t} : pc'[u] = pc[u]
    BY <1>1, ThdsFacts DEF Goto, IInv, CommitTypeOK, StageTypeOK, PcTypeOK
  <2> QED BY <1>1, <2>1
<1>2. ASSUME UNCHANGED pc, StillAction(t)
      PROVE  Path(t, pc'[t]) /\ \A u \in Thds \ {t} : pc'[u] = pc[u]
  BY <1>2 DEF Path
<1> DEFINE Moved == \E l : Goto(t, l) /\ Path(t, l)
<1>3. ASSUME Moved PROVE Path(t, pc'[t]) /\ \A u \in Thds \ {t} : pc'[u] = pc[u]
  BY <1>1, <1>3
<1>4. ASSUME NEW l, Goto(t, l), Path(t, l) PROVE Moved
  BY <1>4
<1> HIDE DEF Moved
<1> USE DEF OutsideCommit, FlushPcs
<1>5. CASE Prepare(t) \/ FlushLogs(t) \/ FinishCommit(t)
  BY <1>3, <1>4, <1>5 DEF Prepare, FlushLogs, FinishCommit, RequestRotation, Path
<1>6. CASE RotateLock(t) \/ WaitForPrepXids(t) \/ NewFile(t)
  BY <1>3, <1>4, <1>6 DEF RotateLock, WaitForPrepXids, NewFile, Path
<1>7. CASE OrderedCommit(t)
  <2>1. Goto(t, EnrolledAs("BINLOG_FLUSH")) /\ pc[t] = "prepared"
    BY <1>7 DEF OrderedCommit, EnrollFor, Goto
  <2>2. EnrolledAs("BINLOG_FLUSH") \in {"BINLOG_FLUSH", "follow", "wait_leader"}
    BY DEF EnrolledAs
  <2> QED BY <1>3, <1>4, <1>7, <2>1, <2>2 DEF Path
<1>8. CASE BinlogLeader(t)
  <2>1. Goto(t, "BINLOG_FLUSH") /\ pc[t] = "wait_leader"
    BY <1>8 DEF BinlogLeader, BinlogLeaderWakes, Goto
  <2> QED BY <1>3, <1>4, <2>1 DEF Path
<1>9. CASE EnterFlush(t)
  BY <1>3, <1>4, <1>9 DEF EnterFlush, Path
<1>10. CASE EnterSync(t) \/ EnterCommit(t) \/ EnterAfterCommit(t)
  BY <1>3, <1>4, <1>10 DEF EnterSync, EnterCommit, EnterAfterCommit, EnterStage, Path
<1>11. CASE LeaveFlush(t) \/ LeaveSync(t) \/ LeaveCommit(t) \/ (LeaveClosedFlush(t) /\ order_commits)
  <2>1. \A s \in {"SYNC", "COMMIT", "AFTER_COMMIT"} : EnrolledAs(s) \in {s, "follow"}
    BY DEF EnrolledAs
  <2>2. \/ Goto(t, EnrolledAs("SYNC")) /\ pc[t] = "to_sync"
        \/ Goto(t, EnrolledAs("COMMIT")) /\ pc[t] \in {"to_commit", "to_commit_closed"}
        \/ Goto(t, EnrolledAs("AFTER_COMMIT")) /\ pc[t] = "to_after_commit"
    BY <1>11 DEF LeaveFlush, LeaveSync, LeaveCommit, LeaveClosedFlush, ChangeStage, EnrollFor,
       Goto
  <2>3. ChangeAction(t)
    BY <1>11 DEF ChangeAction
  <2>4. \E s \in {"SYNC", "COMMIT", "AFTER_COMMIT"} :
          Goto(t, EnrolledAs(s)) /\ s = NextStage[pc[t]]
    BY <2>2, <2>3, NextStages
  <2> QED BY <1>3, <1>4, <2>1, <2>3, <2>4 DEF Path
<1>12. CASE LeaveClosedFlush(t) /\ ~order_commits
  BY <1>3, <1>4, <1>12 DEF LeaveClosedFlush, Path
<1>13. CASE FlushEngine(t) \/ FinishOrderList(t)
  BY <1>3, <1>4, <1>13 DEF FlushEngine, FinishOrderList, Path
<1>14. CASE WriteBinlog(t)
  <2>1. (Goto(t, "close_flush") \/ Goto(t, "to_sync")) /\ pc[t] = "write"
    BY <1>14 DEF WriteBinlog
  <2> QED BY <1>3, <1>4, <1>14, <2>1 DEF Path
<1>15. CASE CloseBinlog(t)
  <2>1. \/ Goto(t, "signal") /\ pc[t] = "close_sync"
        \/ Goto(t, "to_sync") /\ pc[t] = "close_flush"
    BY <1>15 DEF CloseBinlog
  <2> QED BY <1>3, <1>4, <1>15, <2>1 DEF Path
<1>16. CASE SyncBinlog(t)
  <2>1. (Goto(t, "to_commit") \/ Goto(t, "after_sync")) /\ pc[t] = "sync"
    BY <1>16 DEF SyncBinlog
  <2> QED BY <1>3, <1>4, <1>16, <2>1 DEF Path
<1>17. CASE AfterSyncHook(t)
  BY <1>3, <1>4, <1>17 DEF AfterSyncHook, Path
<1>18. CASE CommitNext(t)
  BY <1>2, <1>18 DEF CommitNext, StillAction, stageVars
<1>19. CASE CommitGroupDone(t) \/ AfterCommit(t) \/ Signal(t)
  BY <1>3, <1>4, <1>19 DEF CommitGroupDone, AfterCommit, Signal, Path
<1>20. CASE HandleSyncError(t)
  BY <1>2, <1>3, <1>4, <1>20 DEF HandleSyncError, StillAction, Path
<1>21. CASE FollowerWakes(t) \/ FinishInEngine(t)
  BY <1>3, <1>4, <1>21 DEF FollowerWakes, FinishInEngine, Path
<1> QED BY <1>5, <1>6, <1>7, <1>8, <1>9, <1>10, <1>11, <1>12, <1>13, <1>14, <1>15, <1>16,
        <1>17, <1>18, <1>19, <1>20, <1>21 DEF BinlogStep

(* The actions that only happen inside a commit. *)
LEMMA Sources ==
  ASSUME NEW t, \/ EnterFlush(t) \/ FinishOrderList(t) \/ WriteBinlog(t) \/ EnterSync(t)
                \/ SyncBinlog(t) \/ LeaveClosedFlush(t) \/ EnterCommit(t) \/ CommitGroupDone(t)
                \/ EnterAfterCommit(t) \/ AfterCommit(t) \/ ChangeAction(t) \/ OrderedCommit(t)
                \/ Signal(t) \/ FollowerWakes(t) \/ FinishInEngine(t)
  PROVE  pc[t] \notin OutsideCommit
BY DEF EnterFlush, FinishOrderList, WriteBinlog, EnterSync, SyncBinlog, LeaveClosedFlush,
   EnterCommit, CommitGroupDone, EnterAfterCommit, AfterCommit, ChangeAction, OrderedCommit,
   Signal, FollowerWakes, FinishInEngine, EnterStage, LeaveFlush, LeaveSync, LeaveCommit,
   OutsideCommit

(* Only a session that begins its commit is new to the flush stage. *)
LEMMA FreshStep ==
  ASSUME NoOrderWorkers, IInv, IInv', Linked, NEW t \in BinlogThds,
         Prepare(t) \/ FlushLogs(t) \/ BinlogStep(t), NEW u \in Fresh'
  PROVE  u \in Fresh \/ (OrderedCommit(t) /\ u = t)
<1>1. u \in BinlogThds
  BY DEF Fresh, Region
<1>2. u \in Region({"BINLOG_FLUSH"}, FlushPcs) \/ Enters({"BINLOG_FLUSH"}, FlushPcs, t, u)
  BY <1>1, RegionStep DEF Fresh, FlushPcs
<1>3. pc'[t] \in FlushPcs => pc[t] \in FlushPcs \cup {"BINLOG_FLUSH"}
  BY Paths, NextStages DEF Path, FlushPcs, OutsideCommit
<1>4. InPlaceAction(t) => pc[t] # "BINLOG_FLUSH"
  <2>1. InPlaceAction(t) => \E l : InPlace(t, l)
    BY InPlaceActions
  <2> QED BY <2>1 DEF InPlace, LeaderPcs, QueueLeaderPcs
<1>5. FetchAction(t) => pc[t] \in Stages
  BY FetchActions DEF Stages
<1>6. Stages \cap FlushPcs = {}
  BY DEF Stages, FlushPcs
<1>7. ChangeAction(t) => NextStage[pc[t]] # "BINLOG_FLUSH"
  BY NextStages
<1> QED BY <1>2, <1>3, <1>4, <1>5, <1>6, <1>7 DEF Enters, Fresh

(* No element occurs twice in the sequence s. *)
Distinct(s) == \A i, j \in DOMAIN s : s[i] = s[j] => i = j

(* The members of a sequence without repetition, counted. *)
LEMMA DistinctCount ==
  ASSUME NEW S, NEW s \in Seq(S), Distinct(s)
  PROVE  IsFiniteSet(Members(s)) /\ Cardinality(Members(s)) = Len(s)
<1>1. DOMAIN s = 1 .. Len(s) /\ Len(s) \in Nat /\ s \in [1 .. Len(s) -> S]
  BY LenProperties
<1>2. s \in [1 .. Len(s) -> Members(s)]
  BY <1>1 DEF Members
<1>3. \A x \in Members(s) : \E i \in 1 .. Len(s) : s[i] = x
  BY <1>1 DEF Members
<1>4. s \in Bijection(1 .. Len(s), Members(s))
  BY <1>1, <1>2, <1>3 DEF Bijection, Injection, Surjection, IsInjective, Distinct
<1>5. ExistsBijection(1 .. Len(s), Members(s))
  BY <1>4 DEF ExistsBijection
<1> QED BY <1>1, <1>5, FS_NatBijection, FS_CountingElements

(* A subsequence has some of the members, and repeats none. *)
LEMMA SubsequenceMembers ==
  ASSUME NEW S, NEW s \in Seq(S), NEW sub \in Subsequences(s)
  PROVE  /\ sub \in Seq(S) /\ Members(sub) \subseteq Members(s)
         /\ Distinct(s) => Distinct(sub)
<1>1. PICK n \in 0 .. Len(s) :
        \E f \in [1 .. n -> DOMAIN s] :
          /\ \A i, j \in 1 .. n : i < j => f[i] < f[j]
          /\ sub = [i \in 1 .. n |-> s[f[i]]]
  BY DEF Subsequences
<1>2. PICK f \in [1 .. n -> DOMAIN s] : /\ \A i, j \in 1 .. n : i < j => f[i] < f[j]
                                        /\ sub = [i \in 1 .. n |-> s[f[i]]]
  BY <1>1
<1>3. Members(sub) \subseteq Members(s)
  BY <1>2 DEF Members
<1>4. ASSUME Distinct(s), NEW i \in 1 .. n, NEW j \in 1 .. n, s[f[i]] = s[f[j]] PROVE i = j
  <2>1. f[i] = f[j] /\ f[i] \in DOMAIN s /\ f[j] \in DOMAIN s
    BY <1>4 DEF Distinct
  <2>2. DOMAIN s \subseteq Nat
    BY LenProperties
  <2>3. f[i] \in Nat /\ f[j] \in Nat /\ ~(f[i] < f[j]) /\ ~(f[j] < f[i]) /\ i \in Int /\ j \in Int
    BY <2>1, <2>2
  <2>4. ~(i < j) /\ ~(j < i)
    BY <1>2, <2>3
  <2> QED BY <2>3, <2>4
<1>5. Distinct(s) => Distinct(sub)
  <2> SUFFICES ASSUME Distinct(s), NEW i \in DOMAIN sub, NEW j \in DOMAIN sub, sub[i] = sub[j]
               PROVE  i = j
    BY DEF Distinct
  <2>1. i \in 1 .. n /\ j \in 1 .. n /\ sub[i] = s[f[i]] /\ sub[j] = s[f[j]]
    BY <1>2
  <2> QED BY <1>4, <2>1
<1> QED BY <1>3, <1>5, SubsequenceFacts

(* No list holds a session twice. *)
LEMMA ListDistinct ==
  ASSUME NoOrderWorkers, IInv, Linked, NEW t \in BinlogThds, pc[t] \in LeaderPcs
  PROVE  Distinct(list[t])
<1>1. <<"list", t>> \in DOMAIN Held /\ Held[<<"list", t>>] = list[t]
  BY HeldBefore, PlaceCases
<1> QED BY <1>1 DEF Linked, Once, Distinct

(* The engine never forgets a commit. *)
LEMMA CommittedGrows ==
  ASSUME IInv, NEW t \in BinlogThds, Prepare(t) \/ FlushLogs(t) \/ BinlogStep(t)
  PROVE  Members(committed) \subseteq Members(committed')
<1>1. ASSUME NEW u \in BinlogThds, CommitInEngine(u)
      PROVE  Members(committed) \subseteq Members(committed')
  <2>1. Trx(u) \in Trxs /\ committed \in Seq(Trxs)
    BY ThdsFacts DEF Trx, Trxs, IInv, CommitTypeOK, ThdTypeOK, EngineTypeOK
  <2> QED BY <1>1, <2>1, MembersAppend DEF CommitInEngine
<1>2. CASE CommitNext(t)
  <2>1. PICK i \in DOMAIN list[t] : CommitInEngine(list[t][i])
    BY <1>2 DEF CommitNext
  <2>2. list[t][i] \in BinlogThds
    BY DEF IInv, CommitTypeOK, LeaderTypeOK
  <2> QED BY <1>1, <2>1, <2>2
<1>3. CASE FinishInEngine(t)
  BY <1>1, <1>3 DEF FinishInEngine
<1>4. CASE ~CommitNext(t) /\ ~FinishInEngine(t)
  <2>1. UNCHANGED committed
    BY <1>4 DEF BinlogStep, Prepare, FlushLogs, OrderedCommit, BinlogLeader, EnterFlush,
       FlushEngine, FinishOrderList, WriteBinlog, CloseBinlog, LeaveFlush, LeaveClosedFlush,
       EnterSync, SyncBinlog, LeaveSync, EnterCommit, AfterSyncHook, CommitGroupDone,
       LeaveCommit, EnterAfterCommit, AfterCommit, HandleSyncError, Signal, FollowerWakes,
       FinishCommit, RotateLock, WaitForPrepXids, NewFile, ChangeStage, EnterStage, engineVars
  <2> QED BY <2>1
<1> QED BY <1>2, <1>3, <1>4

(* The steps that touch the flags or the count, and the rest. *)
LEMMA CountCases ==
  ASSUME NEW t, Prepare(t) \/ FlushLogs(t) \/ BinlogStep(t)
  PROVE  \/ WriteBinlog(t) \/ CommitGroupDone(t) \/ FinishCommit(t) \/ OrderedCommit(t)
         \/ Prepare(t) /\ UNCHANGED <<xid_written, prep_xids, binlog>>
         \/ UNCHANGED <<xid_written, prep_xids, binlog, trx>>
BY DEF BinlogStep, Prepare, FlushLogs, BinlogLeader, EnterFlush,
   FlushEngine, FinishOrderList, CloseBinlog, LeaveFlush, LeaveClosedFlush,
   EnterSync, SyncBinlog, LeaveSync, EnterCommit, AfterSyncHook, CommitNext,
   LeaveCommit, EnterAfterCommit, AfterCommit, HandleSyncError, Signal, FollowerWakes,
   FinishInEngine, RotateLock, WaitForPrepXids, NewFile, ChangeStage, EnterStage, thdVars,
   logVars, otherVars

(* What a session that has its flag set, or its transaction, keeps. *)
LEMMA WrittenStep ==
  ASSUME NoOrderWorkers, IInv, IInv', Linked, Counted, NEW t \in BinlogThds,
         Prepare(t) \/ FlushLogs(t) \/ BinlogStep(t),
         \A u \in BinlogThds : xid_written'[u] => xid_written[u],
         FinishCommit(t) \/ OrderedCommit(t) => ~xid_written'[t]
  PROVE  NotYetWritten' /\ WrittenInCommit'
<1>1. Path(t, pc'[t]) /\ \A u \in BinlogThds \ {t} : pc'[u] = pc[u]
  BY Paths, ThdsFacts
<1>2. NotYetWritten'
  <2> SUFFICES ASSUME NEW u \in Fresh' PROVE ~xid_written'[u]
    BY DEF NotYetWritten
  <2>1. u \in BinlogThds
    BY DEF Fresh, Region
  <2>2. u \in Fresh \/ (OrderedCommit(t) /\ u = t)
    BY FreshStep
  <2> QED BY <2>1, <2>2 DEF Counted, NotYetWritten
<1>3. ASSUME NEW u \in BinlogThds, xid_written'[u]
      PROVE  pc'[u] \notin OutsideCommit \cup {"prepared"}
  <2>1. pc[u] \notin OutsideCommit \cup {"prepared"}
    BY <1>3 DEF Counted, WrittenInCommit
  <2>2. ~FinishCommit(t) \/ u # t
    BY <1>3
  <2>3. Prepare(t) => pc[t] = "idle"
    BY DEF Prepare
  <2> QED BY <1>1, <1>3, <2>1, <2>2, <2>3, NextStages DEF Path, OutsideCommit, FlushPcs
<1> QED BY <1>2, <1>3 DEF WrittenInCommit

(* A session inside a commit has a transaction. *)
LEMMA BegunStep ==
  ASSUME IInv, Counted, NEW t \in BinlogThds, Prepare(t) \/ FlushLogs(t) \/ BinlogStep(t)
  PROVE  BegunInCommit'
<1>1. Path(t, pc'[t]) /\ \A u \in BinlogThds \ {t} : pc'[u] = pc[u]
  BY Paths, ThdsFacts
<1>2. CASE Prepare(t)
  <2>1. trx[t] \in Nat /\ trx'[t] = trx[t] + 1 /\ \A u \in BinlogThds \ {t} : trx'[u] = trx[u]
    BY <1>2, ThdsFacts DEF Prepare, IInv, CommitTypeOK, ThdTypeOK
  <2> QED BY <1>1, <2>1 DEF Counted, BegunInCommit
<1>3. CASE ~Prepare(t)
  <2>1. UNCHANGED trx
    BY <1>3, CountCases DEF WriteBinlog, CommitGroupDone, FinishCommit, OrderedCommit
  <2>2. pc'[t] \notin OutsideCommit => pc[t] \notin OutsideCommit
    BY <1>1, <1>3, Sources, NextStages DEF Path, OutsideCommit, FlushPcs
  <2> QED BY <1>1, <2>1, <2>2 DEF Counted, BegunInCommit
<1> QED BY <1>2, <1>3

(* Nothing is counted or logged, and no counted session begins anew. *)
LEMMA QuietCount ==
  ASSUME NoOrderWorkers, IInv, IInv', Linked, Counted, NEW t \in BinlogThds,
         Prepare(t) \/ FlushLogs(t) \/ BinlogStep(t),
         UNCHANGED <<prep_xids, binlog>>,
         \A u \in BinlogThds : xid_written'[u] <=> xid_written[u],
         \A u \in BinlogThds : xid_written[u] => trx'[u] = trx[u],
         FinishCommit(t) \/ OrderedCommit(t) => ~xid_written'[t]
  PROVE  Counted'
<1>1. {u \in BinlogThds : xid_written'[u]} = {u \in BinlogThds : xid_written[u]}
  OBVIOUS
<1>2. CountIsRight'
  BY <1>1 DEF Counted, CountIsRight
<1>3. LoggedIsCounted'
  <2> SUFFICES ASSUME NEW i \in DOMAIN binlog
               PROVE  \/ binlog[i] \in Members(committed')
                      \/ \E u \in BinlogThds : xid_written'[u] /\ binlog[i] = Trx(u)'
    BY DEF LoggedIsCounted
  <2>1. CASE binlog[i] \in Members(committed)
    BY <2>1, CommittedGrows
  <2>2. ASSUME NEW u \in BinlogThds, xid_written[u], binlog[i] = Trx(u)
        PROVE  xid_written'[u] /\ binlog[i] = Trx(u)'
    BY <2>2 DEF Trx
  <2> QED BY <2>1, <2>2 DEF Counted, LoggedIsCounted
<1> QED BY <1>2, <1>3, WrittenStep, BegunStep DEF Counted

(* The transactions of a list are counted down: the engine has them. *)
LEMMA CountDown ==
  ASSUME NoOrderWorkers, IInv, IInv', Linked, Counted, Account, NEW t \in BinlogThds,
         FlushLogs(t) \/ BinlogStep(t),
         NEW ts \in Seq(BinlogThds), DecPrepXids(ts), UNCHANGED <<binlog, trx>>,
         \A u \in Members(ts) : ~Uncommitted(u) /\ pc[u] \notin OutsideCommit,
         FinishCommit(t) \/ OrderedCommit(t) => ~xid_written'[t]
  PROVE  Counted'
<1> DEFINE X == {u \in BinlogThds : xid_written[u]}
           D == {u \in Members(ts) : xid_written[u]}
<1>1. Members(ts) \subseteq BinlogThds
  BY MembersFacts
<1>2. \A u \in BinlogThds : xid_written'[u] <=> xid_written[u] /\ u \notin Members(ts)
  BY ThdsFacts DEF DecPrepXids
<1>3. {u \in BinlogThds : xid_written'[u]} = X \ D /\ X \cap D = D /\ X \subseteq BinlogThds
  BY <1>1, <1>2
<1>4. IsFiniteSet(X)
  BY <1>3, ConfigAssumption, FS_Subset
<1>5. Cardinality(X \ D) = Cardinality(X) - Cardinality(D)
  BY <1>3, <1>4, FS_Difference, ZenonT(40)
<1>6. CountIsRight'
  BY <1>3, <1>5 DEF DecPrepXids, Counted, CountIsRight
<1>7. LoggedIsCounted'
  <2> SUFFICES ASSUME NEW i \in DOMAIN binlog
               PROVE  \/ binlog[i] \in Members(committed')
                      \/ \E u \in BinlogThds : xid_written'[u] /\ binlog[i] = Trx(u)'
    BY DEF LoggedIsCounted
  <2>1. CASE binlog[i] \in Members(committed)
    BY <2>1, CommittedGrows
  <2>2. ASSUME NEW u \in BinlogThds, xid_written[u], binlog[i] = Trx(u), u \notin Members(ts)
        PROVE  xid_written'[u] /\ binlog[i] = Trx(u)'
    BY <1>2, <2>2 DEF Trx
  <2>3. ASSUME NEW u \in Members(ts), binlog[i] = Trx(u)
        PROVE  binlog[i] \in Members(committed')
    <3>1. u \in BinlogThds /\ trx[u] # 0 /\ trx[u] \in Nat
      BY <1>1, ThdsFacts DEF Counted, BegunInCommit, IInv, CommitTypeOK, ThdTypeOK
    <3>2. <<u, trx[u]>> \in Members(committed)
      BY <3>1 DEF Account, RestIsCommitted
    <3> QED BY <2>3, <3>2, CommittedGrows DEF Trx
  <2> QED BY <1>1, <2>1, <2>2, <2>3 DEF Counted, LoggedIsCounted
<1> QED BY <1>2, <1>6, <1>7, WrittenStep, BegunStep DEF Counted

(* The flush stage raises the count by what it writes. *)
LEMMA WriteCount ==
  ASSUME NoOrderWorkers, IInv, IInv', Linked, Counted, NEW t \in BinlogThds, WriteBinlog(t)
  PROVE  Counted'
<1> DEFINE X == {u \in BinlogThds : xid_written[u]}
<1>1. PICK written \in Subsequences(list[t]) : FlushThreadCaches(written)
  BY DEF WriteBinlog
<1> DEFINE W == Members(written)
<1>2. pc[t] = "write" /\ pc[t] \in LeaderPcs /\ pc[t] \in FlushPcs
  BY DEF WriteBinlog, LeaderPcs, FlushPcs
<1>3. list[t] \in Seq(BinlogThds)
  BY DEF IInv, CommitTypeOK, LeaderTypeOK
<1>4. Distinct(list[t])
  BY <1>2, ListDistinct
<1>5. written \in Seq(BinlogThds) /\ W \subseteq Members(list[t]) /\ Distinct(written)
  BY <1>3, <1>4, SubsequenceMembers
<1>6. W \subseteq BinlogThds /\ IsFiniteSet(W) /\ Cardinality(W) = Len(written)
  BY <1>5, DistinctCount, MembersFacts
<1>7. W \subseteq Fresh
  BY <1>2, <1>5, ListRegion DEF Fresh
<1>8. X \cap W = {}
  BY <1>7 DEF Counted, NotYetWritten
<1>9. \A u \in BinlogThds : xid_written'[u] <=> xid_written[u] \/ u \in W
  BY <1>1, ThdsFacts DEF FlushThreadCaches
<1>10. {u \in BinlogThds : xid_written'[u]} = X \cup W
  BY <1>6, <1>9
<1>11. IsFiniteSet(X)
  <2>1. X \subseteq BinlogThds
    OBVIOUS
  <2> QED BY <2>1, ConfigAssumption, FS_Subset
<1>12. Cardinality(X \cup W) = Cardinality(X) + Len(written)
  <2>1. Cardinality(X) \in Nat /\ Len(written) \in Nat
    BY <1>5, <1>11, FS_CardinalityType, LenProperties
  <2>2. Cardinality(X \cap W) = 0
    BY <1>8, FS_EmptySet
  <2>3. Cardinality(X \cup W) = Cardinality(X) + Cardinality(W) - Cardinality(X \cap W)
    BY <1>6, <1>11, FS_Union
  <2> HIDE DEF X, W
  <2> QED BY <1>6, <2>1, <2>2, <2>3
<1>13. CountIsRight'
  BY <1>1, <1>10, <1>12 DEF FlushThreadCaches, Counted, CountIsRight
<1>14. UNCHANGED <<trx, committed>>
  BY DEF WriteBinlog, engineVars
<1>15. LoggedIsCounted'
  <2>1. binlog \in Seq(Trxs) /\ TrxSeq(written) \in Seq(Trxs) /\ binlog' = binlog \o TrxSeq(written)
    BY <1>1, <1>5, TrxSeqType DEF FlushThreadCaches, IInv, CommitTypeOK, LogTypeOK
  <2> SUFFICES ASSUME NEW i \in DOMAIN binlog'
               PROVE  \/ binlog'[i] \in Members(committed')
                      \/ \E u \in BinlogThds : xid_written'[u] /\ binlog'[i] = Trx(u)'
    BY DEF LoggedIsCounted
  <2>2. \/ \E k \in DOMAIN binlog : binlog'[i] = binlog[k]
        \/ \E k \in DOMAIN TrxSeq(written) : binlog'[i] = TrxSeq(written)[k]
    <3>1. /\ DOMAIN binlog = 1 .. Len(binlog) /\ Len(binlog) \in Nat
          /\ DOMAIN TrxSeq(written) = 1 .. Len(TrxSeq(written)) /\ Len(TrxSeq(written)) \in Nat
          /\ DOMAIN binlog' = 1 .. (Len(binlog) + Len(TrxSeq(written)))
      BY <2>1, ConcatIndex
    <3>2. CASE i \in 1 .. Len(binlog)
      BY <2>1, <3>1, <3>2, ConcatIndex
    <3>3. CASE i \in (Len(binlog) + 1) .. (Len(binlog) + Len(TrxSeq(written)))
      <4>1. /\ binlog'[i] = TrxSeq(written)[i - Len(binlog)]
            /\ i - Len(binlog) \in 1 .. Len(TrxSeq(written))
        BY <2>1, <3>3, ConcatIndex
      <4> QED BY <3>1, <4>1
    <3> QED BY <3>1, <3>2, <3>3
  <2>3. ASSUME NEW k \in DOMAIN binlog, binlog'[i] = binlog[k]
        PROVE  \/ binlog'[i] \in Members(committed')
               \/ \E u \in BinlogThds : xid_written'[u] /\ binlog'[i] = Trx(u)'
    <3>1. \/ binlog[k] \in Members(committed)
          \/ \E u \in BinlogThds : xid_written[u] /\ binlog[k] = Trx(u)
      BY DEF Counted, LoggedIsCounted
    <3> QED BY <1>9, <1>14, <2>3, <3>1 DEF Trx
  <2>4. ASSUME NEW k \in DOMAIN TrxSeq(written), binlog'[i] = TrxSeq(written)[k]
        PROVE  \E u \in BinlogThds : xid_written'[u] /\ binlog'[i] = Trx(u)'
    <3>1. k \in DOMAIN written /\ TrxSeq(written)[k] = Trx(written[k])
      BY <2>4 DEF TrxSeq
    <3>2. written[k] \in W
      BY <3>1 DEF Members
    <3> QED BY <1>6, <1>9, <1>14, <2>4, <3>1, <3>2 DEF Trx
  <2> QED BY <2>2, <2>3, <2>4
<1>16. BinlogStep(t)
  BY DEF BinlogStep
<1>17. Path(t, pc'[t]) /\ \A u \in BinlogThds \ {t} : pc'[u] = pc[u]
  BY <1>16, Paths, ThdsFacts
<1>18. pc'[t] \in {"close_flush", "to_sync"}
  <2>1. \E l \in {"close_flush", "to_sync"} : Goto(t, l)
    BY DEF WriteBinlog
  <2> QED BY <2>1, ThdsFacts DEF Goto, IInv, CommitTypeOK, StageTypeOK, PcTypeOK
<1>19. NotYetWritten'
  <2>1. ASSUME NEW u \in Fresh' PROVE ~xid_written'[u]
    <3>1. u \in BinlogThds
      BY DEF Fresh, Region
    <3>2. u \in Fresh
      BY <1>2, <1>16, FreshStep DEF OrderedCommit
    <3>3. PICK q \in Places : /\ InRegion({"BINLOG_FLUSH"}, FlushPcs, q)'
                              /\ \E i \in DOMAIN Held'[q] : Held'[q][i] = u
      BY DEF Fresh, Region
    <3>4. InPlaceAction(t)
      BY DEF InPlaceAction
    <3>5. Held' = Held
      BY <3>4, InPlaceActions, InPlaceStep
    <3>6. q # <<"list", t>>
      BY <1>18, <3>3, PlaceCases DEF InRegion, FlushPcs
    <3>7. u \notin Members(list[t])
      <4> SUFFICES ASSUME u \in Members(list[t]) PROVE FALSE
        OBVIOUS
      <4>1. \E k \in DOMAIN Held[<<"list", t>>] : Held[<<"list", t>>][k] = u
        BY <1>2, ListElement
      <4>2. DOMAIN Held = Places /\ <<"list", t>> \in Places
        BY HeldBefore, PlaceCases
      <4> QED BY <3>3, <3>5, <3>6, <4>1, <4>2 DEF Linked, Once
    <3> QED BY <1>5, <1>9, <3>1, <3>2, <3>7 DEF Counted, NotYetWritten
  <2> QED BY <2>1 DEF NotYetWritten
<1>20. WrittenInCommit'
  <2> SUFFICES ASSUME NEW u \in BinlogThds, xid_written'[u]
               PROVE  pc'[u] \notin OutsideCommit \cup {"prepared"}
    BY DEF WrittenInCommit
  <2>1. CASE u = t
    BY <1>18, <2>1 DEF OutsideCommit
  <2>2. CASE u # t /\ xid_written[u]
    BY <1>17, <2>2 DEF Counted, WrittenInCommit
  <2>3. CASE u # t /\ u \in W
    <3>1. PICK k \in DOMAIN Held[<<"list", t>>] : Held[<<"list", t>>][k] = u
      BY <1>2, <1>5, <2>3, ListElement
    <3>2. pc[u] = "follow"
      BY <2>3, <3>1, PlaceCases DEF Linked, Asleep, Leads
    <3> QED BY <1>17, <2>3, <3>2 DEF OutsideCommit
  <2> QED BY <1>9, <2>1, <2>2, <2>3
<1> QED BY <1>13, <1>15, <1>16, <1>19, <1>20, BegunStep DEF Counted

(* Every step preserves the invariant. *)
LEMMA NextCounted ==
  ASSUME NoOrderWorkers, IInv, IInv', Linked, Account, Counted, [Next]_vars
  PROVE  Counted'
<1>1. ASSUME NEW t \in BinlogThds, Prepare(t) \/ FlushLogs(t) \/ BinlogStep(t)
      PROVE  Counted'
  <2>1. CASE WriteBinlog(t)
    BY <2>1, WriteCount
  <2>2. CASE CommitGroupDone(t)
    <3>1. list[t] \in Seq(BinlogThds) /\ pc[t] = "commit" /\ pc[t] \in LeaderPcs
      BY <2>2 DEF CommitGroupDone, LeaderPcs, IInv, CommitTypeOK, LeaderTypeOK
    <3>2. ASSUME NEW u \in Members(list[t])
          PROVE  ~Uncommitted(u) /\ pc[u] \notin OutsideCommit
      <4>1. \E k \in DOMAIN Held[<<"list", t>>] : Held[<<"list", t>>][k] = u
        BY <3>1, ListElement
      <4>2. pc[u] = "follow" \/ u = t
        BY <4>1, PlaceCases DEF Linked, Asleep, Leads
      <4>3. ~commit_low[u]
        BY <2>2 DEF CommitGroupDone
      <4> QED BY <3>1, <4>2, <4>3 DEF Uncommitted, OutsideCommit
    <3>3. BinlogStep(t) /\ ~FinishCommit(t) /\ ~OrderedCommit(t)
      BY <2>2, <3>1 DEF BinlogStep, FinishCommit, OrderedCommit
    <3> QED BY <2>2, <3>1, <3>2, <3>3, CountDown DEF CommitGroupDone, logVars
  <2>3. CASE FinishCommit(t)
    <3>1. <<t>> \in Seq(BinlogThds) /\ Members(<<t>>) = {t}
      BY DEF Members
    <3>2. ~Uncommitted(t) /\ pc[t] \notin OutsideCommit
      BY <2>3 DEF FinishCommit, Account, FlagInCommit, InCommit, Uncommitted, OutsideCommit
    <3>3. BinlogStep(t) /\ DecPrepXids(<<t>>) /\ UNCHANGED <<binlog, trx>>
      BY <2>3 DEF BinlogStep, FinishCommit, logVars
    <3>4. ~xid_written'[t]
      BY <3>1, <3>3, ThdsFacts DEF DecPrepXids
    <3> QED BY <3>1, <3>2, <3>3, <3>4, CountDown
  <2>4. CASE OrderedCommit(t)
    <3>1. ~xid_written[t]
      BY <2>4 DEF OrderedCommit, Counted, WrittenInCommit
    <3>2. \A u \in BinlogThds : xid_written'[u] <=> xid_written[u] /\ u # t
      BY <2>4, ThdsFacts DEF OrderedCommit, InitThdVariables, IInv, CommitTypeOK, ThdTypeOK
    <3>3. UNCHANGED <<prep_xids, binlog, trx>>
      BY <2>4 DEF OrderedCommit, logVars, otherVars
    <3> QED BY <1>1, <3>1, <3>2, <3>3, QuietCount
  <2>5. CASE Prepare(t) /\ UNCHANGED <<xid_written, prep_xids, binlog>>
    <3>1. ~xid_written[t] /\ ~FinishCommit(t) /\ ~OrderedCommit(t)
      BY <2>5 DEF Prepare, FinishCommit, OrderedCommit, OutsideCommit, Counted, WrittenInCommit
    <3>2. \A u \in BinlogThds \ {t} : trx'[u] = trx[u]
      BY <2>5, ThdsFacts DEF Prepare, IInv, CommitTypeOK, ThdTypeOK
    <3> QED BY <2>5, <3>1, <3>2, QuietCount
  <2>6. CASE UNCHANGED <<xid_written, prep_xids, binlog, trx>> /\ ~FinishCommit(t) /\ ~OrderedCommit(t)
    BY <1>1, <2>6, QuietCount
  <2> QED BY <1>1, <2>1, <2>2, <2>3, <2>4, <2>5, <2>6, CountCases
<1>2. CASE SetOrderCommits \/ Stop \/ UNCHANGED vars
  <2>1. UNCHANGED <<pc, queue, list, xid_written, trx, prep_xids, binlog, committed>>
    BY <1>2 DEF SetOrderCommits, Stop, vars, stageVars, leaderVars, thdVars, logVars,
       engineVars, otherVars
  <2>2. Held' = Held
    BY <2>1 DEF Held
  <2>3. Fresh' = Fresh
    BY <2>1, <2>2 DEF Fresh, Region, InRegion
  <2>4. NotYetWritten' /\ WrittenInCommit' /\ BegunInCommit'
    BY <2>1, <2>3 DEF Counted, NotYetWritten, WrittenInCommit, BegunInCommit
  <2>5. CountIsRight'
    BY <2>1 DEF Counted, CountIsRight
  <2>6. LoggedIsCounted'
    BY <2>1 DEF Counted, LoggedIsCounted, Trx
  <2> QED BY <2>4, <2>5, <2>6 DEF Counted
<1> QED BY <1>1, <1>2 DEF Next, NoOrderWorkers

(* The invariant holds at first. *)
LEMMA InitCounted ==
  ASSUME Init PROVE Counted
<1>1. \A t \in BinlogThds : ~xid_written[t] /\ pc[t] = "idle"
  BY ThdsFacts DEF Init
<1>2. {t \in BinlogThds : xid_written[t]} = {}
  BY <1>1
<1>3. prep_xids = 0 /\ binlog = << >>
  BY DEF Init
<1>4. DOMAIN binlog = {}
  BY <1>3
<1>5. Fresh \subseteq BinlogThds
  BY DEF Fresh, Region
<1> QED BY <1>1, <1>2, <1>3, <1>4, <1>5, FS_EmptySet DEF Counted, NotYetWritten, WrittenInCommit,
        BegunInCommit, CountIsRight, LoggedIsCounted, OutsideCommit

(* new_file_impl, "We need to ensure that the number of prepared XIDs are  *)
(* 0", for any number of sessions, with any errors and settings: the count *)
(* that a rotation waits for is the number of sessions whose transaction   *)
(* was written and not counted down again, and when it is zero the engine  *)
(* has committed everything in the binary log.                             *)
THEOREM PrepXidsCoverLogHolds ==
  ASSUME NoOrderWorkers PROVE Spec => []PrepXidsCoverLog
<1>1. Init => Counted
  BY InitCounted
<1>2. IInv /\ IInv' /\ Linked /\ Account /\ Counted /\ [Next]_vars => Counted'
  BY NextCounted
<1>3. IInv /\ Counted => PrepXidsCoverLog
  <2> SUFFICES ASSUME IInv, Counted PROVE PrepXidsCoverLog
    OBVIOUS
  <2> DEFINE X == {t \in BinlogThds : xid_written[t]}
  <2>1. prep_xids = Cardinality(X)
    BY DEF Counted, CountIsRight
  <2>2. ASSUME prep_xids = 0, NEW i \in 1 .. Len(binlog) PROVE binlog[i] \in Members(committed)
    <3>1. X \subseteq BinlogThds
      OBVIOUS
    <3>2. X = {}
      BY <2>1, <2>2, <3>1, ConfigAssumption, FS_Subset, FS_EmptySet
    <3>3. i \in DOMAIN binlog
      BY LenProperties DEF IInv, CommitTypeOK, LogTypeOK
    <3> QED BY <3>2, <3>3 DEF Counted, LoggedIsCounted
  <2> QED BY <2>1, <2>2 DEF PrepXidsCoverLog, Logged
<1> QED BY <1>1, <1>2, <1>3, Invariance, LinkedInvariance, AccountInvariance, PTL DEF Spec

-----------------------------------------------------------------------------
(***************************************************************************)
(* What the leaders leave to the sessions themselves.                      *)
(***************************************************************************)
Done(u) == ~commit_low[u] /\ gno[u] = 0 /\ ~xid_written[u]

AllDone(u) == Done(u) /\ ~run_hooks[u]

(* The sessions the commit stage leader has done its work for. *)
ServedPcs == {"to_after_commit", "after_commit"}

Served == Region({"AFTER_COMMIT"}, ServedPcs)

ServedIsDone == \A u \in Served : Done(u)

(* A leader past its last stage, unless it is about to stop the server. *)
Ending(c) == c \in {"close_sync", "signal"} \/ (c = "sync_error" /\ ~AbortServer)

GroupIsDone ==
  \A t \in BinlogThds : Ending(pc[t]) => \A u \in Members(list[t]) : AllDone(u)

(* With ordered commits the commit stage is skipped on one way only. *)
SkipIsFatal ==
  \A t \in BinlogThds : pc[t] = "after_sync" => AbortServer /\ err[t] = "sync"

Leaving(c, pend) == c = "finish" \/ (c = "follow" /\ ~pend)

LeaverIsDone == \A t \in BinlogThds : Leaving(pc[t], pending[t]) => AllDone(t)

Phases == ServedIsDone /\ GroupIsDone /\ SkipIsFatal /\ LeaverIsDone

(* Only the flush leader of a session and the session itself set flags. *)
LEMMA FlagsFall ==
  ASSUME IInv, NEW t \in BinlogThds, Prepare(t) \/ FlushLogs(t) \/ BinlogStep(t),
         NEW u \in BinlogThds,
         WriteBinlog(t) => u \notin Members(list[t]), OrderedCommit(t) => u # t
  PROVE  (Done(u) => Done(u)') /\ (AllDone(u) => AllDone(u)')
<1> USE ThdsFacts DEF Done, AllDone
<1>1. CASE WriteBinlog(t)
  <2>1. PICK written \in Subsequences(list[t]) : FlushThreadCaches(written)
    BY <1>1 DEF WriteBinlog
  <2>2. list[t] \in Seq(BinlogThds)
    BY DEF IInv, CommitTypeOK, LeaderTypeOK
  <2>3. u \notin Members(written)
    BY <1>1, <2>2, SubsequenceMembers
  <2>4. xid_written'[u] <=> xid_written[u]
    BY <2>1, <2>3 DEF FlushThreadCaches
  <2>5. gno'[u] = gno[u]
    BY <1>1 DEF WriteBinlog, AssignGtids
  <2> QED BY <1>1, <2>4, <2>5 DEF WriteBinlog
<1>2. CASE OrderedCommit(t)
  <2>1. /\ commit_low'[u] = commit_low[u] /\ xid_written'[u] = xid_written[u]
        /\ run_hooks'[u] = run_hooks[u] /\ gno' = gno
    BY <1>2 DEF OrderedCommit, InitThdVariables, gtidVars, IInv, CommitTypeOK, ThdTypeOK
  <2> QED BY <2>1
<1>3. ASSUME NEW v \in BinlogThds, CommitInEngine(v), UNCHANGED <<xid_written, run_hooks, gno>>
      PROVE  (Done(u) => Done(u)') /\ (AllDone(u) => AllDone(u)')
  <2>1. ~commit_low[u] => ~commit_low'[u]
    BY <1>3 DEF CommitInEngine, IInv, CommitTypeOK, ThdTypeOK
  <2> QED BY <1>3, <2>1
<1>4. CASE CommitNext(t)
  <2>1. PICK i \in DOMAIN list[t] : CommitInEngine(list[t][i])
    BY <1>4 DEF CommitNext
  <2>2. list[t][i] \in BinlogThds
    BY DEF IInv, CommitTypeOK, LeaderTypeOK
  <2> QED BY <1>3, <1>4, <2>1, <2>2 DEF CommitNext, gtidVars
<1>5. CASE FinishInEngine(t)
  BY <1>3, <1>5 DEF FinishInEngine, gtidVars
<1>6. CASE CommitGroupDone(t)
  <2>1. /\ ~xid_written[u] => ~xid_written'[u]
        /\ gno[u] = 0 => gno'[u] = 0
    BY <1>6 DEF CommitGroupDone, DecPrepXids, UpdateCommitGroup
  <2> QED BY <1>6, <2>1 DEF CommitGroupDone
<1>7. CASE AfterCommit(t)
  <2>1. ~run_hooks[u] => ~run_hooks'[u]
    BY <1>7 DEF AfterCommit
  <2> QED BY <1>7, <2>1 DEF AfterCommit, gtidVars
<1>8. CASE FinishCommit(t)
  <2>1. ~xid_written[u] => ~xid_written'[u]
    BY <1>8 DEF FinishCommit, DecPrepXids
  <2>2. gno[u] = 0 => gno'[u] = 0
    BY <1>8 DEF FinishCommit, UpdateOwnGtid, IInv, CommitTypeOK, GtidTypeOK
  <2>3. ~run_hooks[u] => ~run_hooks'[u]
    BY <1>8 DEF FinishCommit, IInv, CommitTypeOK, ThdTypeOK
  <2> QED BY <1>8, <2>1, <2>2, <2>3 DEF FinishCommit
<1>9. CASE /\ ~WriteBinlog(t) /\ ~OrderedCommit(t) /\ ~CommitNext(t) /\ ~FinishInEngine(t)
           /\ ~CommitGroupDone(t) /\ ~AfterCommit(t) /\ ~FinishCommit(t)
  <2>1. CASE ~FinishOrderList(t)
    <3>1. UNCHANGED <<commit_low, xid_written, run_hooks, gno>>
      BY <1>9, <2>1 DEF BinlogStep, Prepare, FlushLogs, BinlogLeader, EnterFlush,
         FlushEngine, CloseBinlog, LeaveFlush, LeaveClosedFlush, EnterSync, SyncBinlog,
         LeaveSync, EnterCommit, AfterSyncHook, LeaveCommit, EnterAfterCommit,
         HandleSyncError, Signal, FollowerWakes, RotateLock, WaitForPrepXids, NewFile,
         ChangeStage, EnterStage, thdVars, gtidVars
    <3> QED BY <3>1
  <2>2. CASE FinishOrderList(t)
    BY <2>2 DEF FinishOrderList, UpdateRelayGtids, thdVars
  <2> QED BY <2>1, <2>2
<1> QED BY <1>1, <1>2, <1>4, <1>5, <1>6, <1>7, <1>8, <1>9

(* A session is served when its commit stage leader is done. *)
LEMMA ServedStep ==
  ASSUME NoOrderWorkers, IInv, IInv', Linked, NEW t \in BinlogThds,
         Prepare(t) \/ FlushLogs(t) \/ BinlogStep(t), NEW u \in Served'
  PROVE  u \in Served \/ (CommitGroupDone(t) /\ u \in Members(list[t]))
<1>1. u \in BinlogThds
  BY DEF Served, Region
<1>2. u \in Region({"AFTER_COMMIT"}, ServedPcs) \/ Enters({"AFTER_COMMIT"}, ServedPcs, t, u)
  BY <1>1, RegionStep DEF Served, ServedPcs
<1>3. pc'[t] \in ServedPcs => pc[t] = pc'[t] \/ CommitGroupDone(t) \/ EnterAfterCommit(t)
  BY Paths, NextStages DEF Path, ServedPcs, FlushPcs, OutsideCommit
<1>4. EnterAfterCommit(t) => pc[t] = "AFTER_COMMIT"
  BY DEF EnterAfterCommit, EnterStage
<1>5. InPlaceAction(t) => pc[t] # "AFTER_COMMIT"
  <2>1. InPlaceAction(t) => \E l : InPlace(t, l)
    BY InPlaceActions
  <2> QED BY <2>1 DEF InPlace, LeaderPcs, QueueLeaderPcs
<1>6. FetchAction(t) => pc[t] \in Stages
  BY FetchActions DEF Stages
<1>7. CommitGroupDone(t) => pc[t] \notin Stages
  BY DEF CommitGroupDone, Stages
<1>8. Stages \cap ServedPcs = {}
  BY DEF Stages, ServedPcs
<1>9. ChangeAction(t) /\ NextStage[pc[t]] = "AFTER_COMMIT" => pc[t] \in ServedPcs
  BY NextStages DEF ServedPcs
<1> QED BY <1>2, <1>3, <1>4, <1>5, <1>6, <1>7, <1>8, <1>9 DEF Enters, Served

(* A step of t wakes nobody but the sessions of the list that it signals, *)
(* and changes no list and no error but its own.                          *)
LEMMA OwnList ==
  ASSUME NoOrderWorkers, IInv, IInv', Linked, NEW t \in BinlogThds,
         Prepare(t) \/ FlushLogs(t) \/ BinlogStep(t)
  PROVE  /\ \A v \in BinlogThds \ {t} : list'[v] = list[v] /\ err'[v] = err[v]
         /\ \A v \in BinlogThds :
              pending[v] /\ ~pending'[v] => Signal(t) /\ v \in Members(list[t])
<1> USE ThdsFacts
<1>1. ASSUME NEW v \in BinlogThds \ {t} PROVE list'[v] = list[v]
  BY DEF BinlogStep, Prepare, FlushLogs, OrderedCommit, BinlogLeader, EnterFlush,
     FlushEngine, FinishOrderList, WriteBinlog, CloseBinlog, LeaveFlush, LeaveClosedFlush,
     EnterSync, SyncBinlog, LeaveSync, EnterCommit, AfterSyncHook, CommitNext, CommitGroupDone,
     LeaveCommit, EnterAfterCommit, AfterCommit, HandleSyncError, Signal, FollowerWakes,
     FinishInEngine, FinishCommit, RotateLock, WaitForPrepXids, NewFile, ChangeStage,
     EnterStage, leaderVars, IInv, CommitTypeOK, LeaderTypeOK
<1>2. ASSUME NEW v \in BinlogThds \ {t} PROVE err'[v] = err[v]
  BY DEF BinlogStep, Prepare, FlushLogs, OrderedCommit, BinlogLeader, EnterFlush,
     FlushEngine, FinishOrderList, WriteBinlog, CloseBinlog, LeaveFlush, LeaveClosedFlush,
     EnterSync, SyncBinlog, LeaveSync, EnterCommit, AfterSyncHook, CommitNext, CommitGroupDone,
     LeaveCommit, EnterAfterCommit, AfterCommit, HandleSyncError, Signal, FollowerWakes,
     FinishInEngine, FinishCommit, RotateLock, WaitForPrepXids, NewFile, ChangeStage,
     EnterStage, leaderVars, IInv, CommitTypeOK, LeaderTypeOK
<1>3. ASSUME NEW v \in BinlogThds, pending[v], ~pending'[v]
      PROVE  Signal(t) /\ v \in Members(list[t])
  <2>1. CASE InPlaceAction(t)
    BY <1>3, <2>1, InPlaceActions DEF InPlace
  <2>2. CASE StillAction(t)
    BY <1>3, <2>2, StillActions
  <2>3. CASE FetchAction(t)
    <3>1. \E p, q : MovesTo(t, p, q)
      BY <2>3, FetchActions
    <3> QED BY <1>3, <3>1 DEF MovesTo
  <2>4. CASE ChangeAction(t)
    BY <1>3, <2>4, ChangeActions DEF MovesTo
  <2>5. CASE Signal(t)
    BY <1>3, <2>5 DEF Signal, SignalDone, Members
  <2>6. CASE OrderedCommit(t)
    BY <1>3, <2>6 DEF OrderedCommit, InitThdVariables, IInv, CommitTypeOK, StageTypeOK, SyncTypeOK
  <2>7. CASE BinlogLeader(t)
    BY <1>3, <2>7 DEF BinlogLeader, BinlogLeaderWakes
  <2> QED BY <2>1, <2>2, <2>3, <2>4, <2>5, <2>6, <2>7, ActionCases
<1> QED BY <1>1, <1>2, <1>3

(* Two leaders have no session in common. *)
LEMMA ListsApart ==
  ASSUME NoOrderWorkers, IInv, Linked, NEW t \in BinlogThds, NEW v \in BinlogThds, t # v,
         pc[t] \in LeaderPcs, pc[v] \in LeaderPcs
  PROVE  Members(list[t]) \cap Members(list[v]) = {}
<1> SUFFICES ASSUME NEW u \in Members(list[t]), u \in Members(list[v]) PROVE FALSE
  OBVIOUS
<1>1. /\ \E i \in DOMAIN Held[<<"list", t>>] : Held[<<"list", t>>][i] = u
      /\ \E i \in DOMAIN Held[<<"list", v>>] : Held[<<"list", v>>][i] = u
  BY ListElement
<1>2. /\ DOMAIN Held = Places /\ <<"list", t>> \in Places /\ <<"list", v>> \in Places
      /\ <<"list", t>> # <<"list", v>>
  BY HeldBefore, PlaceCases
<1> QED BY <1>1, <1>2 DEF Linked, Once

(* A session nobody has linked is in no leader's list. *)
LEMMA NotInList ==
  ASSUME NoOrderWorkers, IInv, Linked, NEW v \in BinlogThds, NEW t \in BinlogThds,
         pc[t] \in LeaderPcs, pc[v] \notin LeaderPcs \cup QueueLeaderPcs,
         pc[v] = "follow" => ~pending[v]
  PROVE  v \notin Members(list[t])
<1>1. <<"list", t>> \in Places
  BY PlaceCases
<1>2. \A i \in DOMAIN Held[<<"list", t>>] : Held[<<"list", t>>][i] # v
  BY <1>1, NotHeld
<1> QED BY <1>2, ListElement

(* A leader is in its own list. *)
LEMMA LeaderInList ==
  ASSUME IInv, NEW t \in BinlogThds, pc[t] \in LeaderPcs
  PROVE  t \in Members(list[t]) /\ Members(list[t]) \subseteq BinlogThds
<1>1. list[t] \in Seq(BinlogThds) /\ list[t] # << >> /\ Head(list[t]) = t
  BY DEF IInv, CommitTypeOK, LeaderTypeOK, Structure, LeaderHeadsList
<1>2. 1 \in DOMAIN list[t] /\ list[t][1] = t
  BY <1>1, EmptySeq, LenProperties, HeadTailProperties
<1> QED BY <1>1, <1>2, MembersFacts DEF Members

(* What was done for a session that is linked behind the flush stage, or   *)
(* not linked at all, stays done.                                          *)
LEMMA StaysDone ==
  ASSUME NoOrderWorkers, IInv, IInv', Linked, NEW t \in BinlogThds,
         Prepare(t) \/ FlushLogs(t) \/ BinlogStep(t), NEW u \in BinlogThds,
         \/ u \in Served
         \/ \E v \in BinlogThds : pc[v] \in LeaderPcs \ {"write"} /\ u \in Members(list[v])
         \/ Leaving(pc[u], pending[u])
  PROVE  (Done(u) => Done(u)') /\ (AllDone(u) => AllDone(u)')
<1>1. ASSUME WriteBinlog(t) PROVE u \notin Members(list[t])
  <2>1. pc[t] = "write" /\ pc[t] \in LeaderPcs /\ pc[t] \notin ServedPcs
    BY <1>1 DEF WriteBinlog, LeaderPcs, ServedPcs
  <2>2. CASE u \in Served
    BY <2>1, <2>2, ListApart DEF Served
  <2>3. CASE \E v \in BinlogThds : pc[v] \in LeaderPcs \ {"write"} /\ u \in Members(list[v])
    BY <2>1, <2>3, ListsApart
  <2>4. CASE Leaving(pc[u], pending[u])
    <3>1. pc[u] \notin LeaderPcs \cup QueueLeaderPcs /\ (pc[u] = "follow" => ~pending[u])
      BY <2>4 DEF Leaving, LeaderPcs, QueueLeaderPcs
    <3> QED BY <2>1, <3>1, NotInList
  <2> QED BY <2>2, <2>3, <2>4
<1>2. ASSUME OrderedCommit(t) PROVE u # t
  <2>1. /\ pc[t] = "prepared" /\ pc[t] \notin LeaderPcs \cup QueueLeaderPcs
        /\ ~Leaving(pc[t], pending[t])
    BY <1>2 DEF OrderedCommit, LeaderPcs, QueueLeaderPcs, Leaving
  <2>2. t \notin Served
    BY <2>1, OutsideRegion DEF Served
  <2>3. \A v \in BinlogThds : pc[v] \in LeaderPcs \ {"write"} => t \notin Members(list[v])
    BY <2>1, NotInList
  <2> QED BY <2>1, <2>2, <2>3
<1> QED BY <1>1, <1>2, FlagsFall

(* Sessions past the commit stage have been served. *)
LEMMA ServedPhase ==
  ASSUME NoOrderWorkers, IInv, IInv', Linked, Phases, NEW t \in BinlogThds,
         Prepare(t) \/ FlushLogs(t) \/ BinlogStep(t)
  PROVE  ServedIsDone'
<1> SUFFICES ASSUME NEW u \in Served' PROVE Done(u)'
  BY DEF ServedIsDone
<1>1. u \in BinlogThds
  BY DEF Served, Region
<1>2. CASE u \in Served
  BY <1>1, <1>2, StaysDone DEF Phases, ServedIsDone
<1>3. CASE CommitGroupDone(t) /\ u \in Members(list[t])
  <2>1. ~commit_low[u] /\ commit_low' = commit_low
    BY <1>3 DEF CommitGroupDone
  <2>2. gno'[u] = 0 /\ ~xid_written'[u]
    BY <1>1, <1>3, ThdsFacts DEF CommitGroupDone, UpdateCommitGroup, DecPrepXids
  <2> QED BY <2>1, <2>2 DEF Done
<1> QED BY <1>2, <1>3, ServedStep

(* A group that is about to be signalled has been served. *)
LEMMA GroupPhase ==
  ASSUME NoOrderWorkers, IInv, IInv', Linked, Phases, NEW t \in BinlogThds,
         Prepare(t) \/ FlushLogs(t) \/ BinlogStep(t)
  PROVE  GroupIsDone'
<1>0. \A c : Ending(c) => c \in LeaderPcs \ {"write"}
  BY DEF Ending, LeaderPcs
<1> SUFFICES ASSUME NEW v \in BinlogThds, Ending(pc'[v]), NEW u \in Members(list'[v])
             PROVE  AllDone(u)'
  BY DEF GroupIsDone, Ending
<1>1. ASSUME Ending(pc[v]), list'[v] = list[v] PROVE AllDone(u)'
  <2>1. pc[v] \in LeaderPcs \ {"write"} /\ u \in Members(list[v]) /\ AllDone(u)
    BY <1>0, <1>1 DEF Phases, GroupIsDone
  <2>2. u \in BinlogThds
    BY <2>1, LeaderInList
  <2> QED BY <2>1, <2>2, StaysDone
<1>2. Path(t, pc'[t]) /\ \A w \in BinlogThds \ {t} : pc'[w] = pc[w]
  BY Paths, ThdsFacts
<1>3. CASE v # t
  BY <1>1, <1>2, <1>3, OwnList
<1>4. CASE v = t
  <2>1. CASE StillAction(t) /\ pc'[t] = pc[t]
    BY <1>1, <1>4, <2>1, StillActions
  <2>2. CASE AfterCommit(t)
    <3>1. pc[t] = "after_commit" /\ pc[t] \in LeaderPcs \cap ServedPcs /\ list' = list
      BY <2>2 DEF AfterCommit, LeaderPcs, ServedPcs, leaderVars
    <3>2. u \in Members(list[t]) /\ u \in Served
      BY <1>4, <3>1, ListRegion DEF Served
    <3>3. u \in BinlogThds /\ Done(u)
      BY <3>1, <3>2, LeaderInList DEF Phases, ServedIsDone
    <3>4. Done(u)'
      BY <3>2, <3>3, StaysDone
    <3>5. ~run_hooks'[u]
      BY <2>2, <3>2, <3>3, ThdsFacts DEF AfterCommit
    <3> QED BY <3>4, <3>5 DEF AllDone
  <2>3. CASE AfterSyncHook(t) /\ pc[t] = "after_sync"
    <3>1. AbortServer /\ err[t] = "sync"
      BY <2>3 DEF Phases, SkipIsFatal
    <3>2. err' = err
      BY <2>3, <3>1 DEF AfterSyncHook
    <3>3. Goto(t, "sync_error")
      BY <2>3, <3>1, <3>2 DEF AfterSyncHook
    <3>4. pc'[t] = "sync_error"
      BY <3>3, ThdsFacts DEF Goto, IInv, CommitTypeOK, StageTypeOK, PcTypeOK
    <3> QED BY <1>4, <3>1, <3>4 DEF Ending
  <2>4. CASE HandleSyncError(t) /\ pc[t] = "sync_error" /\ ~AbortServer
    BY <1>1, <1>4, <2>4 DEF HandleSyncError, leaderVars, Ending
  <2>5. CASE CloseBinlog(t) /\ pc[t] = "close_sync"
    BY <1>1, <1>4, <2>5 DEF CloseBinlog, leaderVars, Ending
  <2> QED BY <1>2, <1>4, <2>1, <2>2, <2>3, <2>4, <2>5, NextStages DEF Path, Ending, FlushPcs, OutsideCommit
<1> QED BY <1>3, <1>4

(* With ordered commits only a fatal error skips the commit stage. *)
LEMMA SkipPhase ==
  ASSUME NoOrderWorkers, IInv, IInv', Linked, Phases, order_commits, NEW t \in BinlogThds,
         Prepare(t) \/ FlushLogs(t) \/ BinlogStep(t)
  PROVE  SkipIsFatal'
<1> SUFFICES ASSUME NEW v \in BinlogThds, pc'[v] = "after_sync"
             PROVE  AbortServer /\ err'[v] = "sync"
  BY DEF SkipIsFatal
<1>1. Path(t, pc'[t]) /\ \A w \in BinlogThds \ {t} : pc'[w] = pc[w]
  BY Paths, ThdsFacts
<1>2. CASE v # t
  BY <1>1, <1>2, OwnList DEF Phases, SkipIsFatal
<1>3. CASE v = t
  <2>1. ~(StillAction(t) /\ pc[t] = "after_sync")
    BY DEF StillAction, CommitNext, HandleSyncError
  <2>2. SyncBinlog(t)
    BY <1>1, <1>3, <2>1, NextStages DEF Path, FlushPcs, OutsideCommit
  <2>3. PICK fails \in BOOLEAN :
          /\ err' = IF fails THEN [err EXCEPT ![t] = "sync"] ELSE err
          /\ ~(fails /\ AbortServer) => Goto(t, "to_commit")
    BY <2>2 DEF SyncBinlog
  <2>4. fails /\ AbortServer
    <3>1. Goto(t, "to_commit") => pc'[t] = "to_commit"
      BY ThdsFacts DEF Goto, IInv, CommitTypeOK, StageTypeOK, PcTypeOK
    <3> QED BY <1>3, <2>3, <3>1
  <2> QED BY <1>3, <2>3, <2>4, ThdsFacts DEF IInv, CommitTypeOK, LeaderTypeOK
<1> QED BY <1>2, <1>3

(* A session that leaves has been served. *)
LEMMA LeaverPhase ==
  ASSUME NoOrderWorkers, IInv, IInv', Linked, Phases, NEW t \in BinlogThds,
         Prepare(t) \/ FlushLogs(t) \/ BinlogStep(t)
  PROVE  LeaverIsDone'
<1> SUFFICES ASSUME NEW v \in BinlogThds, Leaving(pc'[v], pending'[v]) PROVE AllDone(v)'
  BY DEF LeaverIsDone, Leaving
<1>1. Path(t, pc'[t]) /\ \A w \in BinlogThds \ {t} : pc'[w] = pc[w]
  BY Paths, ThdsFacts
<1>2. CASE Leaving(pc[v], pending[v])
  BY <1>2, StaysDone DEF Phases, LeaverIsDone
<1>3. CASE Signal(t) /\ v \in Members(list[t])
  <2>1. AllDone(v)
    BY <1>3 DEF Signal, Phases, GroupIsDone, Ending
  <2> QED BY <1>3, <2>1 DEF Signal, thdVars, gtidVars, AllDone, Done
<1>4. CASE v # t /\ ~Leaving(pc[v], pending[v])
  <2>1. pending[v] /\ ~pending'[v]
    BY <1>1, <1>4 DEF Leaving
  <2> QED BY <1>3, <2>1, OwnList
<1>5. CASE v = t /\ ~Leaving(pc[v], pending[v])
  <2>1. CASE pc'[t] = "finish"
    <3>1. ~(StillAction(t) /\ pc[t] = "finish")
      BY DEF StillAction, CommitNext, HandleSyncError
    <3>2. ~FollowerWakes(t)
      BY <1>5 DEF FollowerWakes, Leaving
    <3>3. Signal(t)
      BY <1>1, <2>1, <3>1, <3>2, NextStages DEF Path, FlushPcs, OutsideCommit
    <3>4. t \in Members(list[t])
      BY <3>3, LeaderInList DEF Signal, LeaderPcs
    <3> QED BY <1>3, <1>5, <3>3, <3>4
  <2>2. CASE pc'[t] = "follow" /\ ~pending'[t]
    <3>1. ~(StillAction(t) /\ pc[t] = "follow")
      BY DEF StillAction, CommitNext, HandleSyncError
    <3>2. OrderedCommit(t) \/ ChangeAction(t)
      BY <1>1, <2>2, <3>1, NextStages DEF Path, FlushPcs, OutsideCommit
    <3>3. ~OrderedCommit(t)
      BY <2>2, ThdsFacts DEF OrderedCommit, InitThdVariables, IInv, CommitTypeOK, StageTypeOK,
         SyncTypeOK
    <3>4. \E s \in Stages : MovesTo(t, <<"list", t>>, <<"queue", s>>)
      BY <3>2, <3>3, ChangeActions DEF Stages
    <3>5. UNCHANGED pending /\ \E k \in DOMAIN Held[<<"list", t>>] : Held[<<"list", t>>][k] = t
      BY <3>4 DEF MovesTo
    <3>6. pending[t]
      BY <3>5, PlaceCases DEF Linked, Asleep
    <3> QED BY <2>2, <3>5, <3>6
  <2> QED BY <1>5, <2>1, <2>2 DEF Leaving
<1> QED BY <1>2, <1>4, <1>5

(* Every step preserves the invariant. *)
LEMMA NextPhases ==
  ASSUME NoOrderWorkers, AlwaysOrdered, SettingsTypeOK, IInv, IInv', Linked, Phases, [Next]_vars
  PROVE  Phases'
<1>1. order_commits
  BY ConfigAssumption DEF AlwaysOrdered, SettingsTypeOK
<1>2. ASSUME NEW t \in BinlogThds, Prepare(t) \/ FlushLogs(t) \/ BinlogStep(t)
      PROVE  Phases'
  BY <1>1, <1>2, ServedPhase, GroupPhase, SkipPhase, LeaverPhase DEF Phases
<1>3. CASE SetOrderCommits \/ Stop \/ UNCHANGED vars
  <2>1. UNCHANGED <<pc, queue, pending, list, err, commit_low, gno, xid_written, run_hooks>>
    BY <1>3 DEF SetOrderCommits, Stop, vars, stageVars, leaderVars, thdVars, gtidVars
  <2>2. Held' = Held
    BY <2>1 DEF Held
  <2>3. Served' = Served
    BY <2>1, <2>2 DEF Served, Region, InRegion
  <2>4. \A u : (Done(u)' <=> Done(u)) /\ (AllDone(u)' <=> AllDone(u))
    BY <2>1 DEF Done, AllDone
  <2>5. ServedIsDone' /\ GroupIsDone' /\ SkipIsFatal' /\ LeaverIsDone'
    BY <2>1, <2>3, <2>4 DEF Phases, ServedIsDone, GroupIsDone, SkipIsFatal, LeaverIsDone,
       Leaving, Ending
  <2> QED BY <2>5 DEF Phases
<1> QED BY <1>2, <1>3 DEF Next, NoOrderWorkers

(* At first nobody is served. *)
LEMMA InitPhases ==
  ASSUME Init PROVE Phases
<1>1. \A t \in BinlogThds : pc[t] = "idle" /\ ~commit_low[t] /\ gno[t] = 0 /\ ~xid_written[t]
  BY ThdsFacts DEF Init
<1>2. Served \subseteq BinlogThds
  BY DEF Served, Region
<1> QED BY <1>1, <1>2 DEF Phases, ServedIsDone, GroupIsDone, SkipIsFatal, LeaverIsDone,
        Done, Ending, Leaving

(* finish_commit, "If the ordered commit didn't updated the GTIDs for this *)
(* thd yet", for any number of sessions and with any errors: while         *)
(* binlog_order_commits is never switched off there is nothing left for a  *)
(* session to do for itself - its leaders committed it in the engine,      *)
(* released its GTID, counted its xid down and ran its after_commit hook.  *)
THEOREM LeaderDidEverythingHolds ==
  ASSUME NoOrderWorkers PROVE Spec => []LeaderDidEverything
<1>1. ASSUME AlwaysOrdered PROVE Spec => []LeaderDidEverything
  <2>1. Init => Phases
    BY InitPhases
  <2>2. SettingsTypeOK /\ IInv /\ IInv' /\ Linked /\ Phases /\ [Next]_vars => Phases'
    BY <1>1, NextPhases
  <2>3. Phases => LeaderDidEverything
    BY DEF Phases, LeaverIsDone, LeaderDidEverything, Leaving, AllDone, Done
  <2>4. TypeOK => SettingsTypeOK
    BY DEF TypeOK
  <2> QED BY <2>1, <2>2, <2>3, <2>4, Invariance, LinkedInvariance, TypeCorrect, PTL DEF Spec
<1>2. ASSUME ~AlwaysOrdered PROVE Spec => []LeaderDidEverything
  <2>1. LeaderDidEverything
    BY <1>2 DEF LeaderDidEverything
  <2> QED BY <2>1, PTL
<1> QED BY <1>1, <1>2

-----------------------------------------------------------------------------
(***************************************************************************)
(* What a crash may lose, with sync_binlog=1.                              *)
(***************************************************************************)

(* The transaction of u is in the log, and in the part of it on disk. *)
InLog(u) == \E i \in DOMAIN binlog : binlog[i] = Trx(u)

Lasts(u) == \E i \in 1 .. synced : binlog[i] = Trx(u)

WrittenPcs == {"close_flush", "to_sync", "sync"}

Written == Region({"SYNC"}, WrittenPcs)

SyncedPcs == {"to_commit", "commit_hook", "commit", "to_after_commit", "after_commit", "signal"}

Synced == Region({"COMMIT", "AFTER_COMMIT"}, SyncedPcs)

(* Before the sync stage is over a leader has seen no sync error. *)
EarlyPcs ==
  {"wait_leader", "BINLOG_FLUSH", "SYNC"} \cup FlushPcs \cup WrittenPcs

ErrorsStop ==
  \A t \in BinlogThds :
    /\ pc[t] # "to_commit_closed"
    /\ err[t] = "flush" => server = "aborted"
    /\ pc[t] \in EarlyPcs => err[t] # "sync"

WrittenIsLogged == \A u \in Written : InLog(u)

SyncedLasts == \A u \in Synced : Lasts(u)

UnorderedLasts ==
  \A t \in BinlogThds :
    pc[t] = "after_sync" /\ err[t] # "sync" => \A u \in Members(list[t]) : Lasts(u)

(* A session that is on its way out of its commit. *)
Left(c, pend) == c \in {"finish", "finish_low"} \/ (c = "follow" /\ ~pend)

LeaverLasts == \A t \in BinlogThds : Left(pc[t], pending[t]) => Lasts(t)

FinishedLasts ==
  \A t \in BinlogThds : \A n \in 1 .. trx[t] :
    n < trx[t] \/ pc[t] \in OutsideCommit => \E i \in 1 .. synced : binlog[i] = <<t, n>>

Durable ==
  /\ ErrorsStop /\ WrittenIsLogged /\ SyncedLasts /\ UnorderedLasts /\ LeaverLasts
  /\ FinishedLasts

(* Every session's cache can be written to the log. *)
CachesFit == "flush_member" \notin Faults

(* The log only grows, and so does what is on disk. *)
LEMMA LogGrows ==
  ASSUME IInv, Sending, NEW t \in BinlogThds, Prepare(t) \/ FlushLogs(t) \/ BinlogStep(t)
  PROVE  /\ DOMAIN binlog \subseteq DOMAIN binlog'
         /\ \A i \in DOMAIN binlog : binlog'[i] = binlog[i]
         /\ synced \in Nat /\ synced' \in Nat /\ synced <= synced'
         /\ 1 .. synced \subseteq DOMAIN binlog
<1>1. /\ binlog \in Seq(Trxs) /\ DOMAIN binlog = 1 .. Len(binlog) /\ Len(binlog) \in Nat
      /\ synced \in Nat /\ synced <= Len(binlog)
  BY LenProperties DEF IInv, CommitTypeOK, LogTypeOK, Sending, SyncedIsWritten
<1>2. 1 .. synced \subseteq DOMAIN binlog
  BY <1>1
<1>3. CASE WriteBinlog(t)
  <2>1. PICK written \in Subsequences(list[t]) : FlushThreadCaches(written)
    BY <1>3 DEF WriteBinlog
  <2>2. list[t] \in Seq(BinlogThds)
    BY DEF IInv, CommitTypeOK, LeaderTypeOK
  <2>3. TrxSeq(written) \in Seq(Trxs) /\ binlog' = binlog \o TrxSeq(written)
    BY <2>1, <2>2, SubsequenceFacts, TrxSeqType DEF FlushThreadCaches
  <2>4. DOMAIN binlog' = 1 .. (Len(binlog) + Len(TrxSeq(written))) /\ Len(TrxSeq(written)) \in Nat
        /\ \A i \in 1 .. Len(binlog) : binlog'[i] = binlog[i]
    BY <1>1, <2>3, ConcatIndex
  <2>5. synced' = synced
    BY <1>3 DEF WriteBinlog
  <2> QED BY <1>1, <1>2, <2>4, <2>5
<1>4. CASE SyncBinlog(t) \/ CloseBinlog(t) \/ NewFile(t)
  <2>1. binlog' = binlog /\ synced' \in {synced, Len(binlog)}
    BY <1>4 DEF SyncBinlog, CloseBinlog, NewFile
  <2> QED BY <1>1, <1>2, <2>1
<1>5. CASE ~WriteBinlog(t) /\ ~SyncBinlog(t) /\ ~CloseBinlog(t) /\ ~NewFile(t)
  <2>1. UNCHANGED <<binlog, synced>>
    BY <1>5 DEF BinlogStep, Prepare, FlushLogs, OrderedCommit, BinlogLeader, EnterFlush,
       FlushEngine, FinishOrderList, LeaveFlush, LeaveClosedFlush, EnterSync, LeaveSync,
       EnterCommit, AfterSyncHook, CommitNext, CommitGroupDone, LeaveCommit,
       EnterAfterCommit, AfterCommit, HandleSyncError, Signal, FollowerWakes,
       FinishInEngine, FinishCommit, RotateLock, WaitForPrepXids, ChangeStage, EnterStage,
       logVars
  <2> QED BY <1>1, <1>2, <2>1
<1> QED BY <1>3, <1>4, <1>5

(* A session's transaction stays where it is in the log. *)
LEMMA StaysLogged ==
  ASSUME IInv, Sending, NEW t \in BinlogThds, Prepare(t) \/ FlushLogs(t) \/ BinlogStep(t),
         NEW u \in BinlogThds, pc[u] # "idle"
  PROVE  (InLog(u) => InLog(u)') /\ (Lasts(u) => Lasts(u)') /\ trx'[u] = trx[u]
<1>1. trx'[u] = trx[u]
  <2>1. CASE Prepare(t)
    BY <2>1, ThdsFacts DEF Prepare, IInv, CommitTypeOK, ThdTypeOK
  <2>2. CASE ~Prepare(t)
    BY <2>2, CountCases DEF WriteBinlog, CommitGroupDone, FinishCommit, OrderedCommit
  <2> QED BY <2>1, <2>2
<1>2. Trx(u)' = Trx(u)
  BY <1>1 DEF Trx
<1>3. InLog(u) => InLog(u)'
  BY <1>2, LogGrows DEF InLog
<1>4. ASSUME Lasts(u) PROVE Lasts(u)'
  <2>1. PICK i \in 1 .. synced : binlog[i] = Trx(u)
    BY <1>4 DEF Lasts
  <2>2. i \in 1 .. synced' /\ binlog'[i] = binlog[i]
    BY LogGrows
  <2> QED BY <1>2, <2>1, <2>2 DEF Lasts
<1> QED BY <1>1, <1>3, <1>4

(* Whoever is linked is inside a commit. *)
LEMMA RegionInCommit ==
  ASSUME NoOrderWorkers, IInv, Linked, NEW S, NEW C, NEW u \in Region(S, C)
  PROVE  pc[u] # "idle"
<1>1. "idle" \notin LeaderPcs \cup QueueLeaderPcs
  BY DEF LeaderPcs, QueueLeaderPcs
<1>2. u \in BinlogThds
  BY DEF Region
<1> QED BY <1>1, <1>2, OutsideRegion

(* Whoever is in a leader's list is inside a commit. *)
LEMMA ListInCommit ==
  ASSUME NoOrderWorkers, IInv, Linked, NEW t \in BinlogThds, pc[t] \in LeaderPcs,
         NEW u \in Members(list[t])
  PROVE  pc[u] # "idle"
<1>1. "idle" \notin LeaderPcs \cup QueueLeaderPcs
  BY DEF LeaderPcs, QueueLeaderPcs
<1> QED BY <1>1, NotInList, LeaderInList

(* Every member of a list is written, or the server stops. *)
LEMMA WriteAll ==
  ASSUME CachesFit, StopsOnError, IInv, NEW t \in BinlogThds, WriteBinlog(t)
  PROVE  /\ \A u \in Members(list[t]) : \E i \in DOMAIN binlog' : binlog'[i] = Trx(u)
         /\ err'[t] = "none" \/ (err'[t] = "flush" /\ server' = "aborted")
<1>1. list[t] \in Seq(BinlogThds) /\ t \in Members(list[t]) /\ pc[t] \in LeaderPcs
  BY LeaderInList DEF WriteBinlog, LeaderPcs, IInv, CommitTypeOK, LeaderTypeOK
<1>2. PICK written \in Subsequences(list[t]), file_fails \in BOOLEAN :
        /\ Members(list[t]) \ Members(written) # {} => "flush_member" \in Faults
        /\ file_fails => "flush_file" \in Faults
        /\ FlushThreadCaches(written)
        /\ err' = [err EXCEPT ![t] = IF FlushFails(written, file_fails) THEN "flush" ELSE "none"]
        /\ server' = IF FlushFails(written, file_fails) /\ AbortServer THEN "aborted" ELSE server
  BY DEF WriteBinlog
<1>3. Members(list[t]) \subseteq Members(written)
  BY <1>2 DEF CachesFit
<1>4. written # << >>
  <2>1. PICK k \in DOMAIN written : written[k] = t
    BY <1>1, <1>3 DEF Members
  <2>2. DOMAIN << >> = {}
    OBVIOUS
  <2> QED BY <2>1, <2>2
<1>5. err'[t] = IF FlushFails(written, file_fails) THEN "flush" ELSE "none"
  BY <1>2, ThdsFacts DEF IInv, CommitTypeOK, LeaderTypeOK
<1>6. FlushFails(written, file_fails) => AbortServer
  BY <1>2, <1>4 DEF FlushFails, StopsOnError
<1>7. ASSUME NEW u \in Members(list[t]) PROVE \E i \in DOMAIN binlog' : binlog'[i] = Trx(u)
  <2>1. PICK k \in DOMAIN written : written[k] = u
    BY <1>3 DEF Members
  <2>2. /\ TrxSeq(written) \in Seq(Trxs) /\ binlog \in Seq(Trxs)
        /\ binlog' = binlog \o TrxSeq(written)
    BY <1>1, <1>2, SubsequenceFacts, TrxSeqType DEF FlushThreadCaches, IInv, CommitTypeOK, LogTypeOK
  <2>3. k \in DOMAIN TrxSeq(written) /\ TrxSeq(written)[k] = Trx(u)
    BY <2>1 DEF TrxSeq
  <2>4. /\ DOMAIN binlog' = 1 .. (Len(binlog) + Len(TrxSeq(written)))
        /\ DOMAIN TrxSeq(written) = 1 .. Len(TrxSeq(written))
        /\ Len(binlog) \in Nat /\ Len(TrxSeq(written)) \in Nat
        /\ \A i \in (Len(binlog) + 1) .. (Len(binlog) + Len(TrxSeq(written))) :
             binlog'[i] = TrxSeq(written)[i - Len(binlog)]
    BY <2>2, ConcatIndex
  <2>5. k \in 1 .. Len(TrxSeq(written))
    BY <2>3, <2>4
  <2>6. /\ Len(binlog) + k \in (Len(binlog) + 1) .. (Len(binlog) + Len(TrxSeq(written)))
        /\ Len(binlog) + k - Len(binlog) = k
        /\ Len(binlog) + k \in 1 .. (Len(binlog) + Len(TrxSeq(written)))
    BY <2>4, <2>5
  <2> QED BY <2>3, <2>4, <2>6
<1> QED BY <1>2, <1>5, <1>6, <1>7

(* Sessions past the flush stage are in the log. *)
LEMMA WrittenDurable ==
  ASSUME CachesFit, StopsOnError, NoOrderWorkers, IInv, IInv', Linked, Sending, Durable,
         NEW t \in BinlogThds, Prepare(t) \/ FlushLogs(t) \/ BinlogStep(t)
  PROVE  WrittenIsLogged'
<1> SUFFICES ASSUME NEW u \in Written' PROVE InLog(u)'
  BY DEF WrittenIsLogged
<1>1. u \in BinlogThds
  BY DEF Written, Region
<1>2. u \in Written \/ Enters({"SYNC"}, WrittenPcs, t, u)
  BY <1>1, RegionStep DEF Written, WrittenPcs
<1>3. CASE u \in Written
  BY <1>1, <1>3, StaysLogged, RegionInCommit DEF Written, Durable, WrittenIsLogged
<1>4. CASE WriteBinlog(t) /\ u \in Members(list[t])
  <2>1. trx' = trx
    BY <1>4 DEF WriteBinlog
  <2>2. Trx(u)' = Trx(u)
    BY <2>1 DEF Trx
  <2> QED BY <1>4, <2>2, WriteAll DEF InLog
<1>5. ASSUME Enters({"SYNC"}, WrittenPcs, t, u) PROVE WriteBinlog(t) /\ u \in Members(list[t])
  <2>1. pc'[t] \in WrittenPcs => WriteBinlog(t) \/ pc[t] \in WrittenPcs \cup {"SYNC"}
    BY Paths, NextStages DEF Path, WrittenPcs, FlushPcs, OutsideCommit, EnterSync, EnterStage
  <2>2. InPlaceAction(t) => pc[t] # "SYNC"
    <3>1. InPlaceAction(t) => \E l : InPlace(t, l)
      BY InPlaceActions
    <3> QED BY <3>1 DEF InPlace, LeaderPcs, QueueLeaderPcs
  <2>3. FetchAction(t) => pc[t] \in Stages
    BY FetchActions DEF Stages
  <2>4. Stages \cap WrittenPcs = {} /\ (WriteBinlog(t) => pc[t] \notin Stages)
    BY DEF Stages, WrittenPcs, WriteBinlog
  <2>5. ~(ChangeAction(t) /\ pc[t] \notin WrittenPcs /\ NextStage[pc[t]] \in {"SYNC"})
    BY NextStages DEF WrittenPcs
  <2> QED BY <1>5, <2>1, <2>2, <2>3, <2>4, <2>5 DEF Enters
<1> QED BY <1>2, <1>3, <1>4, <1>5

(* After the sync stage the transactions of its leader's list are on disk, *)
(* or the leader is about to stop the server.                              *)
LEMMA SyncAll ==
  ASSUME SyncPeriod = 1, StopsOnError, NoOrderWorkers, IInv, IInv', Linked, Sending, Durable,
         server = "up", NEW t \in BinlogThds, SyncBinlog(t)
  PROVE  \/ \A u \in Members(list[t]) : Lasts(u)'
         \/ pc'[t] = "after_sync" /\ err'[t] = "sync"
<1>1. pc[t] = "sync" /\ pc[t] \in LeaderPcs \cap WrittenPcs /\ pc[t] \in EarlyPcs
  BY DEF SyncBinlog, LeaderPcs, WrittenPcs, EarlyPcs
<1>2. err[t] = "none" /\ open
  BY <1>1, ThdsFacts DEF Durable, ErrorsStop, Sending, StaysOpen, IInv, CommitTypeOK, LeaderTypeOK
<1>3. DoSync(t)
  BY <1>2 DEF DoSync, IInv, CommitTypeOK, LogTypeOK
<1>4. PICK fails \in BOOLEAN :
        /\ fails => "sync" \in Faults
        /\ ~fails => synced' = Len(binlog)
        /\ err' = IF fails THEN [err EXCEPT ![t] = "sync"] ELSE err
        /\ fails /\ AbortServer => Goto(t, "after_sync")
  BY <1>2, <1>3 DEF SyncBinlog
<1>5. CASE fails
  <2>1. Goto(t, "after_sync")
    BY <1>4, <1>5 DEF StopsOnError
  <2>2. pc'[t] = "after_sync"
    BY <2>1, ThdsFacts DEF Goto, IInv, CommitTypeOK, StageTypeOK, PcTypeOK
  <2>3. err'[t] = "sync"
    BY <1>4, <1>5, ThdsFacts DEF IInv, CommitTypeOK, LeaderTypeOK
  <2> QED BY <2>2, <2>3
<1>6. CASE ~fails
  <2> SUFFICES ASSUME NEW u \in Members(list[t]) PROVE Lasts(u)'
    OBVIOUS
  <2>1. InLog(u)
    BY <1>1, ListRegion DEF Written, Durable, WrittenIsLogged
  <2>2. binlog' = binlog /\ trx' = trx /\ synced' = Len(binlog)
    BY <1>4, <1>6 DEF SyncBinlog
  <2>3. DOMAIN binlog = 1 .. Len(binlog)
    BY LenProperties DEF IInv, CommitTypeOK, LogTypeOK
  <2> QED BY <2>1, <2>2, <2>3 DEF InLog, Lasts, Trx
<1> QED BY <1>5, <1>6

(* Sessions past the sync stage are in the log on disk. *)
LEMMA SyncedDurable ==
  ASSUME SyncPeriod = 1, StopsOnError, NoOrderWorkers, IInv, IInv', Linked, Sending, Durable,
         server = "up", NEW t \in BinlogThds, Prepare(t) \/ FlushLogs(t) \/ BinlogStep(t)
  PROVE  SyncedLasts'
<1> DEFINE S == {"COMMIT", "AFTER_COMMIT"}
<1> SUFFICES ASSUME NEW u \in Synced' PROVE Lasts(u)'
  BY DEF SyncedLasts
<1>1. u \in BinlogThds
  BY DEF Synced, Region
<1>2. u \in Synced \/ Enters(S, SyncedPcs, t, u)
  BY <1>1, RegionStep DEF Synced, SyncedPcs
<1>3. CASE u \in Synced
  BY <1>1, <1>3, StaysLogged, RegionInCommit DEF Synced, Durable, SyncedLasts
<1>4. CASE SyncBinlog(t) /\ u \in Members(list[t]) /\ pc'[t] # "after_sync"
  BY <1>4, SyncAll
<1>5. CASE /\ AfterSyncHook(t) /\ pc[t] = "after_sync" /\ u \in Members(list[t])
           /\ pc'[t] # "sync_error"
  <2>1. /\ pc'[t] = IF err'[t] = "sync" THEN "sync_error" ELSE "signal"
        /\ err[t] = "sync" => err'[t] = "sync"
    <3>1. Goto(t, IF err'[t] = "sync" THEN "sync_error" ELSE "signal")
      BY <1>5 DEF AfterSyncHook
    <3>2. err[t] = "sync" => err' = err
      BY <1>5 DEF AfterSyncHook
    <3> QED BY <3>1, <3>2, ThdsFacts DEF Goto, IInv, CommitTypeOK, StageTypeOK, PcTypeOK
  <2>2. err[t] # "sync"
    BY <1>5, <2>1
  <2>3. Lasts(u)
    BY <1>5, <2>2 DEF Durable, UnorderedLasts
  <2>4. pc[t] \in LeaderPcs
    BY <1>5 DEF LeaderPcs
  <2>5. pc[u] # "idle"
    BY <1>5, <2>4, ListInCommit
  <2> QED BY <1>1, <2>3, <2>5, StaysLogged
<1>6. ASSUME Enters(S, SyncedPcs, t, u)
      PROVE  /\ u \in Members(list[t])
             /\ \/ SyncBinlog(t) /\ pc'[t] # "after_sync"
                \/ AfterSyncHook(t) /\ pc[t] = "after_sync" /\ pc'[t] # "sync_error"
  <2>1. pc'[t] \in SyncedPcs =>
          \/ pc[t] \in SyncedPcs \cup {"COMMIT", "AFTER_COMMIT", "close_sync"}
          \/ SyncBinlog(t)
          \/ AfterSyncHook(t) /\ pc[t] = "after_sync"
    <3>1. /\ EnterCommit(t) => pc[t] = "COMMIT"
          /\ EnterAfterCommit(t) => pc[t] = "AFTER_COMMIT"
          /\ CommitGroupDone(t) => pc[t] = "commit"
          /\ AfterCommit(t) => pc[t] = "after_commit"
      BY DEF EnterCommit, EnterAfterCommit, EnterStage, CommitGroupDone, AfterCommit
    <3> QED BY <3>1, Paths, NextStages DEF Path, SyncedPcs, FlushPcs, OutsideCommit
  <2>2. pc[t] # "close_sync" /\ pc[t] # "to_commit_closed"
    BY DEF Sending, StaysOpen, Durable, ErrorsStop
  <2>3. InPlaceAction(t) => pc[t] \notin S
    <3>1. InPlaceAction(t) => \E l : InPlace(t, l)
      BY InPlaceActions
    <3> QED BY <3>1 DEF InPlace, LeaderPcs, QueueLeaderPcs
  <2>4. FetchAction(t) => pc[t] \in Stages
    BY FetchActions DEF Stages
  <2>5. /\ Stages \cap (SyncedPcs \cup {"after_sync"}) = {} /\ (SyncBinlog(t) => pc[t] \notin Stages)
        /\ "after_sync" \notin SyncedPcs /\ "sync_error" \notin SyncedPcs
    BY DEF Stages, SyncedPcs, SyncBinlog
  <2>6. ~(ChangeAction(t) /\ pc[t] \notin SyncedPcs /\ NextStage[pc[t]] \in S)
    BY <2>2, NextStages DEF SyncedPcs
  <2> QED BY <1>6, <2>1, <2>2, <2>3, <2>4, <2>5, <2>6 DEF Enters
<1> QED BY <1>2, <1>3, <1>4, <1>5, <1>6

(* Who sees an error, and where the code goes before the sync stage. *)
LEMMA ErrorSteps ==
  ASSUME IInv, NEW t \in BinlogThds, Prepare(t) \/ FlushLogs(t) \/ BinlogStep(t)
  PROVE  /\ \/ err'[t] = err[t] \/ (OrderedCommit(t) /\ err'[t] = "none") \/ WriteBinlog(t)
            \/ (SyncBinlog(t) \/ AfterSyncHook(t)) /\ err'[t] \in {err[t], "sync"}
         /\ pc'[t] \in EarlyPcs => pc[t] \in EarlyPcs \/ OrderedCommit(t)
         /\ SyncBinlog(t) \/ AfterSyncHook(t) => pc'[t] \notin EarlyPcs
<1> USE ThdsFacts
<1>1. /\ OrderedCommit(t) => err'[t] = "none"
      /\ SyncBinlog(t) \/ AfterSyncHook(t) => err'[t] \in {err[t], "sync"}
  BY DEF OrderedCommit, SyncBinlog, AfterSyncHook, IInv, CommitTypeOK, LeaderTypeOK
<1>2. ~OrderedCommit(t) /\ ~SyncBinlog(t) /\ ~AfterSyncHook(t) /\ ~WriteBinlog(t) => err' = err
    BY DEF BinlogStep, Prepare, FlushLogs, BinlogLeader, EnterFlush,
       FlushEngine, FinishOrderList, CloseBinlog, LeaveFlush, LeaveClosedFlush,
       EnterSync, LeaveSync, EnterCommit, CommitNext, CommitGroupDone,
       LeaveCommit, EnterAfterCommit, AfterCommit, HandleSyncError, Signal, FollowerWakes,
       FinishInEngine, FinishCommit, RotateLock, WaitForPrepXids, NewFile, ChangeStage,
       EnterStage, leaderVars
<1>3. /\ pc[t] = "prepared" => OrderedCommit(t)
      /\ EnterSync(t) => pc[t] = "SYNC"
      /\ WriteBinlog(t) => pc[t] = "write"
      /\ StillAction(t) => pc[t] \in {"commit", "sync_error"}
  <2>1. pc[t] = "prepared" => OrderedCommit(t)
    BY DEF BinlogStep, Prepare, FlushLogs, BinlogLeader, BinlogLeaderWakes, EnterFlush,
       FlushEngine, FinishOrderList, WriteBinlog, CloseBinlog, LeaveFlush, LeaveClosedFlush,
       EnterSync, SyncBinlog, LeaveSync, EnterCommit, AfterSyncHook, CommitNext, CommitGroupDone,
       LeaveCommit, EnterAfterCommit, AfterCommit, HandleSyncError, Signal, FollowerWakes,
       FinishInEngine, FinishCommit, RotateLock, WaitForPrepXids, NewFile, EnterStage
  <2> QED BY <2>1 DEF EnterSync, EnterStage, WriteBinlog, StillAction, CommitNext, HandleSyncError
<1>4. pc'[t] \in EarlyPcs => pc[t] \in EarlyPcs \/ OrderedCommit(t)
  <2> SUFFICES ASSUME pc'[t] \in EarlyPcs PROVE pc[t] \in EarlyPcs \cup {"prepared"}
    BY <1>3
  <2>1. Path(t, pc'[t])
    BY Paths
  <2>2. CASE pc'[t] \in {"BINLOG_FLUSH", "wait_leader"} \cup FlushPcs
    BY <1>3, <2>1, <2>2, NextStages DEF Path, EarlyPcs, FlushPcs, OutsideCommit
  <2>3. CASE pc'[t] \in {"close_flush", "to_sync", "sync"}
    BY <1>3, <2>1, <2>3, NextStages DEF Path, EarlyPcs, FlushPcs, OutsideCommit, WrittenPcs
  <2>4. CASE pc'[t] = "SYNC"
    BY <1>3, <2>1, <2>4, NextStages DEF Path, EarlyPcs, FlushPcs, OutsideCommit, WrittenPcs
  <2> QED BY <2>2, <2>3, <2>4 DEF EarlyPcs, WrittenPcs
<1>5. SyncBinlog(t) \/ AfterSyncHook(t) => pc'[t] \notin EarlyPcs
  <2>1. SyncBinlog(t) \/ AfterSyncHook(t) =>
          \E l \in {"to_commit", "after_sync", "commit", "sync_error", "signal"} : Goto(t, l)
    BY DEF SyncBinlog, AfterSyncHook
  <2> QED BY <2>1 DEF Goto, IInv, CommitTypeOK, StageTypeOK, PcTypeOK, EarlyPcs, FlushPcs, WrittenPcs
<1> QED BY <1>1, <1>2, <1>4, <1>5

(* Errors of the flush stage stop the server. *)
LEMMA ErrorsDurable ==
  ASSUME CachesFit, StopsOnError, NoOrderWorkers, IInv, IInv', Linked, Sending, Durable,
         server = "up", NEW t \in BinlogThds, Prepare(t) \/ FlushLogs(t) \/ BinlogStep(t)
  PROVE  ErrorsStop'
<1> SUFFICES ASSUME NEW v \in BinlogThds
             PROVE  /\ pc'[v] # "to_commit_closed"
                    /\ err'[v] = "flush" => server' = "aborted"
                    /\ pc'[v] \in EarlyPcs => err'[v] # "sync"
  BY DEF ErrorsStop
<1>1. Path(t, pc'[t]) /\ \A w \in BinlogThds \ {t} : pc'[w] = pc[w]
  BY Paths, ThdsFacts
<1>2. CASE v # t
  BY <1>1, <1>2, OwnList DEF Durable, ErrorsStop
<1>3. CASE v = t
  <2>1. pc'[t] # "to_commit_closed"
    <3>1. open /\ pc[t] # "to_commit_closed"
      BY DEF Sending, StaysOpen, Durable, ErrorsStop
    <3> QED BY <1>1, <3>1, NextStages DEF Path, FlushPcs, OutsideCommit
  <2>2. err[t] # "flush"
    BY DEF Durable, ErrorsStop
  <2>3. err'[t] = "flush" => server' = "aborted"
    BY <2>2, ErrorSteps, WriteAll
  <2>4. pc'[t] \in EarlyPcs => err'[t] # "sync"
    <3>1. pc[t] \in EarlyPcs => err[t] # "sync"
      BY DEF Durable, ErrorsStop
    <3>2. OrderedCommit(t) => err'[t] = "none"
      BY ThdsFacts DEF OrderedCommit, IInv, CommitTypeOK, LeaderTypeOK
    <3>3. WriteBinlog(t) => err'[t] # "sync"
      BY WriteAll
    <3> QED BY <3>1, <3>2, <3>3, ErrorSteps
  <2> QED BY <1>3, <2>1, <2>3, <2>4
<1> QED BY <1>2, <1>3

(* Groups that skip the commit stage without an error are on disk, ... *)
LEMMA UnorderedDurable ==
  ASSUME SyncPeriod = 1, StopsOnError, NoOrderWorkers, IInv, IInv', Linked, Sending, Durable,
         server = "up", NEW t \in BinlogThds, Prepare(t) \/ FlushLogs(t) \/ BinlogStep(t)
  PROVE  UnorderedLasts'
<1> SUFFICES ASSUME NEW v \in BinlogThds, pc'[v] = "after_sync", err'[v] # "sync",
                    NEW u \in Members(list'[v])
             PROVE  Lasts(u)'
  BY DEF UnorderedLasts, Members
<1>1. Path(t, pc'[t]) /\ \A w \in BinlogThds \ {t} : pc'[w] = pc[w]
  BY Paths, ThdsFacts
<1>2. CASE v # t
  <2>1. pc[v] = "after_sync" /\ err[v] # "sync" /\ u \in Members(list[v]) /\ pc[v] \in LeaderPcs
    BY <1>1, <1>2, OwnList DEF LeaderPcs
  <2>2. Lasts(u) /\ u \in BinlogThds /\ pc[u] # "idle"
    BY <2>1, ListInCommit, LeaderInList DEF Durable, UnorderedLasts
  <2> QED BY <2>2, StaysLogged
<1>3. CASE v = t
  <2>1. ~(StillAction(t) /\ pc[t] = "after_sync") /\ ~LeaveClosedFlush(t)
    BY DEF StillAction, CommitNext, HandleSyncError, LeaveClosedFlush, Durable, ErrorsStop
  <2>2. SyncBinlog(t)
    BY <1>1, <1>3, <2>1, NextStages DEF Path, FlushPcs, OutsideCommit
  <2>3. list' = list
    BY <2>2 DEF SyncBinlog
  <2> QED BY <1>3, <2>2, <2>3, SyncAll
<1> QED BY <1>2, <1>3

(* ... as are the sessions on their way out ... *)
LEMMA LeaverDurable ==
  ASSUME SyncPeriod = 1, NoOrderWorkers, IInv, IInv', Linked, Sending, Durable,
         NEW t \in BinlogThds, Prepare(t) \/ FlushLogs(t) \/ BinlogStep(t)
  PROVE  LeaverLasts'
<1> SUFFICES ASSUME NEW v \in BinlogThds, Left(pc'[v], pending'[v]) PROVE Lasts(v)'
  BY DEF LeaverLasts, Left
<1>1. Path(t, pc'[t]) /\ \A w \in BinlogThds \ {t} : pc'[w] = pc[w]
  BY Paths, ThdsFacts
<1>2. CASE Left(pc[v], pending[v])
  BY <1>2, StaysLogged DEF Durable, LeaverLasts, Left
<1>3. CASE Signal(t) /\ v \in Members(list[t])
  <2>1. pc[t] \in LeaderPcs \cap SyncedPcs
    BY <1>3 DEF Signal, LeaderPcs, SyncedPcs
  <2>2. v \in Synced
    BY <1>3, <2>1, ListRegion DEF Synced
  <2> QED BY <2>2, StaysLogged, RegionInCommit DEF Synced, Durable, SyncedLasts
<1>4. CASE v # t /\ ~Left(pc[v], pending[v])
  <2>1. pending[v] /\ ~pending'[v]
    BY <1>1, <1>4 DEF Left
  <2> QED BY <1>3, <2>1, OwnList
<1>5. CASE v = t /\ ~Left(pc[v], pending[v])
  <2>1. CASE pc'[t] = "finish"
    <3>1. ~(StillAction(t) /\ pc[t] = "finish")
      BY DEF StillAction, CommitNext, HandleSyncError
    <3>2. ~FollowerWakes(t)
      BY <1>5 DEF FollowerWakes, Left
    <3>3. Signal(t)
      BY <1>1, <2>1, <3>1, <3>2, NextStages DEF Path, FlushPcs, OutsideCommit
    <3>4. t \in Members(list[t])
      BY <3>3, LeaderInList DEF Signal, LeaderPcs
    <3> QED BY <1>3, <1>5, <3>3, <3>4
  <2>2. CASE pc'[t] = "finish_low"
    <3>1. ~(StillAction(t) /\ pc[t] = "finish_low")
      BY DEF StillAction, CommitNext, HandleSyncError
    <3>2. FinishInEngine(t)
      BY <1>1, <2>2, <3>1, NextStages DEF Path, FlushPcs, OutsideCommit
    <3> QED BY <1>5, <3>2 DEF FinishInEngine, Left
  <2>3. CASE pc'[t] = "follow" /\ ~pending'[t]
    <3>1. ~(StillAction(t) /\ pc[t] = "follow")
      BY DEF StillAction, CommitNext, HandleSyncError
    <3>2. OrderedCommit(t) \/ ChangeAction(t)
      BY <1>1, <2>3, <3>1, NextStages DEF Path, FlushPcs, OutsideCommit
    <3>3. ~OrderedCommit(t)
      BY <2>3, ThdsFacts DEF OrderedCommit, InitThdVariables, IInv, CommitTypeOK, StageTypeOK,
         SyncTypeOK
    <3>4. \E s \in Stages : MovesTo(t, <<"list", t>>, <<"queue", s>>)
      BY <3>2, <3>3, ChangeActions DEF Stages
    <3>5. UNCHANGED pending /\ \E k \in DOMAIN Held[<<"list", t>>] : Held[<<"list", t>>][k] = t
      BY <3>4 DEF MovesTo
    <3>6. pending[t]
      BY <3>5, PlaceCases DEF Linked, Asleep
    <3> QED BY <2>3, <3>5, <3>6
  <2> QED BY <1>5, <2>1, <2>2, <2>3 DEF Left
<1> QED BY <1>2, <1>4, <1>5

(* ... and the transactions whose commit returned. *)
LEMMA FinishedDurable ==
  ASSUME NoOrderWorkers, IInv, IInv', Sending, Durable,
         NEW t \in BinlogThds, Prepare(t) \/ FlushLogs(t) \/ BinlogStep(t)
  PROVE  FinishedLasts'
<1> SUFFICES ASSUME NEW v \in BinlogThds, NEW n \in 1 .. trx'[v],
                    n < trx'[v] \/ pc'[v] \in OutsideCommit
             PROVE  \E i \in 1 .. synced' : binlog'[i] = <<v, n>>
  BY DEF FinishedLasts
<1>0. trx[v] \in Nat /\ trx \in [Thds -> Nat] /\ trx'[v] \in Nat
  BY ThdsFacts DEF IInv, CommitTypeOK, ThdTypeOK
<1>1. ASSUME \E i \in 1 .. synced : binlog[i] = <<v, n>>
      PROVE  \E i \in 1 .. synced' : binlog'[i] = <<v, n>>
  <2>1. PICK i \in 1 .. synced : binlog[i] = <<v, n>>
    BY <1>1
  <2>2. i \in 1 .. synced' /\ binlog'[i] = binlog[i]
    BY LogGrows
  <2> QED BY <2>1, <2>2
<1>2. Path(t, pc'[t]) /\ \A w \in BinlogThds \ {t} : pc'[w] = pc[w]
  BY Paths, ThdsFacts
<1>3. CASE Prepare(t) /\ v = t
  <2>1. pc[t] \in OutsideCommit /\ trx'[t] = trx[t] + 1
    BY <1>0, <1>3, ThdsFacts DEF Prepare, OutsideCommit
  <2>2. pc'[t] = "prepared"
    BY <1>3, ThdsFacts DEF Prepare, Goto, IInv, CommitTypeOK, StageTypeOK, PcTypeOK
  <2>3. n \in 1 .. trx[v]
    BY <1>0, <1>3, <2>1, <2>2 DEF OutsideCommit
  <2> QED BY <1>1, <1>3, <2>1, <2>3 DEF Durable, FinishedLasts
<1>4. CASE ~(Prepare(t) /\ v = t)
  <2>1. trx'[v] = trx[v]
    <3>1. CASE Prepare(t)
      BY <1>0, <1>4, <3>1, ThdsFacts DEF Prepare
    <3>2. CASE ~Prepare(t)
      BY <3>2, CountCases DEF WriteBinlog, CommitGroupDone, FinishCommit, OrderedCommit
    <3> QED BY <3>1, <3>2
  <2>2. CASE n < trx[v] \/ pc[v] \in OutsideCommit
    BY <1>1, <2>1, <2>2 DEF Durable, FinishedLasts
  <2>3. CASE ~(n < trx[v] \/ pc[v] \in OutsideCommit)
    <3>1. n = trx[v]
      BY <1>0, <2>1, <2>3
    <3>2. v = t
      BY <1>2, <2>1, <2>3
    <3>3. FinishCommit(t)
      BY <1>2, <2>1, <2>3, <3>2, NextStages DEF Path, FlushPcs, OutsideCommit
    <3>4. Left(pc[t], pending[t])
      BY <3>3 DEF FinishCommit, Left
    <3>5. Lasts(t)
      BY <3>4 DEF Durable, LeaverLasts
    <3> QED BY <1>1, <3>1, <3>2, <3>5 DEF Lasts, Trx
  <2> QED BY <2>2, <2>3
<1> QED BY <1>3, <1>4

(* Every step keeps what lasts. *)
LEMMA NextDurable ==
  ASSUME SyncPeriod = 1, CachesFit, StopsOnError, NoOrderWorkers, IInv, IInv', Linked, Sending,
         Durable, [Next]_vars
  PROVE  Durable'
<1>1. ASSUME server = "up", NEW t \in BinlogThds, Prepare(t) \/ FlushLogs(t) \/ BinlogStep(t)
      PROVE  Durable'
  BY <1>1, ErrorsDurable, WrittenDurable, SyncedDurable, UnorderedDurable, LeaverDurable,
     FinishedDurable DEF Durable
<1>2. CASE SetOrderCommits \/ Stop \/ UNCHANGED vars
  <2>1. UNCHANGED <<pc, queue, pending, list, err, trx, binlog, synced, server>>
    BY <1>2 DEF SetOrderCommits, Stop, vars, stageVars, leaderVars, thdVars, logVars, otherVars
  <2>2. Held' = Held
    BY <2>1 DEF Held
  <2>3. Written' = Written /\ Synced' = Synced
    BY <2>1, <2>2 DEF Written, Synced, Region, InRegion
  <2>4. \A u : (InLog(u)' <=> InLog(u)) /\ (Lasts(u)' <=> Lasts(u))
    BY <2>1 DEF InLog, Lasts, Trx
  <2>5. ErrorsStop' /\ WrittenIsLogged' /\ SyncedLasts'
    BY <2>1, <2>3, <2>4 DEF Durable, ErrorsStop, WrittenIsLogged, SyncedLasts
  <2>6. UnorderedLasts' /\ LeaverLasts'
    BY <2>1, <2>4 DEF Durable, UnorderedLasts, LeaverLasts, Left
  <2>7. FinishedLasts'
    BY <2>1 DEF Durable, FinishedLasts
  <2> QED BY <2>5, <2>6, <2>7 DEF Durable
<1> QED BY <1>1, <1>2 DEF Next, NoOrderWorkers

(* At first nothing is claimed to last. *)
LEMMA InitDurable ==
  ASSUME NoOrderWorkers, Init PROVE Durable
<1>1. \A t \in BinlogThds : pc[t] = "idle" /\ err[t] = "none" /\ trx[t] = 0
  BY ThdsFacts DEF Init
<1>2. \A p \in Places : Held[p] = << >>
  BY InitHeld
<1>3. Written = {} /\ Synced = {}
  BY <1>2 DEF Written, Synced, Region
<1>4. \A t \in BinlogThds : 1 .. trx[t] = {}
  <2>1. 1 .. 0 = {}
    OBVIOUS
  <2> QED BY <1>1, <2>1
<1> QED BY <1>1, <1>3, <1>4 DEF Durable, ErrorsStop, WrittenIsLogged, SyncedLasts,
        UnorderedLasts, LeaverLasts, FinishedLasts, Left, EarlyPcs

(* Without applier workers nothing moves in the relay log. *)
LEMMA TurnStays ==
  ASSUME NoOrderWorkers, [Next]_vars PROVE turn' = turn
<1>1. ASSUME NEW t \in BinlogThds, Prepare(t) \/ FlushLogs(t) \/ BinlogStep(t)
      PROVE  turn' = turn
  BY <1>1 DEF BinlogStep, Prepare, FlushLogs, OrderedCommit, BinlogLeader, EnterFlush,
     FlushEngine, FinishOrderList, WriteBinlog, CloseBinlog, LeaveFlush, LeaveClosedFlush,
     EnterSync, SyncBinlog, LeaveSync, EnterCommit, AfterSyncHook, CommitNext, CommitGroupDone,
     LeaveCommit, EnterAfterCommit, AfterCommit, HandleSyncError, Signal, FollowerWakes,
     FinishInEngine, FinishCommit, RotateLock, WaitForPrepXids, NewFile, ChangeStage,
     EnterStage, otherVars
<1>2. CASE SetOrderCommits \/ Stop \/ UNCHANGED vars
  BY <1>2 DEF SetOrderCommits, Stop, vars, otherVars
<1> QED BY <1>1, <1>2 DEF Next, NoOrderWorkers

(* ordered_commit, "Stage #2", with sync_binlog=1, for any number of       *)
(* sessions and rotations and while binlog_order_commits is switched on    *)
(* and off: a session whose commit returned finds its transaction in the   *)
(* synced part of the log, whichever leaders wrote, synced and committed   *)
(* it, and even when the flush or the sync of other groups fails - if the  *)
(* server stops on such an error and every cache can be written.           *)
THEOREM FinishedIsDurableHolds ==
  ASSUME NoOrderWorkers, StopsOnError, CachesFit PROVE Spec => []FinishedIsDurable
<1>1. Spec => [](turn = 0)
  <2>1. Init => turn = 0
    BY DEF Init
  <2>2. turn = 0 /\ [Next]_vars => (turn = 0)'
    BY TurnStays
  <2> QED BY <2>1, <2>2, PTL DEF Spec
<1>2. turn = 0 => RelayFinished = {}
  BY DEF RelayFinished
<1>3. ASSUME SyncPeriod = 1 PROVE Spec => []FinishedIsDurable
  <2>1. Init => Durable
    BY InitDurable
  <2>2. IInv /\ IInv' /\ Linked /\ Sending /\ Durable /\ [Next]_vars => Durable'
    BY <1>3, NextDurable
  <2>3. Durable /\ turn = 0 => FinishedIsDurable
    BY <1>2 DEF Durable, FinishedLasts, FinishedIsDurable, Finished, Logged
  <2> QED BY <1>1, <2>1, <2>2, <2>3, Invariance, LinkedInvariance, SendingInvariance, PTL DEF Spec
<1>4. ASSUME SyncPeriod # 1 PROVE Spec => []FinishedIsDurable
  <2>1. turn = 0 => FinishedIsDurable
    BY <1>2, <1>4 DEF FinishedIsDurable
  <2> QED BY <1>1, <2>1, PTL
<1> QED BY <1>3, <1>4
=============================================================================
