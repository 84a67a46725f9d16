-------------------------- MODULE GroupCommitProofs --------------------------
(***************************************************************************)
(* Theorems about GroupCommit, for any sets of sessions and workers, any   *)
(* relay log, any settings and any of the failures.                        *)
(*                                                                         *)
(* The inductive invariant IInv says of every session, from where it is,   *)
(* which mutexes it owns, which queue it leads and that the list it works  *)
(* on starts with itself.  The last part is what makes it inductive: a     *)
(* leader enrols its list in the next stage, and whoever is first in that  *)
(* list is first in the next queue.                                        *)
(***************************************************************************)
EXTENDS GroupCommit, FiniteSetTheorems, SequenceTheorems, TLAPS

(* A leader's list starts with the leader itself. *)
LeaderHeadsList ==
  \A t \in BinlogThds : pc[t] \in LeaderPcs => list[t] # << >> /\ Head(list[t]) = t

Structure == MutexOwners /\ StageLeader /\ LeaderHeadsList

IInv == CommitTypeOK /\ Structure

(* Where a binlog session is while it leads a queue it has not fetched yet. *)
QueueLeaderPcs == {"BINLOG_FLUSH", "wait_leader", "SYNC", "COMMIT", "AFTER_COMMIT"}

(* Where a session owns no mutex. *)
NoMutex(l) == \A m \in Mutexes : l \notin HolderPcs[m]

(* Where a session owns m and nothing else. *)
OnlyMutex(l, m) == l \in HolderPcs[m] /\ \A k \in Mutexes \ {m} : l \notin HolderPcs[k]

(* The program locations a session of its kind can be at. *)
PcsOf(t) == IF t \in BinlogThds THEN BinlogPcs ELSE OrderPcs

-----------------------------------------------------------------------------
(***************************************************************************)
(* Facts about the constants and about sequences.                          *)
(***************************************************************************)
LEMMA ThdsFacts ==
  /\ BinlogThds \subseteq Thds /\ OrderThds \subseteq Thds /\ NULL \notin Thds
  /\ BinlogThds \cap OrderThds = {}
BY ThdAssumption DEF Thds

(* What enrolling a list in a queue needs of concatenation. *)
LEMMA ConcatFacts ==
  ASSUME NEW S, NEW a \in Seq(S), NEW b \in Seq(S)
  PROVE  /\ a \o b \in Seq(S)
         /\ a = << >> => a \o b = b
         /\ a # << >> => a \o b # << >> /\ Head(a \o b) = Head(a)
<1>1. a \o b \in Seq(S) /\ Len(a \o b) = Len(a) + Len(b)
  BY ConcatProperties
<1>2. a # << >> => Len(a) > 0 /\ (a \o b)[1] = a[1]
  BY EmptySeq, LenProperties, ConcatProperties
<1>3. a = << >> => a \o b = b
  BY ConcatEmptySeq
<1> QED BY <1>1, <1>2, <1>3, EmptySeq, HeadTailProperties

(* The empty sequence and sequences of one element. *)
LEMMA ShortSeqs ==
  ASSUME NEW S
  PROVE  << >> \in Seq(S) /\ \A x \in S : <<x>> \in Seq(S) /\ Head(<<x>>) = x /\ <<x>> # << >>
OBVIOUS

-----------------------------------------------------------------------------
(***************************************************************************)
(* How a step that moves one session keeps the mutexes, the queues and the *)
(* lists in order.                                                         *)
(***************************************************************************)

(* A step that leaves the queues and the mutexes alone. *)
LocalMove(t, l) ==
  /\ l \in PcsOf(t) /\ Goto(t, l) /\ UNCHANGED <<queue, owner>>
  /\ pending' \in [Thds -> BOOLEAN]
  /\ \A u \in BinlogThds : u # t \/ l \in LeaderPcs => list'[u] = list[u]
  /\ \A m \in Mutexes : pc[t] \in HolderPcs[m] <=> l \in HolderPcs[m]
  /\ pc[t] \notin QueueLeaderPcs /\ l \notin QueueLeaderPcs
  /\ l \in LeaderPcs => pc[t] \in LeaderPcs

(* A move that touches no queue and no mutex. *)
LEMMA LocalStep ==
  ASSUME IInv, NEW t \in Thds, NEW l, LocalMove(t, l)
  PROVE  StageTypeOK' /\ Structure'
<1> USE ThdsFacts DEF IInv, CommitTypeOK, StageTypeOK, LocalMove, Goto
<1>1. PcTypeOK'
  BY DEF PcTypeOK, PcsOf, Thds
<1>2. QueueTypeOK' /\ SyncTypeOK'
  BY DEF QueueTypeOK, SyncTypeOK
<1>3. MutexOwners'
  BY DEF MutexOwners, Structure, PcTypeOK
<1>4. StageLeader'
  BY DEF StageLeader, Structure, PcTypeOK, QueueLeaderPcs
<1>5. LeaderHeadsList'
  BY DEF LeaderHeadsList, Structure, PcTypeOK
<1> QED BY <1>1, <1>2, <1>3, <1>4, <1>5 DEF Structure

(* A step that ends with the release of the only mutex of the session. *)
UnlockMove(t, l, m) ==
  /\ l \in PcsOf(t) /\ Goto(t, l) /\ UnlockMutex(m) /\ UNCHANGED <<queue, pending, list>>
  /\ m \in Mutexes /\ OnlyMutex(pc[t], m) /\ NoMutex(l)
  /\ pc[t] \notin QueueLeaderPcs /\ l \notin QueueLeaderPcs
  /\ l \in LeaderPcs => pc[t] \in LeaderPcs

(* A move that gives up a mutex. *)
LEMMA UnlockStep ==
  ASSUME IInv, NEW t \in Thds, NEW l, NEW m, UnlockMove(t, l, m)
  PROVE  StageTypeOK' /\ Structure'
<1> USE ThdsFacts DEF IInv, CommitTypeOK, StageTypeOK, UnlockMove, Goto, UnlockMutex
<1>1. PcTypeOK'
  BY DEF PcTypeOK, PcsOf, Thds
<1>2. QueueTypeOK' /\ SyncTypeOK'
  BY DEF QueueTypeOK, SyncTypeOK
<1>3. MutexOwners'
  BY DEF MutexOwners, Structure, PcTypeOK, SyncTypeOK, OnlyMutex, NoMutex
<1>4. StageLeader'
  BY DEF StageLeader, Structure, PcTypeOK, QueueLeaderPcs
<1>5. LeaderHeadsList'
  BY DEF LeaderHeadsList, Structure, PcTypeOK
<1> QED BY <1>1, <1>2, <1>3, <1>4, <1>5 DEF Structure

(* A step that takes a free mutex, the only one the session then owns. *)
LockMove(t, l, m) ==
  /\ l \in PcsOf(t) /\ Goto(t, l) /\ LockMutex(m, t) /\ UNCHANGED <<queue, pending, list>>
  /\ m \in Mutexes /\ NoMutex(pc[t]) /\ OnlyMutex(l, m)
  /\ pc[t] \notin QueueLeaderPcs /\ l \notin QueueLeaderPcs
  /\ l \in LeaderPcs => pc[t] \in LeaderPcs

(* A move that takes a mutex. *)
LEMMA LockStep ==
  ASSUME IInv, NEW t \in Thds, NEW l, NEW m, LockMove(t, l, m)
  PROVE  StageTypeOK' /\ Structure'
<1> USE ThdsFacts DEF IInv, CommitTypeOK, StageTypeOK, LockMove, Goto, LockMutex, Free
<1>1. PcTypeOK'
  BY DEF PcTypeOK, PcsOf, Thds
<1>2. QueueTypeOK' /\ SyncTypeOK'
  BY DEF QueueTypeOK, SyncTypeOK
<1>3. MutexOwners'
  BY DEF MutexOwners, Structure, PcTypeOK, SyncTypeOK, OnlyMutex, NoMutex
<1>4. StageLeader'
  BY DEF StageLeader, Structure, PcTypeOK, QueueLeaderPcs
<1>5. LeaderHeadsList'
  BY DEF LeaderHeadsList, Structure, PcTypeOK
<1> QED BY <1>1, <1>2, <1>3, <1>4, <1>5 DEF Structure

(* The session fetches the queue of the stage it leads, under its mutex.   *)
LEMMA FetchStep ==
  ASSUME IInv, NEW t \in BinlogThds, NEW s \in {"SYNC", "COMMIT", "AFTER_COMMIT"},
         NEW m \in Mutexes, NEW l \in BinlogPcs,
         EnterStage(t, s, m, l), NoMutex(s), OnlyMutex(l, m),
         l \notin QueueLeaderPcs
  PROVE  StageTypeOK' /\ Structure'
<1> USE ThdsFacts DEF IInv, CommitTypeOK, StageTypeOK, EnterStage, Goto
<1>1. PcTypeOK'
  BY DEF PcTypeOK, Thds
<1>2. QueueTypeOK' /\ SyncTypeOK'
  BY ShortSeqs DEF QueueTypeOK, SyncTypeOK, FetchQueues, LockMutex, Stages
<1>3. MutexOwners'
  BY DEF MutexOwners, Structure, PcTypeOK, SyncTypeOK, OnlyMutex, NoMutex, LockMutex, Free
<1>4. queue[s] # << >> /\ Head(queue[s]) = t
  BY DEF Structure, StageLeader
<1>5. StageLeader'
  BY <1>4 DEF StageLeader, Structure, PcTypeOK, QueueLeaderPcs, FetchQueues, Stages
<1>6. LeaderHeadsList'
  BY <1>4 DEF LeaderHeadsList, Structure, PcTypeOK, LeaderTypeOK
<1> QED BY <1>1, <1>2, <1>3, <1>5, <1>6 DEF Structure

(* The session hands its list over to the queue of the next stage and      *)
(* releases the mutex of the one it leaves: it leads the next stage if     *)
(* that queue was empty, for it is itself the first of its list.           *)
LEMMA EnrollStep ==
  ASSUME IInv, NEW t \in BinlogThds, NEW s \in {"SYNC", "COMMIT", "AFTER_COMMIT"},
         NEW m \in Mutexes,
         ChangeStage(t, s, m), OnlyMutex(pc[t], m), NoMutex(s), NoMutex("follow"),
         pc[t] \in LeaderPcs
  PROVE  StageTypeOK' /\ Structure'
<1> USE ThdsFacts DEF IInv, CommitTypeOK, StageTypeOK, ChangeStage, EnrollFor
<1>1. EnrolledAs(s) = IF queue[s] # << >> THEN "follow" ELSE s
  BY DEF EnrolledAs
<1>2. PcTypeOK'
  BY <1>1 DEF PcTypeOK, BinlogPcs, Thds
<1>3. list[t] \in Seq(BinlogThds) /\ list[t] # << >> /\ Head(list[t]) = t
  BY DEF LeaderTypeOK, Structure, LeaderHeadsList
<1>4. queue[s] \in Seq(BinlogThds) /\ s \in Stages
  BY DEF QueueTypeOK, Stages
<1>5. queue'[s] = queue[s] \o list[t] /\ \A r \in Stages \ {s} : queue'[r] = queue[r]
  BY <1>4 DEF QueueTypeOK
<1>6. /\ queue'[s] \in Seq(BinlogThds) /\ queue'[s] # << >>
      /\ Head(queue'[s]) = IF queue[s] # << >> THEN Head(queue[s]) ELSE t
  <2>1. /\ queue[s] \o list[t] \in Seq(BinlogThds)
        /\ queue[s] = << >> => queue[s] \o list[t] = list[t]
        /\ queue[s] # << >> => /\ queue[s] \o list[t] # << >>
                              /\ Head(queue[s] \o list[t]) = Head(queue[s])
    BY <1>3, <1>4, ConcatFacts, Zenon
  <2> QED BY <2>1, <1>3, <1>5
<1>7. QueueTypeOK' /\ SyncTypeOK'
  BY <1>5, <1>6 DEF QueueTypeOK, SyncTypeOK, UnlockMutex, Stages
<1>8. MutexOwners'
  BY <1>1 DEF MutexOwners, Structure, PcTypeOK, SyncTypeOK, OnlyMutex, NoMutex, UnlockMutex
<1>9. StageLeader'
  <2>1. /\ pc[t] \notin QueueLeaderPcs /\ pc'[t] = EnrolledAs(s)
        /\ \A u \in Thds \ {t} : pc'[u] = pc[u]
    BY DEF LeaderPcs, QueueLeaderPcs, PcTypeOK
  <2>2. ASSUME NEW u \in BinlogThds
        PROVE  pc'[u] = s <=> queue'[s] # << >> /\ Head(queue'[s]) = u
    BY <1>1, <1>6, <2>1 DEF Structure, StageLeader, QueueLeaderPcs
  <2>3. ASSUME NEW u \in BinlogThds, NEW r \in {"SYNC", "COMMIT", "AFTER_COMMIT"} \ {s}
        PROVE  pc'[u] = r <=> queue'[r] # << >> /\ Head(queue'[r]) = u
    BY <1>1, <1>5, <2>1 DEF Structure, StageLeader, QueueLeaderPcs, Stages
  <2>4. ASSUME NEW u \in BinlogThds
        PROVE  pc'[u] \in {"BINLOG_FLUSH", "wait_leader"} <=>
                 queue'["BINLOG_FLUSH"] # << >> /\ Head(queue'["BINLOG_FLUSH"]) = u
    BY <1>1, <1>5, <2>1, ZenonT(40) DEF Structure, StageLeader, QueueLeaderPcs, Stages
  <2> QED BY <2>2, <2>3, <2>4, ZenonT(40) DEF StageLeader
<1>10. LeaderHeadsList'
  BY <1>1 DEF LeaderHeadsList, Structure, PcTypeOK, LeaderPcs, LeaderTypeOK
<1> QED BY <1>2, <1>7, <1>8, <1>9, <1>10 DEF Structure

-----------------------------------------------------------------------------
(***************************************************************************)
(* Types of the helpers.                                                   *)
(***************************************************************************)
LEMMA MembersFacts ==
  ASSUME NEW S, NEW s \in Seq(S)
  PROVE  Members(s) \subseteq S
BY DEF Members

(* A subsequence has elements of the same type. *)
LEMMA SubsequenceFacts ==
  ASSUME NEW S, NEW s \in Seq(S), NEW sub \in Subsequences(s)
  PROVE  sub \in Seq(S)
<1>1. PICK n \in 0 .. Len(s) :
        \E f \in [1 .. n -> DOMAIN s] : sub = [i \in 1 .. n |-> s[f[i]]]
  BY DEF Subsequences
<1>2. PICK f \in [1 .. n -> DOMAIN s] : sub = [i \in 1 .. n |-> s[f[i]]]
  BY <1>1
<1>3. \A i \in 1 .. n : s[f[i]] \in S
  BY <1>2
<1>4. n \in Nat
  BY LenProperties
<1> QED BY <1>2, <1>3, <1>4

(* The transactions of a list of sessions. *)
LEMMA TrxSeqType ==
  ASSUME IInv, NEW ts \in Seq(BinlogThds)
  PROVE  TrxSeq(ts) \in Seq(Trxs)
<1>1. \A i \in 1 .. Len(ts) : Trx(ts[i]) \in Trxs
  BY ThdsFacts DEF Trx, Trxs, IInv, CommitTypeOK, ThdTypeOK
<1>2. DOMAIN ts = 1 .. Len(ts) /\ Len(ts) \in Nat
  BY LenProperties
<1> QED BY <1>1, <1>2 DEF TrxSeq

(* The GTID updates keep the types of the GTID state. *)
LEMMA GtidTypes ==
  ASSUME IInv, NEW S \in {BinlogThds, OrderThds}, NEW ts \in Seq(S)
  PROVE  /\ UpdateRelayGtids(ts) => GtidTypeOK'
         /\ UpdateCommitGroup(ts) => GtidTypeOK'
<1>1. Members(ts) \subseteq Thds
  BY MembersFacts, ThdsFacts
<1>2. /\ {trx[t] : t \in Members(ts)} \subseteq Nat
      /\ {gno[t] : t \in Members(ts)} \subseteq Nat
  BY <1>1 DEF IInv, CommitTypeOK, ThdTypeOK, GtidTypeOK
<1>3. UpdateRelayGtids(ts) => GtidTypeOK'
  BY <1>2 DEF UpdateRelayGtids, GtidTypeOK, IInv, CommitTypeOK
<1>4. ASSUME UpdateCommitGroup(ts) PROVE GtidTypeOK'
  <2>1. executed' \subseteq Nat
    BY <1>2, <1>4 DEF UpdateCommitGroup, GtidTypeOK, IInv, CommitTypeOK
  <2>2. gno' \in [Thds -> Nat]
    BY <1>4 DEF UpdateCommitGroup, GtidTypeOK, IInv, CommitTypeOK
  <2> QED BY <1>4, <2>1, <2>2 DEF UpdateCommitGroup, GtidTypeOK, IInv, CommitTypeOK
<1> QED BY <1>3, <1>4

(* Counting down leaves a number. *)
LEMMA PrepXidsType ==
  ASSUME IInv, NEW ts \in Seq(BinlogThds), DecPrepXids(ts)
  PROVE  prep_xids' \in Int
<1> DEFINE D == {t \in Members(ts) : xid_written[t]}
<1>1. D \subseteq BinlogThds
  BY MembersFacts
<1>2. IsFiniteSet(D)
  BY <1>1, ConfigAssumption, FS_Subset
<1>3. Cardinality(D) \in Nat
  BY <1>2, FS_CardinalityType
<1> QED BY <1>3 DEF DecPrepXids, IInv, CommitTypeOK, OtherTypeOK

-----------------------------------------------------------------------------
(***************************************************************************)
(* Every action preserves the invariant.                                   *)
(***************************************************************************)
LEMMA UnchangedTypes ==
  ASSUME IInv
  PROVE  /\ UNCHANGED thdVars => ThdTypeOK'
         /\ UNCHANGED leaderVars => LeaderTypeOK'
         /\ UNCHANGED logVars => LogTypeOK'
         /\ UNCHANGED <<engineVars, redoVars>> => EngineTypeOK'
         /\ UNCHANGED gtidVars => GtidTypeOK'
         /\ UNCHANGED otherVars => OtherTypeOK'
<1> USE DEF IInv, CommitTypeOK
<1>1. UNCHANGED thdVars => ThdTypeOK'
  BY DEF thdVars, ThdTypeOK
<1>2. UNCHANGED leaderVars => LeaderTypeOK'
  BY DEF leaderVars, LeaderTypeOK
<1>3. UNCHANGED logVars => LogTypeOK'
  BY DEF logVars, LogTypeOK
<1>4. UNCHANGED <<engineVars, redoVars>> => EngineTypeOK'
  BY DEF engineVars, redoVars, EngineTypeOK
<1>5. UNCHANGED gtidVars => GtidTypeOK'
  BY DEF gtidVars, GtidTypeOK
<1>6. UNCHANGED otherVars => OtherTypeOK'
  BY DEF otherVars, OtherTypeOK
<1> QED BY <1>1, <1>2, <1>3, <1>4, <1>5, <1>6

(* Prepare preserves the invariant. *)
LEMMA PrepareInv ==
  ASSUME IInv, NEW t \in BinlogThds, Prepare(t) PROVE IInv'
<1> USE ThdsFacts DEF Prepare
<1>1. LocalMove(t, "prepared")
  BY DEF LocalMove, PcsOf, BinlogPcs, QueueLeaderPcs, LeaderPcs, HolderPcs,
     Mutexes, leaderVars, IInv, CommitTypeOK, StageTypeOK, SyncTypeOK
<1>2. ThdTypeOK'
  BY DEF ThdTypeOK, IInv, CommitTypeOK
<1>3. EngineTypeOK'
  BY DEF EngineTypeOK, ThdTypeOK, redoVars, Trxs, IInv, CommitTypeOK
<1> QED BY <1>1, <1>2, <1>3, LocalStep, UnchangedTypes DEF IInv, CommitTypeOK

(* FlushEngine preserves the invariant. *)
LEMMA FlushEngineInv ==
  ASSUME IInv, NEW t \in BinlogThds, FlushEngine(t) PROVE IInv'
<1> USE ThdsFacts DEF FlushEngine
<1>1. LocalMove(t, "order_done") \/ LocalMove(t, "write")
  BY DEF LocalMove, PcsOf, BinlogPcs, QueueLeaderPcs, LeaderPcs, HolderPcs,
     Mutexes, leaderVars, IInv, CommitTypeOK, StageTypeOK, SyncTypeOK
<1>2. EngineTypeOK'
  BY DEF EngineTypeOK, HaFlushLogs, engineVars, Members, IInv, CommitTypeOK
<1> QED BY <1>1, <1>2, LocalStep, UnchangedTypes DEF IInv, CommitTypeOK

(* FinishOrderList preserves the invariant. *)
LEMMA FinishOrderListInv ==
  ASSUME IInv, NEW t \in BinlogThds, FinishOrderList(t) PROVE IInv'
<1> USE ThdsFacts DEF FinishOrderList
<1>1. LocalMove(t, "write") \/ LocalMove(t, "to_commit_closed")
  BY DEF LocalMove, PcsOf, BinlogPcs, QueueLeaderPcs, LeaderPcs, HolderPcs,
     Mutexes, leaderVars, IInv, CommitTypeOK, StageTypeOK, SyncTypeOK, SignalDone
<1>2. LeaderTypeOK'
  BY ShortSeqs DEF LeaderTypeOK, IInv, CommitTypeOK
<1>3. GtidTypeOK'
  BY GtidTypes DEF GtidTypeOK, LeaderTypeOK, IInv, CommitTypeOK
<1> QED BY <1>1, <1>2, <1>3, LocalStep, UnchangedTypes DEF IInv, CommitTypeOK

(* CloseBinlog preserves the invariant. *)
LEMMA CloseBinlogInv ==
  ASSUME IInv, NEW t \in BinlogThds, CloseBinlog(t) PROVE IInv'
<1> USE ThdsFacts DEF CloseBinlog
<1>1. LocalMove(t, "to_sync") \/ UnlockMove(t, "signal", "LOCK_log")
  BY DEF LocalMove, UnlockMove, OnlyMutex, NoMutex, PcsOf, BinlogPcs,
     QueueLeaderPcs, LeaderPcs, HolderPcs, Mutexes, leaderVars, IInv, CommitTypeOK,
     StageTypeOK, SyncTypeOK
<1>2. LogTypeOK'
  BY LenProperties DEF LogTypeOK, logVars, IInv, CommitTypeOK
<1> QED BY <1>1, <1>2, LocalStep, UnlockStep, UnchangedTypes DEF IInv, CommitTypeOK

(* SyncBinlog preserves the invariant. *)
LEMMA SyncBinlogInv ==
  ASSUME IInv, NEW t \in BinlogThds, SyncBinlog(t) PROVE IInv'
<1> USE ThdsFacts DEF SyncBinlog
<1>1. LocalMove(t, "to_commit") \/ UnlockMove(t, "after_sync", "LOCK_sync")
  BY DEF LocalMove, UnlockMove, OnlyMutex, NoMutex, PcsOf, BinlogPcs,
     QueueLeaderPcs, LeaderPcs, HolderPcs, Mutexes, leaderVars, IInv, CommitTypeOK,
     StageTypeOK, SyncTypeOK
<1>2. ThdTypeOK'
  BY DEF ThdTypeOK, IInv, CommitTypeOK
<1>3. LeaderTypeOK'
  BY DEF LeaderTypeOK, IInv, CommitTypeOK
<1>4. LogTypeOK'
  BY DEF LogTypeOK, EndPosAfterSync, TrxPositions, IInv, CommitTypeOK
<1> QED BY <1>1, <1>2, <1>3, <1>4, LocalStep, UnlockStep,
     UnchangedTypes DEF IInv, CommitTypeOK

(* AfterSyncHook preserves the invariant. *)
LEMMA AfterSyncHookInv ==
  ASSUME IInv, NEW t \in BinlogThds, AfterSyncHook(t) PROVE IInv'
<1> USE ThdsFacts DEF AfterSyncHook
<1>1. PICK l \in {"commit", "sync_error", "signal"} :
        /\ Goto(t, l)
        /\ pc[t] = IF l = "commit" THEN "commit_hook" ELSE "after_sync"
  OBVIOUS
<1>2. LocalMove(t, l)
  BY <1>1 DEF LocalMove, PcsOf, BinlogPcs, QueueLeaderPcs, LeaderPcs, HolderPcs,
     Mutexes, IInv, CommitTypeOK, StageTypeOK, SyncTypeOK
<1>3. LeaderTypeOK'
  BY DEF LeaderTypeOK, IInv, CommitTypeOK
<1> QED BY <1>2, <1>3, LocalStep, UnchangedTypes DEF IInv, CommitTypeOK

(* CommitGroupDone preserves the invariant. *)
LEMMA CommitGroupDoneInv ==
  ASSUME IInv, NEW t \in BinlogThds, CommitGroupDone(t) PROVE IInv'
<1> USE ThdsFacts DEF CommitGroupDone
<1>1. LocalMove(t, "to_after_commit")
  BY DEF LocalMove, PcsOf, BinlogPcs, QueueLeaderPcs, LeaderPcs, HolderPcs,
     Mutexes, leaderVars, IInv, CommitTypeOK, StageTypeOK, SyncTypeOK
<1>2. ThdTypeOK'
  BY DEF ThdTypeOK, DecPrepXids, IInv, CommitTypeOK
<1>3. GtidTypeOK'
  BY GtidTypes DEF GtidTypeOK, LeaderTypeOK, IInv, CommitTypeOK
<1>4. OtherTypeOK'
  BY PrepXidsType DEF OtherTypeOK, LeaderTypeOK, IInv, CommitTypeOK
<1> QED BY <1>1, <1>2, <1>3, <1>4, LocalStep, UnchangedTypes DEF IInv, CommitTypeOK

(* AfterCommit preserves the invariant. *)
LEMMA AfterCommitInv ==
  ASSUME IInv, NEW t \in BinlogThds, AfterCommit(t) PROVE IInv'
<1> USE ThdsFacts DEF AfterCommit
<1>1. PICK l \in {"sync_error", "signal"} : Goto(t, l)
  OBVIOUS
<1>2. /\ pc[t] = "after_commit" /\ UnlockMutex("LOCK_after_commit")
      /\ UNCHANGED <<queue, pending, list>>
  BY DEF leaderVars
<1>3. UnlockMove(t, l, "LOCK_after_commit")
  <2> HIDE DEF AfterCommit
  <2> QED BY <1>1, <1>2 DEF UnlockMove, OnlyMutex, NoMutex, PcsOf, BinlogPcs,
     QueueLeaderPcs, LeaderPcs, HolderPcs, Mutexes
<1>4. ThdTypeOK'
  BY DEF ThdTypeOK, IInv, CommitTypeOK
<1>5. OtherTypeOK'
  BY SubsequenceFacts, TrxSeqType, ConcatFacts DEF OtherTypeOK, LeaderTypeOK,
     IInv, CommitTypeOK
<1> QED BY <1>3, <1>4, <1>5, UnlockStep, UnchangedTypes DEF IInv, CommitTypeOK

(* HandleSyncError preserves the invariant. *)
LEMMA HandleSyncErrorInv ==
  ASSUME IInv, NEW t \in BinlogThds, HandleSyncError(t) PROVE IInv'
<1> USE ThdsFacts DEF HandleSyncError
<1>1. LockMove(t, "close_sync", "LOCK_log") \/ LocalMove(t, "sync_error")
  BY DEF LocalMove, LockMove, OnlyMutex, NoMutex, PcsOf, BinlogPcs,
     QueueLeaderPcs, LeaderPcs, HolderPcs, Mutexes, leaderVars, IInv, CommitTypeOK,
     StageTypeOK, SyncTypeOK, PcTypeOK, Goto
<1>2. OtherTypeOK'
  BY DEF OtherTypeOK, IInv, CommitTypeOK
<1> QED BY <1>1, <1>2, LocalStep, LockStep, UnchangedTypes DEF IInv, CommitTypeOK

(* Signal preserves the invariant. *)
LEMMA SignalInv ==
  ASSUME IInv, NEW t \in BinlogThds, Signal(t) PROVE IInv'
<1> USE ThdsFacts DEF Signal
<1>1. LocalMove(t, "finish")
  BY DEF LocalMove, PcsOf, BinlogPcs, QueueLeaderPcs, LeaderPcs, HolderPcs,
     Mutexes, leaderVars, IInv, CommitTypeOK, StageTypeOK, SyncTypeOK, SignalDone
<1> QED BY <1>1, LocalStep, UnchangedTypes DEF IInv, CommitTypeOK

(* FollowerWakes preserves the invariant. *)
LEMMA FollowerWakesInv ==
  ASSUME IInv, NEW t \in Thds, FollowerWakes(t) PROVE IInv'
<1> USE ThdsFacts DEF FollowerWakes
<1>1. \E l : LocalMove(t, l)
  BY DEF LocalMove, PcsOf, BinlogPcs, OrderPcs, QueueLeaderPcs, LeaderPcs,
     HolderPcs, Mutexes, leaderVars, IInv, CommitTypeOK, StageTypeOK, SyncTypeOK,
     Thds, PcTypeOK
<1> QED BY <1>1, LocalStep, UnchangedTypes DEF IInv, CommitTypeOK

(* FinishInEngine preserves the invariant. *)
LEMMA FinishInEngineInv ==
  ASSUME IInv, NEW t \in BinlogThds, FinishInEngine(t) PROVE IInv'
<1> USE ThdsFacts DEF FinishInEngine
<1>1. LocalMove(t, "finish_low")
  BY DEF LocalMove, PcsOf, BinlogPcs, QueueLeaderPcs, LeaderPcs, HolderPcs,
     Mutexes, leaderVars, IInv, CommitTypeOK, StageTypeOK, SyncTypeOK
<1>2. ThdTypeOK'
  BY DEF ThdTypeOK, CommitInEngine, IInv, CommitTypeOK
<1>3. EngineTypeOK'
  BY DEF EngineTypeOK, CommitInEngine, ThdTypeOK, Trx, Trxs, redoVars, IInv,
     CommitTypeOK
<1> QED BY <1>1, <1>2, <1>3, LocalStep, UnchangedTypes DEF IInv, CommitTypeOK

(* FinishCommit preserves the invariant. *)
LEMMA FinishCommitInv ==
  ASSUME IInv, NEW t \in BinlogThds, FinishCommit(t) PROVE IInv'
<1> USE ThdsFacts DEF FinishCommit
<1>1. LocalMove(t, "idle") \/ LocalMove(t, "rotate")
  BY DEF LocalMove, PcsOf, BinlogPcs, QueueLeaderPcs, LeaderPcs, HolderPcs,
     Mutexes, leaderVars, IInv, CommitTypeOK, StageTypeOK, SyncTypeOK,
     RequestRotation, LeaderTypeOK
<1>2. ThdTypeOK'
  BY DEF ThdTypeOK, DecPrepXids, IInv, CommitTypeOK
<1>3. LeaderTypeOK'
  BY ShortSeqs DEF LeaderTypeOK, IInv, CommitTypeOK
<1>4. GtidTypeOK'
  <2>1. gno[t] \in Nat /\ gno' \in [Thds -> Nat]
    BY DEF UpdateOwnGtid, GtidTypeOK, IInv, CommitTypeOK
  <2>2. executed' \subseteq Nat /\ next_gno' \in Nat
    BY <2>1 DEF UpdateOwnGtid, GtidTypeOK, IInv, CommitTypeOK
  <2> QED BY <2>1, <2>2 DEF UpdateOwnGtid, GtidTypeOK, IInv, CommitTypeOK
<1>5. OtherTypeOK'
  <2>1. prep_xids' \in Int
    BY PrepXidsType, ShortSeqs
  <2>2. Trx(t) \in Trxs
    BY DEF ThdTypeOK, Trx, Trxs, IInv, CommitTypeOK
  <2>3. hooked' = hooked \/ hooked' = Append(hooked, Trx(t))
    OBVIOUS
  <2>4. hooked' \in Seq(Trxs)
    <3> HIDE DEF FinishCommit
    <3> QED BY <2>2, <2>3 DEF OtherTypeOK, IInv, CommitTypeOK
  <2> QED BY <2>1, <2>4 DEF OtherTypeOK, RequestRotation, IInv, CommitTypeOK
<1> QED BY <1>1, <1>2, <1>3, <1>4, <1>5, LocalStep, UnchangedTypes DEF IInv, CommitTypeOK

(* FlushLogs preserves the invariant. *)
LEMMA FlushLogsInv ==
  ASSUME IInv, NEW t \in BinlogThds, FlushLogs(t) PROVE IInv'
<1> USE ThdsFacts DEF FlushLogs
<1>1. LocalMove(t, "rotate")
  BY DEF LocalMove, PcsOf, BinlogPcs, QueueLeaderPcs, LeaderPcs, HolderPcs,
     Mutexes, leaderVars, IInv, CommitTypeOK, StageTypeOK, SyncTypeOK,
     RequestRotation
<1>2. OtherTypeOK'
  BY DEF OtherTypeOK, RequestRotation, IInv, CommitTypeOK
<1> QED BY <1>1, <1>2, LocalStep, UnchangedTypes DEF IInv, CommitTypeOK

(* RotateLock preserves the invariant. *)
LEMMA RotateLockInv ==
  ASSUME IInv, NEW t \in BinlogThds, RotateLock(t) PROVE IInv'
<1> USE ThdsFacts DEF RotateLock
<1>1. LockMove(t, "rotate_wait", "LOCK_log") \/ LocalMove(t, "idle")
  BY DEF LocalMove, LockMove, OnlyMutex, NoMutex, PcsOf, BinlogPcs,
     QueueLeaderPcs, LeaderPcs, HolderPcs, Mutexes, leaderVars, IInv, CommitTypeOK,
     StageTypeOK, SyncTypeOK
<1> QED BY <1>1, LocalStep, LockStep, UnchangedTypes DEF IInv, CommitTypeOK

(* WaitForPrepXids preserves the invariant. *)
LEMMA WaitForPrepXidsInv ==
  ASSUME IInv, NEW t \in BinlogThds, WaitForPrepXids(t) PROVE IInv'
<1> USE ThdsFacts DEF WaitForPrepXids
<1>1. LocalMove(t, "new_file")
  BY DEF LocalMove, PcsOf, BinlogPcs, QueueLeaderPcs, LeaderPcs, HolderPcs,
     Mutexes, leaderVars, IInv, CommitTypeOK, StageTypeOK, SyncTypeOK
<1>2. EngineTypeOK'
  BY DEF EngineTypeOK, HaFlushLogs, engineVars, Members, IInv, CommitTypeOK
<1> QED BY <1>1, <1>2, LocalStep, UnchangedTypes DEF IInv, CommitTypeOK

(* NewFile preserves the invariant. *)
LEMMA NewFileInv ==
  ASSUME IInv, NEW t \in BinlogThds, NewFile(t) PROVE IInv'
<1> USE ThdsFacts DEF NewFile
<1>1. UnlockMove(t, "idle", "LOCK_log")
  BY DEF UnlockMove, OnlyMutex, NoMutex, PcsOf, BinlogPcs, QueueLeaderPcs,
     LeaderPcs, HolderPcs, Mutexes, leaderVars, IInv, CommitTypeOK, StageTypeOK
<1>2. LogTypeOK'
  BY DEF LogTypeOK, IInv, CommitTypeOK
<1> QED BY <1>1, <1>2, UnlockStep, UnchangedTypes DEF IInv, CommitTypeOK

(* OrderCommit preserves the invariant. *)
LEMMA OrderCommitInv ==
  ASSUME IInv, NEW t \in OrderThds, OrderCommit(t) PROVE IInv'
<1> USE ThdsFacts DEF OrderCommit
<1>1. LocalMove(t, "order_committed")
  BY DEF LocalMove, PcsOf, OrderPcs, QueueLeaderPcs, LeaderPcs, HolderPcs,
     Mutexes, leaderVars, IInv, CommitTypeOK, StageTypeOK, SyncTypeOK
<1>2. ThdTypeOK'
  BY DEF ThdTypeOK, OtherTypeOK, IInv, CommitTypeOK
<1>3. EngineTypeOK'
  BY DEF EngineTypeOK, OtherTypeOK, redoVars, IInv, CommitTypeOK
<1> QED BY <1>1, <1>2, <1>3, LocalStep, UnchangedTypes DEF IInv, CommitTypeOK

(* OrderHandOver preserves the invariant. *)
LEMMA OrderHandOverInv ==
  ASSUME IInv, NEW t \in OrderThds, OrderHandOver(t) PROVE IInv'
<1> USE ThdsFacts DEF OrderHandOver
<1>1. pending' \in [Thds -> BOOLEAN]
  BY DEF HandOverLead, IInv, CommitTypeOK, StageTypeOK, SyncTypeOK
<1>2. LocalMove(t, "follow")
  BY <1>1 DEF LocalMove, PcsOf, OrderPcs, QueueLeaderPcs, LeaderPcs, HolderPcs,
     Mutexes, leaderVars, IInv, CommitTypeOK, StageTypeOK, SyncTypeOK, HandOverLead,
     Goto
<1> QED BY <1>2, LocalStep, UnchangedTypes DEF IInv, CommitTypeOK

(* OrderFlush preserves the invariant. *)
LEMMA OrderFlushInv ==
  ASSUME IInv, NEW t \in OrderThds, OrderFlush(t) PROVE IInv'
<1> USE ThdsFacts DEF OrderFlush
<1>1. LocalMove(t, "order_gtids")
  BY DEF LocalMove, PcsOf, OrderPcs, QueueLeaderPcs, LeaderPcs, HolderPcs,
     Mutexes, leaderVars, IInv, CommitTypeOK, StageTypeOK, SyncTypeOK
<1>2. EngineTypeOK'
  BY DEF EngineTypeOK, HaFlushLogs, engineVars, Members, IInv, CommitTypeOK
<1> QED BY <1>1, <1>2, LocalStep, UnchangedTypes DEF IInv, CommitTypeOK

(* OrderGtids preserves the invariant. *)
LEMMA OrderGtidsInv ==
  ASSUME IInv, NEW t \in OrderThds, OrderGtids(t) PROVE IInv'
<1> USE ThdsFacts DEF OrderGtids
<1>1. UnlockMove(t, "order_signal", "LOCK_commit")
  BY DEF UnlockMove, OnlyMutex, NoMutex, PcsOf, OrderPcs, QueueLeaderPcs,
     LeaderPcs, HolderPcs, Mutexes, leaderVars, IInv, CommitTypeOK, StageTypeOK
<1>2. GtidTypeOK'
  BY GtidTypes DEF GtidTypeOK, LeaderTypeOK, IInv, CommitTypeOK
<1> QED BY <1>1, <1>2, UnlockStep, UnchangedTypes DEF IInv, CommitTypeOK

(* OrderSignal preserves the invariant. *)
LEMMA OrderSignalInv ==
  ASSUME IInv, NEW t \in OrderThds, OrderSignal(t) PROVE IInv'
<1> USE ThdsFacts DEF OrderSignal
<1>1. LocalMove(t, "idle")
  BY DEF LocalMove, PcsOf, OrderPcs, QueueLeaderPcs, LeaderPcs, HolderPcs,
     Mutexes, leaderVars, IInv, CommitTypeOK, StageTypeOK, SyncTypeOK, SignalDone,
     LeaderTypeOK
<1>2. LeaderTypeOK'
  BY ShortSeqs DEF LeaderTypeOK, IInv, CommitTypeOK
<1> QED BY <1>1, <1>2, LocalStep, UnchangedTypes DEF IInv, CommitTypeOK

(* The session leaves its stage for the next one. *)
LEMMA ChangeStageInv ==
  ASSUME IInv, NEW t \in BinlogThds, NEW s \in {"SYNC", "COMMIT", "AFTER_COMMIT"},
         NEW m \in Mutexes, ChangeStage(t, s, m), OnlyMutex(pc[t], m), pc[t] \in LeaderPcs
  PROVE  IInv'
<1>1. NoMutex(s) /\ NoMutex("follow")
  BY DEF NoMutex, HolderPcs, Mutexes
<1>2. StageTypeOK' /\ Structure'
  BY <1>1, EnrollStep
<1>3. LeaderTypeOK'
  BY ShortSeqs, ThdsFacts DEF ChangeStage, LeaderTypeOK, IInv, CommitTypeOK
<1> QED BY <1>2, <1>3, UnchangedTypes DEF ChangeStage, IInv, CommitTypeOK

(* LeaveStage preserves the invariant. *)
LEMMA LeaveStageInv ==
  ASSUME IInv, NEW t \in BinlogThds,
         LeaveFlush(t) \/ LeaveSync(t) \/ LeaveCommit(t) \/ LeaveClosedFlush(t)
  PROVE  IInv'
<1>1. CASE LeaveFlush(t)
  BY <1>1, ChangeStageInv DEF LeaveFlush, OnlyMutex, HolderPcs, LeaderPcs, Mutexes
<1>2. CASE LeaveSync(t)
  BY <1>2, ChangeStageInv DEF LeaveSync, OnlyMutex, HolderPcs, LeaderPcs, Mutexes
<1>3. CASE LeaveCommit(t)
  BY <1>3, ChangeStageInv DEF LeaveCommit, OnlyMutex, HolderPcs, LeaderPcs, Mutexes
<1>4. CASE LeaveClosedFlush(t) /\ order_commits
  BY <1>4, ChangeStageInv DEF LeaveClosedFlush, OnlyMutex, HolderPcs, LeaderPcs, Mutexes
<1>5. CASE LeaveClosedFlush(t) /\ ~order_commits
  <2>1. UnlockMove(t, "after_sync", "LOCK_log")
    BY <1>5 DEF LeaveClosedFlush, UnlockMove, OnlyMutex, NoMutex, PcsOf, BinlogPcs,
       QueueLeaderPcs, LeaderPcs, HolderPcs, Mutexes, leaderVars
  <2> QED BY <1>5, <2>1, ThdsFacts, UnlockStep, UnchangedTypes
          DEF LeaveClosedFlush, IInv, CommitTypeOK
<1> QED BY <1>1, <1>2, <1>3, <1>4, <1>5

(* EnterStage preserves the invariant. *)
LEMMA EnterStageInv ==
  ASSUME IInv, NEW t \in BinlogThds,
         EnterSync(t) \/ EnterCommit(t) \/ EnterAfterCommit(t)
  PROVE  IInv'
<1>1. PICK s \in {"SYNC", "COMMIT", "AFTER_COMMIT"}, m \in Mutexes,
           l \in {"sync", "commit_hook", "after_commit"} :
        EnterStage(t, s, m, l) /\ OnlyMutex(l, m)
  BY DEF EnterSync, EnterCommit, EnterAfterCommit, OnlyMutex, HolderPcs, Mutexes
<1>2. NoMutex(s) /\ l \notin QueueLeaderPcs /\ l \in BinlogPcs
  BY DEF NoMutex, HolderPcs, Mutexes, QueueLeaderPcs, BinlogPcs
<1>3. StageTypeOK' /\ Structure'
  BY <1>1, <1>2, FetchStep
<1>4. queue[s] \in Seq(BinlogThds)
  BY DEF IInv, CommitTypeOK, StageTypeOK, QueueTypeOK, Stages
<1>5. LeaderTypeOK'
  BY <1>1, <1>4, ThdsFacts DEF EnterStage, LeaderTypeOK, IInv, CommitTypeOK
<1> QED BY <1>1, <1>3, <1>5, UnchangedTypes DEF EnterStage, IInv, CommitTypeOK

(* CommitNext preserves the invariant. *)
LEMMA CommitNextInv ==
  ASSUME IInv, NEW t \in BinlogThds, CommitNext(t) PROVE IInv'
<1> USE ThdsFacts DEF CommitNext
<1>1. StageTypeOK' /\ Structure'
  BY DEF stageVars, leaderVars, IInv, CommitTypeOK, StageTypeOK, PcTypeOK, QueueTypeOK,
     SyncTypeOK, Structure, MutexOwners, StageLeader, LeaderHeadsList
<1>2. PICK u \in BinlogThds : CommitInEngine(u)
  BY DEF IInv, CommitTypeOK, LeaderTypeOK
<1>3. ThdTypeOK'
  BY <1>2 DEF CommitInEngine, ThdTypeOK, IInv, CommitTypeOK
<1>4. Trx(u) \in Trxs
  BY DEF Trx, Trxs, ThdTypeOK, IInv, CommitTypeOK
<1>5. EngineTypeOK'
  BY <1>2, <1>4 DEF CommitInEngine, EngineTypeOK, redoVars, IInv, CommitTypeOK
<1> QED BY <1>1, <1>3, <1>5, UnchangedTypes DEF IInv, CommitTypeOK

(* The session joins the binlog flush queue: it leads, or waits to be made *)
(* leader, exactly if the queue was empty.                                 *)
LEMMA OrderedCommitInv ==
  ASSUME IInv, NEW t \in BinlogThds, OrderedCommit(t) PROVE IInv'
<1> USE ThdsFacts DEF OrderedCommit, InitThdVariables, EnrollFor
<1> DEFINE q == queue["BINLOG_FLUSH"]
<1>1. /\ q # << >> => EnrolledAs("BINLOG_FLUSH") = "follow"
      /\ q = << >> => EnrolledAs("BINLOG_FLUSH") \in {"BINLOG_FLUSH", "wait_leader"}
  BY DEF EnrolledAs
<1>2. /\ pc[t] = "prepared" /\ pc'[t] = EnrolledAs("BINLOG_FLUSH")
      /\ \A u \in Thds \ {t} : pc'[u] = pc[u]
  BY DEF IInv, CommitTypeOK, StageTypeOK, PcTypeOK
<1>3. PcTypeOK'
  BY <1>1 DEF IInv, CommitTypeOK, StageTypeOK, PcTypeOK, BinlogPcs, Thds
<1>4. q \in Seq(BinlogThds) /\ <<t>> \in Seq(BinlogThds) /\ Head(<<t>>) = t /\ <<t>> # << >>
  BY ShortSeqs DEF IInv, CommitTypeOK, StageTypeOK, QueueTypeOK, Stages
<1>5. /\ queue'["BINLOG_FLUSH"] = q \o <<t>>
      /\ \A r \in Stages \ {"BINLOG_FLUSH"} : queue'[r] = queue[r]
  BY DEF IInv, CommitTypeOK, StageTypeOK, QueueTypeOK, Stages
<1>6. /\ queue'["BINLOG_FLUSH"] \in Seq(BinlogThds) /\ queue'["BINLOG_FLUSH"] # << >>
      /\ Head(queue'["BINLOG_FLUSH"]) = IF q # << >> THEN Head(q) ELSE t
  <2>1. /\ q \o <<t>> \in Seq(BinlogThds)
        /\ q = << >> => q \o <<t>> = <<t>>
        /\ q # << >> => q \o <<t>> # << >> /\ Head(q \o <<t>>) = Head(q)
    BY <1>4, ConcatFacts, Zenon
  <2> QED BY <2>1, <1>4, <1>5
<1>7. QueueTypeOK' /\ SyncTypeOK'
  BY <1>5, <1>6 DEF IInv, CommitTypeOK, StageTypeOK, QueueTypeOK, SyncTypeOK, Stages
<1>8. MutexOwners'
  BY <1>1, <1>2 DEF IInv, Structure, MutexOwners, HolderPcs, Mutexes
<1>9. StageLeader'
  <2>1. ASSUME NEW u \in BinlogThds
        PROVE  pc'[u] \in {"BINLOG_FLUSH", "wait_leader"} <=>
                 queue'["BINLOG_FLUSH"] # << >> /\ Head(queue'["BINLOG_FLUSH"]) = u
    BY <1>1, <1>2, <1>6 DEF IInv, Structure, StageLeader
  <2>2. ASSUME NEW u \in BinlogThds, NEW r \in {"SYNC", "COMMIT", "AFTER_COMMIT"}
        PROVE  pc'[u] = r <=> queue'[r] # << >> /\ Head(queue'[r]) = u
    BY <1>1, <1>2, <1>5 DEF IInv, Structure, StageLeader, Stages
  <2> QED BY <2>1, <2>2 DEF StageLeader
<1>10. LeaderHeadsList'
  BY <1>1, <1>2 DEF IInv, Structure, LeaderHeadsList, LeaderPcs
<1>11. ThdTypeOK' /\ LeaderTypeOK'
  BY DEF IInv, CommitTypeOK, ThdTypeOK, LeaderTypeOK
<1> QED BY <1>3, <1>7, <1>8, <1>9, <1>10, <1>11, UnchangedTypes
        DEF IInv, CommitTypeOK, StageTypeOK, Structure

(* BinlogLeader preserves the invariant. *)
LEMMA BinlogLeaderInv ==
  ASSUME IInv, NEW t \in BinlogThds, BinlogLeader(t) PROVE IInv'
<1> USE ThdsFacts DEF BinlogLeader, BinlogLeaderWakes
<1>1. StageTypeOK'
  BY DEF IInv, CommitTypeOK, StageTypeOK, PcTypeOK, QueueTypeOK, SyncTypeOK, BinlogPcs
<1>2. MutexOwners'
  BY DEF IInv, CommitTypeOK, StageTypeOK, PcTypeOK, Structure, MutexOwners, HolderPcs, Mutexes
<1>3. StageLeader'
  BY DEF IInv, CommitTypeOK, StageTypeOK, PcTypeOK, Structure, StageLeader
<1>4. LeaderHeadsList'
  BY DEF IInv, CommitTypeOK, StageTypeOK, PcTypeOK, Structure, LeaderHeadsList, LeaderPcs,
     leaderVars
<1> QED BY <1>1, <1>2, <1>3, <1>4, UnchangedTypes DEF IInv, CommitTypeOK, Structure

(* EnterFlush preserves the invariant. *)
LEMMA EnterFlushInv ==
  ASSUME IInv, NEW t \in BinlogThds, EnterFlush(t) PROVE IInv'
<1> USE ThdsFacts DEF EnterFlush, Goto
<1>1. PICK l \in {"flush_engine", "to_commit_closed"} : pc' = [pc EXCEPT ![t] = l]
  OBVIOUS
<1>2. /\ pc[t] = "BINLOG_FLUSH" /\ pc'[t] = l
      /\ \A u \in Thds \ {t} : pc'[u] = pc[u]
  BY <1>1 DEF IInv, CommitTypeOK, StageTypeOK, PcTypeOK
<1>3. PcTypeOK'
  BY <1>1 DEF IInv, CommitTypeOK, StageTypeOK, PcTypeOK, BinlogPcs
<1>4. /\ queue'["BINLOG_FLUSH"] = << >> /\ queue'["COMMIT_ORDER_FLUSH"] = << >>
      /\ \A s \in {"SYNC", "COMMIT", "AFTER_COMMIT"} : queue'[s] = queue[s]
  BY DEF FetchQueues, Stages
<1>5. QueueTypeOK' /\ SyncTypeOK'
  BY ShortSeqs DEF IInv, CommitTypeOK, StageTypeOK, QueueTypeOK, SyncTypeOK, FetchQueues,
     LockMutex, Stages
<1>6. MutexOwners'
  <2>1. /\ owner'["LOCK_log"] = t /\ owner["LOCK_log"] = NULL
        /\ \A m \in Mutexes \ {"LOCK_log"} : owner'[m] = owner[m]
    BY DEF IInv, CommitTypeOK, StageTypeOK, SyncTypeOK, LockMutex, Free, Mutexes
  <2> HIDE DEF EnterFlush
  <2> QED BY <1>2, <2>1 DEF IInv, Structure, MutexOwners, HolderPcs, Mutexes
<1>7. queue["BINLOG_FLUSH"] # << >> /\ Head(queue["BINLOG_FLUSH"]) = t
  BY DEF IInv, Structure, StageLeader
<1>8. StageLeader'
  <2> HIDE DEF EnterFlush
  <2>1. ASSUME NEW u \in BinlogThds PROVE pc'[u] \notin {"BINLOG_FLUSH", "wait_leader"}
    BY <1>2, <1>7 DEF IInv, Structure, StageLeader
  <2> QED BY <2>1, <1>2, <1>4 DEF IInv, Structure, StageLeader
<1>9. LeaderTypeOK'
  BY DEF IInv, CommitTypeOK, LeaderTypeOK, StageTypeOK, QueueTypeOK, Stages
<1>10. LeaderHeadsList'
  BY <1>2, <1>7 DEF IInv, CommitTypeOK, LeaderTypeOK, Structure, LeaderHeadsList
<1> QED BY <1>3, <1>5, <1>6, <1>8, <1>9, <1>10, UnchangedTypes
        DEF IInv, CommitTypeOK, StageTypeOK, Structure

(* The leader's list is not empty, so that it gets at least one number. *)
LEMMA AssignGtidsTypes ==
  ASSUME IInv, NEW ts \in Seq(BinlogThds), ts # << >>, AssignGtids(ts)
  PROVE  gno' \in [Thds -> Nat] /\ next_gno' \in Nat
<1>1. FreeGnos \subseteq Nat
  <2>1. Cardinality(BinlogThds) \in Nat /\ MaxTrx \in Nat
    BY ConfigAssumption, FS_CardinalityType
  <2>2. Cardinality(BinlogThds) * MaxTrx \in Nat
    BY <2>1
  <2> QED BY <2>2 DEF FreeGnos, IInv, CommitTypeOK, GtidTypeOK
<1>2. PICK f \in [DOMAIN ts -> FreeGnos] :
        /\ gno' = [t \in Thds |-> IF t \in Members(ts)
                                  THEN f[CHOOSE i \in DOMAIN ts : ts[i] = t]
                                  ELSE gno[t]]
        /\ next_gno' = f[Len(ts)] + 1
  BY DEF AssignGtids
<1>3. \A i \in DOMAIN ts : f[i] \in Nat
  BY <1>1
<1>4. Len(ts) \in DOMAIN ts
  BY EmptySeq, LenProperties
<1>5. \A t \in Members(ts) : (CHOOSE i \in DOMAIN ts : ts[i] = t) \in DOMAIN ts
  BY DEF Members
<1>6. \A t \in Thds : gno[t] \in Nat
  BY DEF IInv, CommitTypeOK, GtidTypeOK
<1>7. \A t \in Thds : gno'[t] \in Nat
  BY <1>2, <1>3, <1>5, <1>6
<1> QED BY <1>2, <1>3, <1>4, <1>7

(* WriteBinlog preserves the invariant. *)
LEMMA WriteBinlogInv ==
  ASSUME IInv, NEW t \in BinlogThds, WriteBinlog(t) PROVE IInv'
<1>1. /\ list[t] \in Seq(BinlogThds) /\ list[t] # << >>
      /\ AssignGtids(list[t]) /\ UNCHANGED <<executed, relay_executed>>
  BY DEF WriteBinlog, FlushThreadCaches, IInv, CommitTypeOK, LeaderTypeOK, Structure, LeaderHeadsList, LeaderPcs
<1>2. GtidTypeOK'
  BY <1>1, AssignGtidsTypes DEF IInv, CommitTypeOK, GtidTypeOK
<1>3. PICK written \in Subsequences(list[t]), file_fails \in BOOLEAN :
        LET failed == Members(list[t]) \ Members(written)
            fails == FlushFails(written, file_fails)
        IN  /\ binlog' = binlog \o TrxSeq(written)
            /\ xid_written' = [u \in Thds |-> xid_written[u] \/ u \in Members(written)]
            /\ prep_xids' = prep_xids + Len(written)
            /\ commit_error' =
                 [u \in Thds |-> IF u \in failed \/ (u = t /\ file_fails)
                                 THEN "FLUSH_ERROR" ELSE commit_error[u]]
            /\ err' = [err EXCEPT ![t] = IF fails THEN "flush" ELSE "none"]
            /\ end_pos' = EndPosAfterFlush(fails, Len(binlog'))
            /\ server' = IF fails /\ AbortServer THEN "aborted" ELSE server
            /\ Goto(t, IF fails THEN "close_flush" ELSE "to_sync")
  BY DEF WriteBinlog, FlushThreadCaches
<1>4. written \in Seq(BinlogThds) /\ TrxSeq(written) \in Seq(Trxs) /\ Len(written) \in Nat
  BY <1>1, SubsequenceFacts, TrxSeqType, LenProperties
<1>5. binlog' \in Seq(Trxs)
  BY <1>3, <1>4, ConcatFacts DEF IInv, CommitTypeOK, LogTypeOK
<1>6. LogTypeOK'
  <2>1. end_pos' \in Nat
    BY <1>3, <1>5, LenProperties DEF EndPosAfterFlush, IInv, CommitTypeOK, LogTypeOK
  <2> QED BY <1>5, <2>1 DEF WriteBinlog, FlushThreadCaches, IInv, CommitTypeOK, LogTypeOK
<1>7. OtherTypeOK'
  BY <1>3, <1>4 DEF WriteBinlog, FlushThreadCaches, IInv, CommitTypeOK, OtherTypeOK
<1>8. ThdTypeOK'
  <2>1. commit_error' \in [Thds -> {"NONE", "FLUSH_ERROR", "SYNC_ERROR"}]
    BY <1>3 DEF IInv, CommitTypeOK, ThdTypeOK
  <2>2. xid_written' \in [Thds -> BOOLEAN]
    BY <1>3 DEF IInv, CommitTypeOK, ThdTypeOK
  <2> QED BY <2>1, <2>2 DEF WriteBinlog, FlushThreadCaches, IInv, CommitTypeOK, ThdTypeOK
<1>9. LeaderTypeOK'
  BY <1>3, ThdsFacts DEF WriteBinlog, FlushThreadCaches, IInv, CommitTypeOK, LeaderTypeOK
<1>10. PICK l \in {"close_flush", "to_sync"} : Goto(t, l)
  BY <1>3
<1>11. pc[t] = "write" /\ UNCHANGED <<queue, owner, pending, list>>
  BY DEF WriteBinlog, FlushThreadCaches
<1>12. LocalMove(t, l)
  BY <1>10, <1>11 DEF LocalMove, PcsOf, BinlogPcs, QueueLeaderPcs, LeaderPcs, HolderPcs,
     Mutexes, IInv, CommitTypeOK, StageTypeOK, SyncTypeOK
<1>13. StageTypeOK' /\ Structure'
  BY <1>12, LocalStep, ThdsFacts
<1>14. EngineTypeOK'
  BY UnchangedTypes DEF WriteBinlog, FlushThreadCaches
<1> QED BY <1>2, <1>6, <1>7, <1>8, <1>9, <1>13, <1>14 DEF IInv, CommitTypeOK

(* A worker joins the commit order queue, which no mutex and no binlog     *)
(* session's lead depends on.                                              *)
LEMMA OrderEnrollInv ==
  ASSUME IInv, NEW w \in OrderThds, OrderEnroll(w) PROVE IInv'
<1> USE ThdsFacts DEF OrderEnroll, EnrollFor
<1>1. PICK l \in {"follow", "COMMIT_ORDER_FLUSH"} : pc' = [pc EXCEPT ![w] = l]
  BY DEF EnrolledAs
<1>2. /\ pc[w] = "order_committed" /\ pc'[w] = l
      /\ \A u \in Thds \ {w} : pc'[u] = pc[u]
  BY <1>1 DEF IInv, CommitTypeOK, StageTypeOK, PcTypeOK
<1>3. PcTypeOK'
  BY <1>1 DEF IInv, CommitTypeOK, StageTypeOK, PcTypeOK, OrderPcs
<1>4. queue["COMMIT_ORDER_FLUSH"] \o <<w>> \in Seq(OrderThds)
  BY ShortSeqs, ConcatFacts DEF IInv, CommitTypeOK, StageTypeOK, QueueTypeOK
<1>5. QueueTypeOK' /\ SyncTypeOK'
  BY <1>4 DEF IInv, CommitTypeOK, StageTypeOK, QueueTypeOK, SyncTypeOK, Stages
<1>6. \A s \in Stages \ {"COMMIT_ORDER_FLUSH"} : queue'[s] = queue[s]
  BY DEF IInv, CommitTypeOK, StageTypeOK, QueueTypeOK
<1>7. MutexOwners'
  BY <1>2 DEF IInv, Structure, MutexOwners, HolderPcs, Mutexes
<1>8. StageLeader'
  BY <1>2, <1>6 DEF IInv, Structure, StageLeader, Stages
<1>9. LeaderHeadsList'
  BY <1>2 DEF IInv, Structure, LeaderHeadsList, leaderVars
<1>10. OtherTypeOK'
  BY DEF IInv, CommitTypeOK, OtherTypeOK
<1> QED BY <1>3, <1>5, <1>7, <1>8, <1>9, <1>10, UnchangedTypes
        DEF IInv, CommitTypeOK, StageTypeOK, Structure

(* OrderFetch preserves the invariant. *)
LEMMA OrderFetchInv ==
  ASSUME IInv, NEW w \in OrderThds, OrderFetch(w) PROVE IInv'
<1> USE ThdsFacts DEF OrderFetch, EnterStage, Goto
<1>1. /\ pc[w] = "COMMIT_ORDER_FLUSH" /\ pc'[w] = "order_lock"
      /\ \A u \in Thds \ {w} : pc'[u] = pc[u]
  BY DEF IInv, CommitTypeOK, StageTypeOK, PcTypeOK
<1>2. PcTypeOK'
  BY DEF IInv, CommitTypeOK, StageTypeOK, PcTypeOK, OrderPcs
<1>3. QueueTypeOK' /\ SyncTypeOK'
  BY ShortSeqs DEF IInv, CommitTypeOK, StageTypeOK, QueueTypeOK, SyncTypeOK, FetchQueues,
     LockMutex, Stages
<1>4. \A s \in Stages \ {"COMMIT_ORDER_FLUSH"} : queue'[s] = queue[s]
  BY DEF FetchQueues
<1>5. /\ owner'["LOCK_log"] = w /\ owner["LOCK_log"] = NULL
      /\ \A m \in Mutexes \ {"LOCK_log"} : owner'[m] = owner[m]
  BY DEF IInv, CommitTypeOK, StageTypeOK, SyncTypeOK, LockMutex, Free, Mutexes
<1>6. MutexOwners'
  BY <1>1, <1>5 DEF IInv, Structure, MutexOwners, HolderPcs, Mutexes
<1>7. StageLeader'
  BY <1>1, <1>4 DEF IInv, Structure, StageLeader, Stages
<1>8. LeaderTypeOK'
  BY DEF IInv, CommitTypeOK, LeaderTypeOK, StageTypeOK, QueueTypeOK, Stages
<1>9. LeaderHeadsList'
  BY <1>1 DEF IInv, CommitTypeOK, LeaderTypeOK, Structure, LeaderHeadsList
<1> QED BY <1>2, <1>3, <1>6, <1>7, <1>8, <1>9, UnchangedTypes
        DEF IInv, CommitTypeOK, StageTypeOK, Structure

(* OrderLockCommit preserves the invariant. *)
LEMMA OrderLockCommitInv ==
  ASSUME IInv, NEW w \in OrderThds, OrderLockCommit(w) PROVE IInv'
<1> USE ThdsFacts DEF OrderLockCommit, Goto
<1>1. /\ pc[w] = "order_lock" /\ pc'[w] = "order_flush"
      /\ \A u \in Thds \ {w} : pc'[u] = pc[u]
  BY DEF IInv, CommitTypeOK, StageTypeOK, PcTypeOK
<1>2. StageTypeOK'
  BY DEF IInv, CommitTypeOK, StageTypeOK, PcTypeOK, QueueTypeOK, SyncTypeOK, OrderPcs, Mutexes
<1>3. /\ owner["LOCK_commit"] = NULL /\ owner["LOCK_log"] = w
      /\ owner'["LOCK_commit"] = w /\ owner'["LOCK_log"] = NULL
      /\ \A m \in Mutexes \ {"LOCK_commit", "LOCK_log"} : owner'[m] = owner[m]
  BY DEF IInv, CommitTypeOK, StageTypeOK, SyncTypeOK, Free, Mutexes, Structure, MutexOwners,
     HolderPcs
<1>4. MutexOwners'
  <2> SUFFICES ASSUME NEW m \in Mutexes, NEW u \in Thds
               PROVE  owner'[m] = u <=> pc'[u] \in HolderPcs[m]
    BY DEF MutexOwners
  <2> USE DEF IInv, Structure, MutexOwners, HolderPcs, Mutexes
  <2> HIDE DEF OrderLockCommit
  <2>1. CASE m = "LOCK_log"
    BY <1>1, <1>3, <2>1
  <2>2. CASE m = "LOCK_commit"
    BY <1>1, <1>3, <2>2
  <2>3. CASE m \in {"LOCK_sync", "LOCK_after_commit"}
    BY <1>1, <1>3, <2>3
  <2> QED BY <2>1, <2>2, <2>3
<1>5. StageLeader' /\ LeaderHeadsList'
  BY <1>1 DEF IInv, Structure, StageLeader, LeaderHeadsList, leaderVars
<1> QED BY <1>2, <1>4, <1>5, UnchangedTypes DEF IInv, CommitTypeOK, Structure

-----------------------------------------------------------------------------
(***************************************************************************)
(* The theorems.                                                           *)
(***************************************************************************)
LEMMA InitInv ==
  ASSUME Init PROVE IInv
<1> USE ThdsFacts, ShortSeqs DEF Init
<1>1. StageTypeOK
  BY DEF StageTypeOK, PcTypeOK, QueueTypeOK, SyncTypeOK, BinlogPcs, OrderPcs, Stages
<1>2. ThdTypeOK /\ LeaderTypeOK /\ LogTypeOK /\ EngineTypeOK /\ GtidTypeOK /\ OtherTypeOK
  BY DEF ThdTypeOK, LeaderTypeOK, LogTypeOK, EngineTypeOK, GtidTypeOK, OtherTypeOK
<1>3. MutexOwners
  BY DEF MutexOwners, HolderPcs, Mutexes
<1>4. StageLeader /\ LeaderHeadsList
  BY DEF StageLeader, LeaderHeadsList, LeaderPcs, Stages
<1> QED BY <1>1, <1>2, <1>3, <1>4 DEF IInv, CommitTypeOK, Structure

(* So does a step that changes nothing. *)
LEMMA StutterInv ==
  ASSUME IInv, UNCHANGED <<stageVars, thdVars, leaderVars, logVars, engineVars, redoVars,
                           gtidVars, otherVars>>
  PROVE  IInv'
<1>1. StageTypeOK' /\ Structure'
  BY DEF stageVars, leaderVars, IInv, CommitTypeOK, StageTypeOK, PcTypeOK, QueueTypeOK,
     SyncTypeOK, Structure, MutexOwners, StageLeader, LeaderHeadsList
<1> QED BY <1>1, UnchangedTypes DEF IInv, CommitTypeOK

(* Every step preserves the invariant. *)
LEMMA NextInv ==
  ASSUME IInv, [Next]_vars PROVE IInv'
<1>1. ASSUME NEW t \in BinlogThds, Prepare(t) \/ FlushLogs(t) \/ BinlogStep(t) PROVE IInv'
  <2>1. CASE Prepare(t)
    BY <2>1, PrepareInv
  <2>2. CASE FlushLogs(t)
    BY <2>2, FlushLogsInv
  <2>3. CASE OrderedCommit(t)
    BY <2>3, OrderedCommitInv
  <2>4. CASE BinlogLeader(t)
    BY <2>4, BinlogLeaderInv
  <2>5. CASE EnterFlush(t)
    BY <2>5, EnterFlushInv
  <2>6. CASE FlushEngine(t)
    BY <2>6, FlushEngineInv
  <2>7. CASE FinishOrderList(t)
    BY <2>7, FinishOrderListInv
  <2>8. CASE WriteBinlog(t)
    BY <2>8, WriteBinlogInv
  <2>9. CASE CloseBinlog(t)
    BY <2>9, CloseBinlogInv
  <2>10. CASE SyncBinlog(t)
    BY <2>10, SyncBinlogInv
  <2>11. CASE AfterSyncHook(t)
    BY <2>11, AfterSyncHookInv
  <2>12. CASE CommitNext(t)
    BY <2>12, CommitNextInv
  <2>13. CASE CommitGroupDone(t)
    BY <2>13, CommitGroupDoneInv
  <2>14. CASE AfterCommit(t)
    BY <2>14, AfterCommitInv
  <2>15. CASE HandleSyncError(t)
    BY <2>15, HandleSyncErrorInv
  <2>16. CASE Signal(t)
    BY <2>16, SignalInv
  <2>17. CASE FollowerWakes(t)
    BY <2>17, FollowerWakesInv, ThdsFacts
  <2>18. CASE FinishInEngine(t)
    BY <2>18, FinishInEngineInv
  <2>19. CASE FinishCommit(t)
    BY <2>19, FinishCommitInv
  <2>20. CASE RotateLock(t)
    BY <2>20, RotateLockInv
  <2>21. CASE WaitForPrepXids(t)
    BY <2>21, WaitForPrepXidsInv
  <2>22. CASE NewFile(t)
    BY <2>22, NewFileInv
  <2>23. CASE LeaveFlush(t) \/ LeaveSync(t) \/ LeaveCommit(t) \/ LeaveClosedFlush(t)
    BY <2>23, LeaveStageInv
  <2>24. CASE EnterSync(t) \/ EnterCommit(t) \/ EnterAfterCommit(t)
    BY <2>24, EnterStageInv
  <2> QED BY <1>1, <2>1, <2>2, <2>3, <2>4, <2>5, <2>6, <2>7, <2>8, <2>9,
          <2>10, <2>11, <2>12, <2>13, <2>14, <2>15, <2>16, <2>17, <2>18,
          <2>19, <2>20, <2>21, <2>22, <2>23, <2>24
          DEF BinlogStep
<1>2. ASSUME NEW w \in OrderThds, OrderCommit(w) \/ OrderStep(w) PROVE IInv'
  <2>1. CASE OrderCommit(w)
    BY <2>1, OrderCommitInv
  <2>2. CASE OrderEnroll(w)
    BY <2>2, OrderEnrollInv
  <2>3. CASE OrderHandOver(w)
    BY <2>3, OrderHandOverInv
  <2>4. CASE FollowerWakes(w)
    BY <2>4, FollowerWakesInv, ThdsFacts
  <2>5. CASE OrderFetch(w)
    BY <2>5, OrderFetchInv
  <2>6. CASE OrderLockCommit(w)
    BY <2>6, OrderLockCommitInv
  <2>7. CASE OrderFlush(w)
    BY <2>7, OrderFlushInv
  <2>8. CASE OrderGtids(w)
    BY <2>8, OrderGtidsInv
  <2>9. CASE OrderSignal(w)
    BY <2>9, OrderSignalInv
  <2> QED BY <1>2, <2>1, <2>2, <2>3, <2>4, <2>5, <2>6, <2>7, <2>8, <2>9
          DEF OrderStep
<1>3. CASE SetOrderCommits \/ Stop \/ UNCHANGED vars
  BY <1>3, StutterInv DEF SetOrderCommits, Stop, vars
<1> QED BY <1>1, <1>2, <1>3 DEF Next

(* The invariant holds in every state. *)
LEMMA Invariance == Spec => []IInv
<1>1. Init => IInv
  BY InitInv
<1>2. IInv /\ [Next]_vars => IInv'
  BY NextInv
<1> QED BY <1>1, <1>2, PTL DEF Spec

(* Every variable of the commit path keeps its type, whatever the          *)
(* interleaving: in particular no commit order worker ever gets into a     *)
(* binlog stage queue, nor a binlog session into a worker's list.          *)
THEOREM TypeCorrect == Spec => []TypeOK
<1>1. IInv /\ SettingsTypeOK => TypeOK
  BY DEF IInv, TypeOK
<1>2. Init => SettingsTypeOK
  BY DEF Init, SettingsTypeOK
<1>3. SettingsTypeOK /\ [Next]_vars => SettingsTypeOK'
  BY DEF Next, SetOrderCommits, Stop, vars, SettingsTypeOK
<1> QED BY <1>1, <1>2, <1>3, Invariance, PTL DEF Spec

(* enroll_for elects exactly one leader per queue, for any number of       *)
(* sessions and workers, however the groups merge in the later stages, and *)
(* with any of the errors: the first session of a non-empty queue is on    *)
(* its way to fetch it and nobody else is.                                 *)
THEOREM OneLeaderPerQueue == Spec => []StageLeader
<1>1. IInv => StageLeader
  BY DEF IInv, Structure
<1> QED BY <1>1, Invariance, PTL

(* change_stage, ordered_commit, new_file_impl and the commit order        *)
(* manager's flush_engine_and_signal_threads pair every lock of LOCK_log,  *)
(* LOCK_sync, LOCK_commit and LOCK_after_commit with its unlock: a mutex   *)
(* is owned by t exactly while t's code is between the two, also when a    *)
(* commit order leader gives its lead away or an error closes the log.     *)
THEOREM MutexesPaired == Spec => []MutexOwners
<1>1. IInv => MutexOwners
  BY DEF IInv, Structure
<1> QED BY <1>1, Invariance, PTL

-----------------------------------------------------------------------------
(***************************************************************************)
(* One flush leader.  With workers and a second binlog session a leader    *)
(* that was handed the lead may be signalled by a list it left long ago    *)
(* (the run lead_hand_over), so one of the two must be missing.            *)
(***************************************************************************)
NobodyOvertakes == OrderThds = {} \/ \A t, u \in BinlogThds : t = u

(* Only a worker makes a session wait to be made leader. *)
WaitsForWorker == \A t \in BinlogThds : pc[t] = "wait_leader" => OrderThds # {}

Led == OneFlushLeader /\ WaitsForWorker

FlushQueues == {"BINLOG_FLUSH", "COMMIT_ORDER_FLUSH"}

FlushLeads == {"BINLOG_FLUSH", "wait_leader", "COMMIT_ORDER_FLUSH"}

(* The worker that heads its queue is there. *)
LEMMA HeadOfWorkers ==
  ASSUME IInv, queue["COMMIT_ORDER_FLUSH"] # << >>
  PROVE  Head(queue["COMMIT_ORDER_FLUSH"]) \in OrderThds
<1>1. queue["COMMIT_ORDER_FLUSH"] \in Seq(OrderThds)
  BY DEF IInv, CommitTypeOK, StageTypeOK, QueueTypeOK
<1> QED BY <1>1, HeadTailProperties

(* A step that leaves the flush queues and those that lead them alone. *)
LEMMA QuietLead ==
  ASSUME IInv, Led, \A s \in FlushQueues : queue'[s] = queue[s],
         \A u \in Thds, l \in FlushLeads : pc'[u] = l <=> pc[u] = l,
         \A u \in BinlogThds : pc[u] = "wait_leader" => pending'[u] = pending[u]
  PROVE  Led'
<1>1. queue["COMMIT_ORDER_FLUSH"] # << >> => Head(queue["COMMIT_ORDER_FLUSH"]) \in Thds
  BY HeadOfWorkers, ThdsFacts
<1> QED BY <1>1, ThdsFacts DEF Led, OneFlushLeader, WaitsForWorker, FlushQueues, FlushLeads

(* The steps of a binlog session outside the flush queues. *)
LEMMA BinlogLed ==
  ASSUME NobodyOvertakes, IInv, Led, NEW t \in BinlogThds,
         Prepare(t) \/ FlushLogs(t) \/ BinlogStep(t),
         ~OrderedCommit(t), ~BinlogLeader(t), ~EnterFlush(t)
  PROVE  Led'
<1> DEFINE Still == \A s \in FlushQueues : queue'[s] = queue[s]
           Moved == \A u \in Thds, l \in FlushLeads : pc'[u] = l <=> pc[u] = l
           Woken == \A u \in BinlogThds : pc[u] = "wait_leader" => pending'[u] = pending[u]
<1>0. ASSUME NEW l, Goto(t, l), pc[t] \notin FlushLeads, l \notin FlushLeads
      PROVE  Moved
  BY <1>0, ThdsFacts DEF Goto, IInv, CommitTypeOK, StageTypeOK, PcTypeOK
<1>1. ASSUME UNCHANGED queue PROVE Still
  BY <1>1
<1>2. ASSUME UNCHANGED pending PROVE Woken
  BY <1>2
<1>3. ASSUME NEW l, Goto(t, l), pc[t] \notin FlushLeads, l \notin FlushLeads,
             UNCHANGED <<queue, pending>>
      PROVE  Led'
  BY <1>0, <1>1, <1>2, <1>3, QuietLead
<1> DEFINE Local == /\ UNCHANGED <<queue, pending>> /\ pc[t] \notin FlushLeads
                    /\ \E l : Goto(t, l) /\ l \notin FlushLeads
<1>4. Local => Led'
  BY <1>3
<1> HIDE DEF Still, Moved, Woken, Local
<1>5. CASE Prepare(t) \/ FlushLogs(t)
  BY <1>4, <1>5 DEF Local, Prepare, FlushLogs, RequestRotation, FlushLeads
<1>6. CASE FlushEngine(t) \/ CloseBinlog(t)
  <2>1. Local
    BY <1>6 DEF Local, FlushEngine, CloseBinlog, FlushLeads
  <2> QED BY <1>4, <2>1
<1>7. CASE WriteBinlog(t) \/ SyncBinlog(t)
  <2>1. Local
    BY <1>7 DEF Local, WriteBinlog, SyncBinlog, FlushLeads
  <2> QED BY <1>4, <2>1
<1>8. CASE AfterSyncHook(t) \/ CommitGroupDone(t) \/ AfterCommit(t)
  <2>1. Local
    BY <1>8 DEF Local, AfterSyncHook, CommitGroupDone, AfterCommit, FlushLeads
  <2> QED BY <1>4, <2>1
<1>9. CASE FollowerWakes(t) \/ FinishInEngine(t) \/ FinishCommit(t)
  <2>1. Local
    BY <1>9 DEF Local, FollowerWakes, FinishInEngine, FinishCommit, RequestRotation, FlushLeads
  <2> QED BY <1>4, <2>1
<1>10. CASE RotateLock(t) \/ WaitForPrepXids(t) \/ NewFile(t)
  <2>1. Local
    BY <1>10 DEF Local, RotateLock, WaitForPrepXids, NewFile, FlushLeads
  <2> QED BY <1>4, <2>1
<1>11. CASE CommitNext(t)
  BY <1>11, <1>1, <1>2, QuietLead DEF CommitNext, stageVars, Still, Moved, Woken
<1>12. CASE HandleSyncError(t)
  <2>1. UNCHANGED <<queue, pending>> /\ (UNCHANGED pc \/ Local)
    BY <1>12 DEF HandleSyncError, Local, FlushLeads
  <2> QED BY <1>1, <1>2, <1>4, <2>1, QuietLead DEF Still, Moved, Woken
<1>13. CASE LeaveClosedFlush(t) /\ ~order_commits
  <2>1. Local
    BY <1>13 DEF Local, LeaveClosedFlush, FlushLeads
  <2> QED BY <1>4, <2>1
<1>14. CASE LeaveFlush(t) \/ LeaveSync(t) \/ LeaveCommit(t) \/ (LeaveClosedFlush(t) /\ order_commits)
  <2>1. PICK s \in {"SYNC", "COMMIT", "AFTER_COMMIT"}, m \in Mutexes :
          ChangeStage(t, s, m) /\ pc[t] \notin FlushLeads
    BY <1>14 DEF LeaveFlush, LeaveSync, LeaveCommit, LeaveClosedFlush, Mutexes, FlushLeads
  <2>2. Still
    BY <2>1 DEF ChangeStage, EnrollFor, Still, FlushQueues, IInv, CommitTypeOK, StageTypeOK,
       QueueTypeOK, Stages
  <2>3. Goto(t, EnrolledAs(s)) /\ EnrolledAs(s) \notin FlushLeads
    BY <2>1 DEF ChangeStage, EnrollFor, EnrolledAs, Goto, FlushLeads
  <2>4. Moved
    BY <1>0, <2>1, <2>3
  <2>5. Woken
    BY <1>2, <2>1 DEF ChangeStage
  <2> QED BY <2>2, <2>4, <2>5, QuietLead DEF Still, Moved, Woken
<1>15. CASE EnterSync(t) \/ EnterCommit(t) \/ EnterAfterCommit(t)
  <2>1. PICK s \in {"SYNC", "COMMIT", "AFTER_COMMIT"}, m \in Mutexes,
             l \in {"sync", "commit_hook", "after_commit"} : EnterStage(t, s, m, l)
    BY <1>15 DEF EnterSync, EnterCommit, EnterAfterCommit, Mutexes
  <2>2. Still
    BY <2>1 DEF EnterStage, FetchQueues, Still, FlushQueues, Stages
  <2>3. Moved
    BY <1>0, <2>1 DEF EnterStage, FlushLeads
  <2>4. Woken
    BY <1>2, <2>1 DEF EnterStage
  <2> QED BY <2>2, <2>3, <2>4, QuietLead DEF Still, Moved, Woken
<1>16. CASE FinishOrderList(t)
  <2>1. Still
    BY <1>1, <1>16 DEF FinishOrderList
  <2>2. Moved
    BY <1>0, <1>16 DEF FinishOrderList, FlushLeads
  <2>3. \A i \in DOMAIN order_list : order_list[i] \in OrderThds
    BY DEF IInv, CommitTypeOK, LeaderTypeOK
  <2>4. Woken
    BY <1>16, <2>3, ThdsFacts DEF FinishOrderList, SignalDone, Woken, IInv, CommitTypeOK,
       StageTypeOK, SyncTypeOK
  <2> QED BY <2>1, <2>2, <2>4, QuietLead DEF Still, Moved, Woken
<1>17. CASE Signal(t)
  <2>1. Still
    BY <1>1, <1>17 DEF Signal
  <2>2. Moved
    BY <1>0, <1>17 DEF Signal, FlushLeads
  <2>3. Woken
    BY <1>17 DEF Signal, Woken, NobodyOvertakes, Led, WaitsForWorker
  <2> QED BY <2>1, <2>2, <2>3, QuietLead DEF Still, Moved, Woken
<1> QED BY <1>5, <1>6, <1>7, <1>8, <1>9, <1>10, <1>11, <1>12, <1>13, <1>14, <1>15, <1>16, <1>17
        DEF BinlogStep

(* A session begins its commit, is made leader, or fetches the queues. *)
LEMMA FlushLed ==
  ASSUME IInv, Led, NEW t \in BinlogThds,
         OrderedCommit(t) \/ BinlogLeader(t) \/ EnterFlush(t)
  PROVE  Led'
<1> USE ThdsFacts DEF Led, OneFlushLeader, WaitsForWorker
<1>0. /\ pc \in [Thds -> BinlogPcs \cup OrderPcs] /\ pending \in [Thds -> BOOLEAN]
      /\ queue["COMMIT_ORDER_FLUSH"] \in Seq(OrderThds) /\ DOMAIN queue = Stages
      /\ queue["BINLOG_FLUSH"] \in Seq(BinlogThds)
  BY DEF IInv, CommitTypeOK, StageTypeOK, PcTypeOK, QueueTypeOK, SyncTypeOK, Stages
<1>1. \A u \in BinlogThds :
        pc[u] \in {"BINLOG_FLUSH", "wait_leader"} <=>
          queue["BINLOG_FLUSH"] # << >> /\ Head(queue["BINLOG_FLUSH"]) = u
  BY DEF IInv, Structure, StageLeader
<1>2. queue["COMMIT_ORDER_FLUSH"] # << >> => Head(queue["COMMIT_ORDER_FLUSH"]) \in OrderThds
  BY HeadOfWorkers
<1>3. CASE OrderedCommit(t)
  <2>1. /\ queue'["COMMIT_ORDER_FLUSH"] = queue["COMMIT_ORDER_FLUSH"]
        /\ queue'["BINLOG_FLUSH"] = queue["BINLOG_FLUSH"] \o <<t>>
    BY <1>0, <1>3 DEF OrderedCommit, EnrollFor, Stages
  <2>2. queue'["BINLOG_FLUSH"] # << >>
    BY <1>0, <2>1, ConcatFacts, ShortSeqs
  <2>3. /\ pc'[t] = EnrolledAs("BINLOG_FLUSH") /\ pc[t] = "prepared"
        /\ \A u \in Thds \ {t} : pc'[u] = pc[u] /\ pending'[u] = pending[u]
        /\ pending'[t] = TRUE
    BY <1>0, <1>3 DEF OrderedCommit, EnrollFor, InitThdVariables
  <2>4. \/ pc'[t] = "follow" /\ queue["BINLOG_FLUSH"] # << >>
        \/ /\ queue["BINLOG_FLUSH"] = << >>
           /\ pc'[t] = IF queue["COMMIT_ORDER_FLUSH"] # << >> THEN "wait_leader" ELSE "BINLOG_FLUSH"
    BY <2>3 DEF EnrolledAs
  <2>5. \A u \in OrderThds : u # t /\ pc'[u] = pc[u]
    BY <2>3
  <2>6. CASE pc'[t] = "follow"
    BY <2>1, <2>2, <2>3, <2>4, <2>5, <2>6
  <2>7. CASE pc'[t] = "wait_leader" /\ queue["COMMIT_ORDER_FLUSH"] # << >>
    <3>1. \A u \in BinlogThds : pc[u] \notin {"BINLOG_FLUSH", "wait_leader"}
      BY <1>1, <2>4, <2>7
    <3>2. pc'[Head(queue["COMMIT_ORDER_FLUSH"])] = "COMMIT_ORDER_FLUSH"
      BY <1>2, <2>4, <2>5, <2>7
    <3> QED BY <1>2, <2>1, <2>2, <2>3, <2>5, <2>7, <3>1, <3>2
  <2>8. CASE pc'[t] = "BINLOG_FLUSH" /\ queue["COMMIT_ORDER_FLUSH"] = << >>
    <3>1. \A u \in BinlogThds : pc[u] \notin {"BINLOG_FLUSH", "wait_leader"}
      BY <1>1, <2>4, <2>8
    <3> QED BY <2>1, <2>2, <2>3, <2>5, <2>8, <3>1
  <2> QED BY <2>4, <2>6, <2>7, <2>8
<1>4. CASE BinlogLeader(t)
  <2>1. /\ pc[t] = "wait_leader" /\ ~pending[t] /\ UNCHANGED <<queue, pending>>
        /\ pc'[t] = "BINLOG_FLUSH" /\ \A u \in Thds \ {t} : pc'[u] = pc[u]
    BY <1>0, <1>4 DEF BinlogLeader, BinlogLeaderWakes
  <2> QED BY <1>1, <1>2, <2>1
<1>5. CASE EnterFlush(t)
  <2>1. /\ pc[t] = "BINLOG_FLUSH" /\ UNCHANGED pending
        /\ queue'["COMMIT_ORDER_FLUSH"] = << >> /\ queue'["BINLOG_FLUSH"] = << >>
        /\ pc'[t] \in {"flush_engine", "to_commit_closed"} /\ \A u \in Thds \ {t} : pc'[u] = pc[u]
    BY <1>0, <1>5 DEF EnterFlush, FetchQueues, Stages, Goto
  <2> QED BY <1>1, <1>2, <2>1
<1> QED BY <1>3, <1>4, <1>5

(* The steps of a worker. *)
LEMMA OrderLed ==
  ASSUME IInv, IInv', Led, NEW w \in OrderThds, OrderCommit(w) \/ OrderStep(w)
  PROVE  Led'
<1>0. /\ pc \in [Thds -> BinlogPcs \cup OrderPcs] /\ pending \in [Thds -> BOOLEAN]
      /\ queue["COMMIT_ORDER_FLUSH"] \in Seq(OrderThds) /\ DOMAIN queue = Stages
      /\ queue["BINLOG_FLUSH"] \in Seq(BinlogThds)
  BY DEF IInv, CommitTypeOK, StageTypeOK, PcTypeOK, QueueTypeOK, SyncTypeOK, Stages
<1>1. \A u \in BinlogThds :
        pc[u] \in {"BINLOG_FLUSH", "wait_leader"} <=>
          queue["BINLOG_FLUSH"] # << >> /\ Head(queue["BINLOG_FLUSH"]) = u
  BY DEF IInv, Structure, StageLeader
<1>2. /\ queue["COMMIT_ORDER_FLUSH"] # << >> => Head(queue["COMMIT_ORDER_FLUSH"]) \in OrderThds
      /\ queue["BINLOG_FLUSH"] # << >> => Head(queue["BINLOG_FLUSH"]) \in BinlogThds
  BY <1>0, HeadOfWorkers, HeadTailProperties
<1> DEFINE Moved == \A u \in Thds, l \in FlushLeads : pc'[u] = l <=> pc[u] = l
           Woken == \A u \in BinlogThds : pc[u] = "wait_leader" => pending'[u] = pending[u]
<1>3. ASSUME NEW l, Goto(w, l), pc[w] \notin FlushLeads, l \notin FlushLeads PROVE Moved
  BY <1>0, <1>3, ThdsFacts DEF Goto
<1>4. ASSUME UNCHANGED queue, Moved, Woken PROVE Led'
  BY <1>4, QuietLead
<1> HIDE DEF Moved, Woken
<1>5. CASE OrderCommit(w)
  <2>1. Moved
    BY <1>3, <1>5 DEF OrderCommit, FlushLeads
  <2>2. Woken
    BY <1>0, <1>5, ThdsFacts DEF OrderCommit, Woken
  <2> QED BY <1>4, <1>5, <2>1, <2>2 DEF OrderCommit
<1>6. CASE FollowerWakes(w) \/ OrderLockCommit(w) \/ OrderFlush(w) \/ OrderGtids(w)
  <2>1. Moved
    BY <1>3, <1>6 DEF FollowerWakes, OrderLockCommit, OrderFlush, OrderGtids, FlushLeads
  <2>2. UNCHANGED <<queue, pending>>
    BY <1>6 DEF FollowerWakes, OrderLockCommit, OrderFlush, OrderGtids
  <2> QED BY <1>4, <2>1, <2>2 DEF Woken
<1>7. CASE OrderSignal(w)
  <2>1. Moved
    BY <1>3, <1>7 DEF OrderSignal, FlushLeads
  <2>2. \A i \in DOMAIN list[w] : list[w][i] \in OrderThds
    BY DEF IInv, CommitTypeOK, LeaderTypeOK
  <2>3. Woken
    BY <1>0, <1>7, <2>2, ThdsFacts DEF OrderSignal, SignalDone, Woken
  <2> QED BY <1>4, <1>7, <2>1, <2>3 DEF OrderSignal
<1> USE ThdsFacts DEF Led, OneFlushLeader, WaitsForWorker
<1>8. CASE OrderEnroll(w)
  <2>1. /\ queue'["BINLOG_FLUSH"] = queue["BINLOG_FLUSH"]
        /\ queue'["COMMIT_ORDER_FLUSH"] = queue["COMMIT_ORDER_FLUSH"] \o <<w>>
    BY <1>0, <1>8 DEF OrderEnroll, EnrollFor, Stages
  <2>2. /\ queue'["COMMIT_ORDER_FLUSH"] # << >>
        /\ Head(queue'["COMMIT_ORDER_FLUSH"]) =
             IF queue["COMMIT_ORDER_FLUSH"] = << >> THEN w ELSE Head(queue["COMMIT_ORDER_FLUSH"])
    BY <1>0, <2>1, ConcatFacts, ShortSeqs
  <2>3. /\ pc'[w] = EnrolledAs("COMMIT_ORDER_FLUSH") /\ pc[w] = "order_committed"
        /\ UNCHANGED pending /\ \A u \in Thds \ {w} : pc'[u] = pc[u]
    BY <1>0, <1>8 DEF OrderEnroll, EnrollFor
  <2>4. pc'[w] = IF queue["COMMIT_ORDER_FLUSH"] # << >> \/ queue["BINLOG_FLUSH"] # << >>
                 THEN "follow" ELSE "COMMIT_ORDER_FLUSH"
    BY <2>3 DEF EnrolledAs
  <2> QED BY <1>1, <1>2, <2>1, <2>2, <2>3, <2>4
<1>9. CASE OrderHandOver(w)
  <2>1. /\ pc[w] = "COMMIT_ORDER_FLUSH" /\ UNCHANGED queue /\ queue["BINLOG_FLUSH"] # << >>
        /\ pending' = [pending EXCEPT ![Head(queue["BINLOG_FLUSH"])] = FALSE]
        /\ pc'[w] = "follow" /\ \A u \in Thds \ {w} : pc'[u] = pc[u]
    BY <1>0, <1>9 DEF OrderHandOver, HandOverLead
  <2>2. ~pending'[Head(queue["BINLOG_FLUSH"])]
    BY <1>0, <1>2, <2>1
  <2> QED BY <1>1, <1>2, <2>1, <2>2
<1>10. CASE OrderFetch(w)
  <2>1. /\ pc[w] = "COMMIT_ORDER_FLUSH" /\ UNCHANGED pending /\ queue["BINLOG_FLUSH"] = << >>
        /\ queue'["BINLOG_FLUSH"] = << >> /\ queue'["COMMIT_ORDER_FLUSH"] = << >>
        /\ pc'[w] = "order_lock" /\ \A u \in Thds \ {w} : pc'[u] = pc[u]
    BY <1>0, <1>10 DEF OrderFetch, EnterStage, FetchQueues, Stages, Goto
  <2> QED BY <1>1, <1>2, <2>1
<1> QED BY <1>5, <1>6, <1>7, <1>8, <1>9, <1>10 DEF OrderStep

(* enroll_for, "The process to change leader", for any number of workers   *)
(* and any relay log with one binlog session, or any number of sessions    *)
(* without workers, and whatever fails: the two flush queues have one      *)
(* leader between them, commit order sessions are never left without one,  *)
(* and a binlog session sleeps before the flush stage exactly as long as   *)
(* there is a commit order leader to wake it.                              *)
THEOREM OneFlushLeaderHolds ==
  ASSUME NobodyOvertakes PROVE Spec => []OneFlushLeader
<1>1. Init => Led
  BY ThdsFacts DEF Init, Led, OneFlushLeader, WaitsForWorker, Stages
<1>2. IInv /\ IInv' /\ Led /\ [Next]_vars => Led'
  <2> SUFFICES ASSUME IInv, IInv', Led, [Next]_vars PROVE Led'
    OBVIOUS
  <2>1. ASSUME NEW t \in BinlogThds, Prepare(t) \/ FlushLogs(t) \/ BinlogStep(t) PROVE Led'
    BY <2>1, BinlogLed, FlushLed
  <2>2. ASSUME NEW w \in OrderThds, OrderCommit(w) \/ OrderStep(w) PROVE Led'
    BY <2>2, OrderLed
  <2>3. CASE SetOrderCommits \/ Stop \/ UNCHANGED vars
    BY <2>3 DEF SetOrderCommits, Stop, vars, stageVars, Led, OneFlushLeader, WaitsForWorker
  <2> QED BY <2>1, <2>2, <2>3 DEF Next
<1>3. Led => OneFlushLeader
  BY DEF Led
<1> QED BY <1>1, <1>2, <1>3, Invariance, PTL DEF Spec
=============================================================================
