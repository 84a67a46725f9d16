------------------------ MODULE GtidCommitGroupProofs ------------------------
(***************************************************************************)
(* update_commit_group is correct for any number of leaders, sessions and  *)
(* SIDNOs as long as all leaders call it under one and the same mutex.     *)
(***************************************************************************)
EXTENDS GtidCommitGroup, TLAPS

(* rpl_gtid.h: the array is protected by "MYSQL_BIN_LOG::LOCK_commit when  *)
(* setting true/false on array items".                                     *)
OneCallerLock == \E m \in CallerLocks : \A c \in Leaders : CallerLock[c] = m

(* The caller's mutex is owned exactly while the function runs. *)
CallersExclude ==
  \A c \in Leaders : holder[CallerLock[c]] = c <=> pc[c] # "idle"

(* The items of the array a leader has set and not yet reset. *)
MarkedBy(c) ==
  CASE pc[c] = "idle"             -> {}
    [] pc[c] = "mark"             -> owned[c] \ unmarked[c]
    [] pc[c] \in {"lock", "update"} -> owned[c]
    [] pc[c] = "unlock"           -> {s \in commit_group_sidnos : s >= i[c]}

(* The SIDNOs a leader has locked and not yet unlocked. *)
LockedBy(c) ==
  CASE pc[c] \in {"idle", "mark"} -> {}
    [] pc[c] = "lock"             -> {s \in owned[c] : s < i[c]}
    [] pc[c] = "update"           -> owned[c]
    [] pc[c] = "unlock"           -> commit_group_sidnos

(* The array is what the leader that is inside made of it ... *)
ArrayIsLeaders ==
  /\ \A c \in Leaders : pc[c] # "idle" => commit_group_sidnos = MarkedBy(c)
  /\ (\A c \in Leaders : pc[c] = "idle") => commit_group_sidnos = {}

(* ... and it has locked exactly what the loops say. *)
LocksAreLeaders ==
  \A c \in Leaders, s \in Sidnos : sid_lock[s] = c <=> s \in LockedBy(c)

SubsetMarked ==
  \A c \in Leaders : pc[c] = "mark" => unmarked[c] \subseteq owned[c]

IInv == TypeOK /\ CallersExclude /\ ArrayIsLeaders /\ LocksAreLeaders /\ SubsetMarked

(* Leaders and sessions are different threads. *)
LEMMA ThdsFacts ==
  /\ Leaders \subseteq Thds /\ Sessions \subseteq Thds
  /\ Leaders \cap Sessions = {} /\ NULL \notin Thds
  /\ CallerLock \in [Leaders -> CallerLocks]
BY GtidAssumption DEF Thds

(* With one mutex for all of them at most one leader is inside. *)
LEMMA OneInside ==
  ASSUME OneCallerLock, IInv,
         NEW c \in Leaders, NEW d \in Leaders, pc[c] # "idle", pc[d] # "idle"
  PROVE  c = d
BY DEF OneCallerLock, IInv, CallersExclude

(* The invariant holds at first. *)
LEMMA InitInv == ASSUME Init PROVE IInv
<1> USE ThdsFacts, GtidAssumption DEF Init
<1>1. TypeOK
  BY DEF TypeOK, LeaderPcs, Thds
<1>2. CallersExclude /\ ArrayIsLeaders /\ SubsetMarked
  BY DEF CallersExclude, ArrayIsLeaders, SubsetMarked
<1>3. LocksAreLeaders
  BY DEF LocksAreLeaders, LockedBy
<1> QED BY <1>1, <1>2, <1>3 DEF IInv

(* While a leader is inside all others are outside. *)
LEMMA OthersIdle ==
  ASSUME OneCallerLock, IInv, NEW c \in Leaders, pc[c] # "idle"
  PROVE  \A d \in Leaders \ {c} : pc[d] = "idle"
BY OneInside

(* Begin preserves the invariant. *)
LEMMA BeginInv ==
  ASSUME OneCallerLock, IInv, NEW c \in Leaders, Begin(c) PROVE IInv'
<1> USE ThdsFacts, GtidAssumption DEF Begin, Goto
<1>1. \A d \in Leaders : pc[d] = "idle"
  BY DEF OneCallerLock, IInv, TypeOK, CallersExclude
<1>2. TypeOK'
  <2>1. PICK g \in SUBSET Sidnos :
          owned' = [owned EXCEPT ![c] = g] /\ unmarked' = [unmarked EXCEPT ![c] = g]
    OBVIOUS
  <2>2. owned' \in [Leaders -> SUBSET Sidnos] /\ unmarked' \in [Leaders -> SUBSET Sidnos]
    BY <2>1 DEF IInv, TypeOK
  <2> QED BY <2>2 DEF IInv, TypeOK, LeaderPcs
<1>3. CallersExclude'
  BY <1>1 DEF IInv, TypeOK, CallersExclude
<1>4. ArrayIsLeaders'
  BY <1>1 DEF IInv, TypeOK, ArrayIsLeaders, MarkedBy, SubsetMarked, Sidnos
<1>5. LocksAreLeaders'
  BY <1>1 DEF IInv, TypeOK, LocksAreLeaders, LockedBy, ArrayIsLeaders, MarkedBy, Sidnos
<1>6. SubsetMarked'
  BY DEF IInv, TypeOK, SubsetMarked
<1> QED BY <1>2, <1>3, <1>4, <1>5, <1>6 DEF IInv

(* Mark preserves the invariant. *)
LEMMA MarkInv ==
  ASSUME OneCallerLock, IInv, NEW c \in Leaders, Mark(c) PROVE IInv'
<1> USE ThdsFacts, GtidAssumption DEF Mark
<1>1. \A d \in Leaders \ {c} : pc[d] = "idle"
  BY OthersIdle
<1>2. TypeOK'
  BY DEF IInv, TypeOK, LeaderPcs, Sidnos
<1>3. CallersExclude'
  BY <1>1 DEF IInv, TypeOK, CallersExclude
<1>4. ArrayIsLeaders'
  BY <1>1 DEF IInv, TypeOK, ArrayIsLeaders, MarkedBy, SubsetMarked, Sidnos
<1>5. LocksAreLeaders'
  BY <1>1 DEF IInv, TypeOK, LocksAreLeaders, LockedBy, ArrayIsLeaders, MarkedBy, Sidnos
<1>6. SubsetMarked'
  BY DEF IInv, TypeOK, SubsetMarked
<1> QED BY <1>2, <1>3, <1>4, <1>5, <1>6 DEF IInv

(* AllMarked preserves the invariant. *)
LEMMA AllMarkedInv ==
  ASSUME OneCallerLock, IInv, NEW c \in Leaders, AllMarked(c) PROVE IInv'
<1> USE ThdsFacts, GtidAssumption DEF AllMarked, Goto
<1>1. \A d \in Leaders \ {c} : pc[d] = "idle"
  BY OthersIdle
<1>2. TypeOK'
  BY DEF IInv, TypeOK, LeaderPcs, Sidnos
<1>3. CallersExclude'
  BY <1>1 DEF IInv, TypeOK, CallersExclude
<1>4. ArrayIsLeaders'
  BY <1>1, ZenonT(40) DEF IInv, TypeOK, ArrayIsLeaders, MarkedBy, SubsetMarked, Sidnos
<1>5. LocksAreLeaders'
  BY <1>1 DEF IInv, TypeOK, LocksAreLeaders, LockedBy, ArrayIsLeaders, MarkedBy, Sidnos
<1>6. SubsetMarked'
  BY DEF IInv, TypeOK, SubsetMarked
<1> QED BY <1>2, <1>3, <1>4, <1>5, <1>6 DEF IInv

(* LockNext preserves the invariant. *)
LEMMA LockNextInv ==
  ASSUME OneCallerLock, IInv, NEW c \in Leaders, LockNext(c) PROVE IInv'
<1> USE ThdsFacts, GtidAssumption DEF LockNext
<1>1. \A d \in Leaders \ {c} : pc[d] = "idle"
  BY OthersIdle
<1>2. TypeOK'
  <2>1. i' \in [Leaders -> 1 .. (MaxSidno + 1)]
    BY DEF IInv, TypeOK, Sidnos
  <2>2. sid_lock' \in [Sidnos -> Thds \cup {NULL}] /\ commit_group_sidnos' \subseteq Sidnos
    BY DEF IInv, TypeOK
  <2> QED BY <2>1, <2>2 DEF IInv, TypeOK
<1>3. CallersExclude'
  BY <1>1 DEF IInv, TypeOK, CallersExclude
<1>4. ArrayIsLeaders'
  BY <1>1 DEF IInv, TypeOK, ArrayIsLeaders, MarkedBy, SubsetMarked, Sidnos
<1>5. LocksAreLeaders'
  BY <1>1 DEF IInv, TypeOK, LocksAreLeaders, LockedBy, ArrayIsLeaders, MarkedBy, Sidnos
<1>6. SubsetMarked'
  BY DEF IInv, TypeOK, SubsetMarked
<1> QED BY <1>2, <1>3, <1>4, <1>5, <1>6 DEF IInv

(* AllLocked preserves the invariant. *)
LEMMA AllLockedInv ==
  ASSUME OneCallerLock, IInv, NEW c \in Leaders, AllLocked(c) PROVE IInv'
<1> USE ThdsFacts, GtidAssumption DEF AllLocked, Goto
<1>1. \A d \in Leaders \ {c} : pc[d] = "idle"
  BY OthersIdle
<1>2. TypeOK'
  BY DEF IInv, TypeOK, LeaderPcs, Sidnos
<1>3. CallersExclude'
  BY <1>1 DEF IInv, TypeOK, CallersExclude
<1>4. ArrayIsLeaders'
  BY <1>1 DEF IInv, TypeOK, ArrayIsLeaders, MarkedBy, SubsetMarked, Sidnos
<1>5. LocksAreLeaders'
  BY <1>1 DEF IInv, TypeOK, LocksAreLeaders, LockedBy, ArrayIsLeaders, MarkedBy, Sidnos
<1>6. SubsetMarked'
  BY DEF IInv, TypeOK, SubsetMarked
<1> QED BY <1>2, <1>3, <1>4, <1>5, <1>6 DEF IInv

(* Update preserves the invariant. *)
LEMMA UpdateInv ==
  ASSUME OneCallerLock, IInv, NEW c \in Leaders, Update(c) PROVE IInv'
<1> USE ThdsFacts, GtidAssumption DEF Update, Goto
<1>1. \A d \in Leaders \ {c} : pc[d] = "idle"
  BY OthersIdle
<1>2. TypeOK'
  BY DEF IInv, TypeOK, LeaderPcs, Sidnos
<1>3. CallersExclude'
  BY <1>1 DEF IInv, TypeOK, CallersExclude
<1>4. ArrayIsLeaders'
  BY <1>1 DEF IInv, TypeOK, ArrayIsLeaders, MarkedBy, SubsetMarked, Sidnos
<1>5. LocksAreLeaders'
  BY <1>1 DEF IInv, TypeOK, LocksAreLeaders, LockedBy, ArrayIsLeaders, MarkedBy, Sidnos
<1>6. SubsetMarked'
  BY DEF IInv, TypeOK, SubsetMarked
<1> QED BY <1>2, <1>3, <1>4, <1>5, <1>6 DEF IInv

(* UnlockNext preserves the invariant. *)
LEMMA UnlockNextInv ==
  ASSUME OneCallerLock, IInv, NEW c \in Leaders, UnlockNext(c) PROVE IInv'
<1> USE ThdsFacts, GtidAssumption DEF UnlockNext
<1>1. \A d \in Leaders \ {c} : pc[d] = "idle"
  BY OthersIdle
<1>2. TypeOK'
  <2>1. i' \in [Leaders -> 1 .. (MaxSidno + 1)]
    BY DEF IInv, TypeOK, Sidnos
  <2>2. sid_lock' \in [Sidnos -> Thds \cup {NULL}] /\ commit_group_sidnos' \subseteq Sidnos
    BY DEF IInv, TypeOK
  <2> QED BY <2>1, <2>2 DEF IInv, TypeOK
<1>3. CallersExclude'
  BY <1>1 DEF IInv, TypeOK, CallersExclude
<1>4. ArrayIsLeaders'
  BY <1>1 DEF IInv, TypeOK, ArrayIsLeaders, MarkedBy, SubsetMarked, Sidnos
<1>5. LocksAreLeaders'
  BY <1>1 DEF IInv, TypeOK, LocksAreLeaders, LockedBy, ArrayIsLeaders, MarkedBy, Sidnos
<1>6. SubsetMarked'
  BY DEF IInv, TypeOK, SubsetMarked
<1> QED BY <1>2, <1>3, <1>4, <1>5, <1>6 DEF IInv

(* Return preserves the invariant. *)
LEMMA ReturnInv ==
  ASSUME OneCallerLock, IInv, NEW c \in Leaders, Return(c) PROVE IInv'
<1> USE ThdsFacts, GtidAssumption DEF Return, Goto
<1>1. \A d \in Leaders \ {c} : pc[d] = "idle"
  BY OthersIdle
<1>2. TypeOK'
  BY DEF IInv, TypeOK, LeaderPcs, Sidnos
<1>3. CallersExclude'
  BY <1>1 DEF IInv, TypeOK, CallersExclude
<1>4. ArrayIsLeaders'
  BY <1>1 DEF IInv, TypeOK, ArrayIsLeaders, MarkedBy, SubsetMarked, Sidnos
<1>5. LocksAreLeaders'
  BY <1>1 DEF IInv, TypeOK, LocksAreLeaders, LockedBy, ArrayIsLeaders, MarkedBy, Sidnos
<1>6. SubsetMarked'
  BY DEF IInv, TypeOK, SubsetMarked
<1> QED BY <1>2, <1>3, <1>4, <1>5, <1>6 DEF IInv

(* A session on its own touches no lock of a leader. *)
LEMMA OwnInv ==
  ASSUME IInv, NEW t \in Sessions, LockOwn(t) \/ UnlockOwn(t) PROVE IInv'
<1> USE ThdsFacts, GtidAssumption DEF LockOwn, UnlockOwn, Goto
<1>1. /\ \A c \in Leaders : pc'[c] = pc[c]
      /\ UNCHANGED <<holder, owned, unmarked, i, commit_group_sidnos>>
  BY DEF IInv, TypeOK
<1>2. \A s \in Sidnos, c \in Leaders : sid_lock'[s] = c <=> sid_lock[s] = c
  BY DEF IInv, TypeOK
<1>3. TypeOK'
  <2>1. sid_lock' \in [Sidnos -> Thds \cup {NULL}]
    BY DEF IInv, TypeOK
  <2>2. /\ pc' \in [Thds -> LeaderPcs \cup {"own"}]
        /\ \A u \in Sessions : pc'[u] \in {"idle", "own"}
    BY DEF IInv, TypeOK, LeaderPcs
  <2>3. updates' \in [Sessions -> Nat]
    BY DEF IInv, TypeOK
  <2> HIDE DEF LockOwn, UnlockOwn
  <2> QED BY <1>1, <2>1, <2>2, <2>3 DEF IInv, TypeOK
<1> HIDE DEF LockOwn, UnlockOwn
<1>4. CallersExclude' /\ SubsetMarked'
  BY <1>1 DEF IInv, CallersExclude, SubsetMarked
<1>5. ArrayIsLeaders'
  BY <1>1 DEF IInv, ArrayIsLeaders, MarkedBy
<1>6. LocksAreLeaders'
  <2>1. \A c \in Leaders : LockedBy(c)' = LockedBy(c)
    BY <1>1 DEF IInv, TypeOK, LeaderPcs, LockedBy
  <2> QED BY <1>2, <2>1 DEF IInv, LocksAreLeaders
<1> QED BY <1>3, <1>4, <1>5, <1>6 DEF IInv

(* Every step preserves the invariant. *)
LEMMA NextInv ==
  ASSUME OneCallerLock, IInv, [Next]_vars PROVE IInv'
<1>1. ASSUME NEW c \in Leaders, Begin(c) \/ LeaderStep(c) PROVE IInv'
  BY <1>1, BeginInv, MarkInv, AllMarkedInv, LockNextInv, AllLockedInv, UpdateInv,
     UnlockNextInv, ReturnInv DEF LeaderStep
<1>2. ASSUME NEW t \in Sessions, LockOwn(t) \/ UnlockOwn(t) PROVE IInv'
  BY <1>2, OwnInv
<1>3. CASE UNCHANGED vars
  <2>1. TypeOK' /\ CallersExclude' /\ SubsetMarked'
    BY <1>3 DEF vars, IInv, TypeOK, CallersExclude, SubsetMarked
  <2>2. \A c \in Leaders : MarkedBy(c)' = MarkedBy(c) /\ LockedBy(c)' = LockedBy(c)
    BY <1>3 DEF vars, IInv, TypeOK, LeaderPcs, MarkedBy, LockedBy
  <2>3. ArrayIsLeaders' /\ LocksAreLeaders'
    BY <1>3, <2>2 DEF vars, IInv, ArrayIsLeaders, LocksAreLeaders
  <2> QED BY <2>1, <2>3 DEF IInv
<1> QED BY <1>1, <1>2, <1>3 DEF Next

(* The invariant holds in every state. *)
LEMMA Invariance == ASSUME OneCallerLock PROVE Spec => []IInv
<1>1. Init => IInv
  BY InitInv
<1>2. IInv /\ [Next]_vars => IInv'
  BY NextInv
<1> QED BY <1>1, <1>2, PTL DEF Spec

(* If all callers of update_commit_group hold the same mutex, gtid_executed *)
(* is only updated under the lock of the SIDNO (assert_sidno_lock_owner in  *)
(* update_gtids_impl_own_gtid), for any number of groups, sessions, SIDNOs. *)
THEOREM SidnoLockOwned == ASSUME OneCallerLock PROVE Spec => []UpdatesUnderSidnoLock
<1>1. IInv => UpdatesUnderSidnoLock
  BY DEF IInv, TypeOK, LocksAreLeaders, LockedBy, UpdatesUnderSidnoLock
<1> QED BY <1>1, Invariance, PTL

(* Under the same condition update_gtids_impl_broadcast_and_unlock_sidnos   *)
(* undoes exactly what update_gtids_impl_lock_sidnos did: no lock and no    *)
(* item of the shared array outlives the call that set it.                  *)
THEOREM NothingLeftLocked == ASSUME OneCallerLock PROVE Spec => []SidnosReleased
<1>1. IInv => SidnosReleased
  BY DEF IInv, LocksAreLeaders, LockedBy, ArrayIsLeaders, SidnosReleased
<1> QED BY <1>1, Invariance, PTL
=============================================================================
