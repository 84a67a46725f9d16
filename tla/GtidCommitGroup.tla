--------------------------- MODULE GtidCommitGroup ---------------------------
(***************************************************************************)
(* Gtid_state::update_commit_group (sql/rpl_gtid_state.cc): the leader of  *)
(* a commit group adds the GTIDs of all its sessions to gtid_executed.  It *)
(* locks each SIDNO of the group once, in ascending order, and remembers   *)
(* which ones in Gtid_state::commit_group_sidnos, a single array that all  *)
(* leaders share.  GroupCommit has the effect of this function as one step *)
(* (UpdateCommitGroup); this module has its steps.                         *)
(*                                                                         *)
(* A leader is whoever calls the function: the commit stage leader         *)
(* (process_commit_stage_queue) and the commit order leader                *)
(* (flush_engine_and_signal_threads) hold LOCK_commit, the flush stage     *)
(* leader (process_final_stage_for_ordered_commit_group) holds LOCK_log.   *)
(* Other sessions lock one SIDNO at a time (update_gtids_impl,             *)
(* generate_automatic_gtid).                                               *)
(***************************************************************************)
EXTENDS Naturals

CONSTANTS
  Leaders,    \* sessions that lead a commit group
  CallerLock, \* the mutex each of them holds when it calls
  Sessions,   \* sessions that update or take a GTID on their own
  MaxSidno,   \* commit_group_sidnos.size() - 1
  MaxUpdates, \* bound: updates of each session on its own
  NULL

Thds == Leaders \cup Sessions

Sidnos == 1 .. MaxSidno

CallerLocks == {"LOCK_log", "LOCK_commit"}

ASSUME GtidAssumption ==
  /\ Leaders \cap Sessions = {} /\ NULL \notin Thds
  /\ MaxSidno \in Nat /\ MaxUpdates \in Nat
  /\ CallerLock \in [Leaders -> CallerLocks]

VARIABLES
  pc,                  \* where each session is
  holder,              \* owner of LOCK_log and LOCK_commit
  owned,               \* SIDNOs of the GTIDs the sessions of a group own
  unmarked,            \* those of them the first loop has not come to
  i,                   \* loop variable of a leader
  commit_group_sidnos, \* the array, as the set of its true items
  sid_lock,            \* owner of each SIDNO's lock
  updates              \* updates of each session so far

vars == <<pc, holder, owned, unmarked, i, commit_group_sidnos, sid_lock, updates>>

Init ==
  /\ pc = [t \in Thds |-> "idle"]
  /\ holder = [m \in CallerLocks |-> NULL]
  /\ owned = [c \in Leaders |-> {}] /\ unmarked = [c \in Leaders |-> {}]
  /\ i = [c \in Leaders |-> 1]
  /\ commit_group_sidnos = {}
  /\ sid_lock = [s \in Sidnos |-> NULL]
  /\ updates = [t \in Sessions |-> 0]

Goto(t, l) == pc' = [pc EXCEPT ![t] = l]

(* A leader with a group calls update_commit_group under its mutex. *)
Begin(c) ==
  /\ pc[c] = "idle"
  /\ holder[CallerLock[c]] = NULL
  /\ holder' = [holder EXCEPT ![CallerLock[c]] = c]
  /\ \E g \in SUBSET Sidnos :
       owned' = [owned EXCEPT ![c] = g] /\ unmarked' = [unmarked EXCEPT ![c] = g]
  /\ Goto(c, "mark")
  /\ UNCHANGED <<i, commit_group_sidnos, sid_lock, updates>>

(* update_gtids_impl_lock_sidnos: "Define which sidnos should be locked" *)
Mark(c) ==
  /\ pc[c] = "mark"
  /\ \E s \in unmarked[c] :
       /\ commit_group_sidnos' = commit_group_sidnos \cup {s}
       /\ unmarked' = [unmarked EXCEPT ![c] = @ \ {s}]
  /\ UNCHANGED <<pc, holder, owned, i, sid_lock, updates>>

(* mutant: the loop that locks starts at 2 *)
AllMarked_FromTwo(c) ==
  /\ pc[c] = "mark" /\ unmarked[c] = {}
  /\ i' = [i EXCEPT ![c] = 2]
  /\ Goto(c, "lock")
  /\ UNCHANGED <<holder, owned, unmarked, commit_group_sidnos, sid_lock, updates>>

AllMarked(c) ==
  /\ pc[c] = "mark" /\ unmarked[c] = {}
  /\ i' = [i EXCEPT ![c] = 1]
  /\ Goto(c, "lock")
  /\ UNCHANGED <<holder, owned, unmarked, commit_group_sidnos, sid_lock, updates>>

(* update_gtids_impl_lock_sidnos: "Take the sidno_locks in order" *)
(* mutant: the loop does not get past an item that is not set *)
LockNext_StuckAtUnset(c) ==
  /\ pc[c] = "lock" /\ i[c] \in Sidnos
  /\ IF i[c] \in commit_group_sidnos
     THEN /\ sid_lock[i[c]] = NULL /\ sid_lock' = [sid_lock EXCEPT ![i[c]] = c]
          /\ i' = [i EXCEPT ![c] = @ + 1]
     ELSE UNCHANGED <<sid_lock, i>>
  /\ UNCHANGED <<pc, holder, owned, unmarked, commit_group_sidnos, updates>>

LockNext(c) ==
  /\ pc[c] = "lock" /\ i[c] \in Sidnos
  /\ IF i[c] \in commit_group_sidnos
     THEN sid_lock[i[c]] = NULL /\ sid_lock' = [sid_lock EXCEPT ![i[c]] = c]
     ELSE UNCHANGED sid_lock
  /\ i' = [i EXCEPT ![c] = @ + 1]
  /\ UNCHANGED <<pc, holder, owned, unmarked, commit_group_sidnos, updates>>

AllLocked(c) ==
  /\ pc[c] = "lock" /\ i[c] \notin Sidnos
  /\ Goto(c, "update")
  /\ UNCHANGED <<holder, owned, unmarked, i, commit_group_sidnos, sid_lock, updates>>

(* update_gtids_impl_own_gtid for the sessions of the group *)
Update(c) ==
  /\ pc[c] = "update"
  /\ owned' = [owned EXCEPT ![c] = {}]
  /\ i' = [i EXCEPT ![c] = 1]
  /\ Goto(c, "unlock")
  /\ UNCHANGED <<holder, unmarked, commit_group_sidnos, sid_lock, updates>>

(* update_gtids_impl_broadcast_and_unlock_sidnos *)
(* mutant: the item of the array stays set *)
UnlockNext_KeepsItem(c) ==
  /\ pc[c] = "unlock" /\ i[c] \in Sidnos
  /\ IF i[c] \in commit_group_sidnos
     THEN sid_lock' = [sid_lock EXCEPT ![i[c]] = NULL]
     ELSE UNCHANGED sid_lock
  /\ i' = [i EXCEPT ![c] = @ + 1]
  /\ UNCHANGED <<pc, holder, owned, unmarked, commit_group_sidnos, updates>>

UnlockNext(c) ==
  /\ pc[c] = "unlock" /\ i[c] \in Sidnos
  /\ IF i[c] \in commit_group_sidnos
     THEN /\ sid_lock' = [sid_lock EXCEPT ![i[c]] = NULL]
          /\ commit_group_sidnos' = commit_group_sidnos \ {i[c]}
     ELSE UNCHANGED <<sid_lock, commit_group_sidnos>>
  /\ i' = [i EXCEPT ![c] = @ + 1]
  /\ UNCHANGED <<pc, holder, owned, unmarked, updates>>

Return(c) ==
  /\ pc[c] = "unlock" /\ i[c] \notin Sidnos
  /\ holder' = [holder EXCEPT ![CallerLock[c]] = NULL]
  /\ Goto(c, "idle")
  /\ UNCHANGED <<owned, unmarked, i, commit_group_sidnos, sid_lock, updates>>

(* update_gtids_impl, generate_automatic_gtid: one SIDNO, locked, unlocked *)
LockOwn(t) ==
  /\ pc[t] = "idle" /\ updates[t] < MaxUpdates
  /\ \E s \in Sidnos :
       sid_lock[s] = NULL /\ sid_lock' = [sid_lock EXCEPT ![s] = t]
  /\ updates' = [updates EXCEPT ![t] = @ + 1]
  /\ Goto(t, "own")
  /\ UNCHANGED <<holder, owned, unmarked, i, commit_group_sidnos>>

UnlockOwn(t) ==
  /\ pc[t] = "own"
  /\ sid_lock' = [s \in Sidnos |-> IF sid_lock[s] = t THEN NULL ELSE sid_lock[s]]
  /\ Goto(t, "idle")
  /\ UNCHANGED <<holder, owned, unmarked, i, commit_group_sidnos, updates>>

LeaderStep(c) ==
  \/ Mark(c) \/ AllMarked(c) \/ LockNext(c) \/ AllLocked(c)
  \/ Update(c) \/ UnlockNext(c) \/ Return(c)

Next ==
  \/ \E c \in Leaders : Begin(c) \/ LeaderStep(c)
  \/ \E t \in Sessions : LockOwn(t) \/ UnlockOwn(t)

Spec == Init /\ [][Next]_vars

(***************************************************************************)
(* Threads are preemptively scheduled, so a thread that can run does.  No  *)
(* fairness for the mutexes is needed: the others use each a bounded       *)
(* number of times.                                                        *)
(***************************************************************************)
FairSpec ==
  /\ Spec
  /\ \A c \in Leaders : WF_vars(LeaderStep(c))
  /\ \A t \in Sessions : WF_vars(UnlockOwn(t))

-----------------------------------------------------------------------------
LeaderPcs == {"idle", "mark", "lock", "update", "unlock"}

(* Every variable keeps the type of the member or local it stands for; in  *)
(* particular no loop runs past the end of the array.                      *)
TypeOK ==
  /\ pc \in [Thds -> LeaderPcs \cup {"own"}]
  /\ \A c \in Leaders : pc[c] \in LeaderPcs
  /\ \A t \in Sessions : pc[t] \in {"idle", "own"}
  /\ holder \in [CallerLocks -> Leaders \cup {NULL}]
  /\ owned \in [Leaders -> SUBSET Sidnos] /\ unmarked \in [Leaders -> SUBSET Sidnos]
  /\ i \in [Leaders -> 1 .. (MaxSidno + 1)]
  /\ commit_group_sidnos \subseteq Sidnos
  /\ sid_lock \in [Sidnos -> Thds \cup {NULL}]
  /\ updates \in [Sessions -> Nat]

(* update_gtids_impl_own_gtid asserts the lock of the SIDNO is owned: the  *)
(* leader changes gtid_executed for a SIDNO only under that SIDNO's lock,  *)
(* whatever other groups and sessions do at the same time.                 *)
UpdatesUnderSidnoLock ==
  \A c \in Leaders : pc[c] = "update" => \A s \in owned[c] : sid_lock[s] = c

(* update_gtids_impl_broadcast_and_unlock_sidnos: "lock, unlock, and       *)
(* broadcast operations are only called once per sidno per commit group".  *)
(* A leader that returned left no SIDNO locked and no item of the array    *)
(* set for the next group to find.                                         *)
SidnosReleased ==
  /\ \A s \in Sidnos : \A c \in Leaders : sid_lock[s] = c => pc[c] # "idle"
  /\ (\A c \in Leaders : pc[c] = "idle") => commit_group_sidnos = {}

(* The locks are taken in one order by everybody who takes several: every  *)
(* update of a group comes to its end.                                     *)
UpdatesEnd == \A c \in Leaders : pc[c] = "mark" ~> pc[c] = "idle"
=============================================================================
