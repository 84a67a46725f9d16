------------------------ MODULE GroupCommitLogProofs ------------------------
(***************************************************************************)
(* Theorems about the logs as a whole: the engine commits in the order of  *)
(* the binary log; a transaction is logged once; the stages together       *)
(* implement CommitLog; recovery after a crash leaves the engine with      *)
(* exactly the transactions of the log; gtid_executed has no gaps.         *)
(* Everything rests on the structure and the sessions of                   *)
(* GroupCommitProofs and GroupCommitSessionProofs.                         *)
(***************************************************************************)
EXTENDS GroupCommitSessionProofs, CommitRecovery, NaturalsInduction

-----------------------------------------------------------------------------
(***************************************************************************)
(* The order of the pipeline.                                              *)
(***************************************************************************)

(* The list of the leader at one of the places C of the code. *)
At(C, places, lists) ==
  IF \E t \in BinlogThds : places[t] \in C
  THEN lists[CHOOSE t \in BinlogThds : places[t] \in C]
  ELSE << >>

ListAt(C) == At(C, pc, list)

HookPcs == {"after_commit"}
CommitPcs == {"commit_hook", "commit", "to_after_commit"}
SyncPcs == {"sync", "to_commit"}
LoggedPcs == {"close_flush", "to_sync"}

PipePcs == HookPcs \cup CommitPcs \cup SyncPcs \cup LoggedPcs

(* The sessions behind the flush stage, from the end of the pipeline on. *)
Pipe ==
  ListAt(HookPcs) \o queue["AFTER_COMMIT"] \o ListAt(CommitPcs) \o queue["COMMIT"]
  \o ListAt(SyncPcs) \o queue["SYNC"] \o ListAt(LoggedPcs)

(* The log ends with the transactions of the pipeline, in that order.  The *)
(* first of them are committed and none has had its hook.                  *)
Piped ==
  /\ IsPrefixOf(hooked, committed) /\ IsPrefixOf(committed, binlog)
  /\ Len(binlog) = Len(hooked) + Len(Pipe)
  /\ \A i \in DOMAIN Pipe :
       /\ binlog[Len(hooked) + i] = Trx(Pipe[i])
       /\ run_hooks[Pipe[i]]
       /\ commit_low[Pipe[i]] <=> Len(hooked) + i > Len(committed)
  /\ Distinct(Pipe)

FreshIsUncommitted == \A u \in Fresh : commit_low[u] /\ run_hooks[u]

NothingLeft == \A t \in BinlogThds : pc[t] \notin {"finish_low", "to_commit_closed"}

Ordered == Piped /\ FreshIsUncommitted /\ NothingLeft

(* A non-empty set of numbers has a smallest element. *)
LEMMA HasSmallest ==
  ASSUME NEW N \in SUBSET Nat, N # {}
  PROVE  \E n \in N : \A k \in N : n <= k
<1>1. PICK n \in N : \A k \in N : ~(<<k, n>> \in OpToRel(<, Nat))
  BY NatLessThanWellFounded, WFMin
<1>2. \A k \in N : ~(k < n)
  BY <1>1 DEF OpToRel
<1> QED BY <1>2

(* A subsequence with all the members of a sequence is the sequence. *)
LEMMA WholeSubsequence ==
  ASSUME NEW S, NEW s \in Seq(S), Distinct(s), NEW sub \in Subsequences(s),
         Members(s) \subseteq Members(sub)
  PROVE  sub = s
<1>1. PICK n \in 0 .. Len(s) :
        \E f \in [1 .. n -> DOMAIN s] :
          /\ \A i, j \in 1 .. n : i < j => f[i] < f[j]
          /\ sub = [i \in 1 .. n |-> s[f[i]]]
  BY DEF Subsequences
<1>2. PICK f \in [1 .. n -> DOMAIN s] : /\ \A i, j \in 1 .. n : i < j => f[i] < f[j]
                                        /\ sub = [i \in 1 .. n |-> s[f[i]]]
  BY <1>1
<1>3. DOMAIN s = 1 .. Len(s) /\ Len(s) \in Nat /\ n \in Nat /\ n <= Len(s)
  BY LenProperties
<1>4. \A j \in 1 .. Len(s) : \E i \in 1 .. n : f[i] = j
  <2> SUFFICES ASSUME NEW j \in 1 .. Len(s) PROVE \E i \in 1 .. n : f[i] = j
    OBVIOUS
  <2>1. s[j] \in Members(s)
    BY <1>3 DEF Members
  <2>2. PICK i \in DOMAIN sub : sub[i] = s[j]
    BY <2>1 DEF Members
  <2>3. i \in 1 .. n /\ s[f[i]] = s[j] /\ f[i] \in DOMAIN s
    BY <1>2, <2>2
  <2> QED BY <1>3, <2>3 DEF Distinct
<1>5. \A i \in 1 .. n : f[i] \in 1 .. Len(s)
  BY <1>2, <1>3
<1> DEFINE bad == {i \in 1 .. n : f[i] # i}
<1>6. bad = {}
  <2> SUFFICES ASSUME bad # {} PROVE FALSE
    OBVIOUS
  <2>1. bad \in SUBSET Nat
    OBVIOUS
  <2>2. PICK k \in bad : \A i \in bad : k <= i
    <3> HIDE DEF bad
    <3> QED BY <2>1, HasSmallest
  <2>3. k \in 1 .. n /\ f[k] # k /\ k \in Int /\ f[k] \in Int
    BY <1>5, <2>2
  <2>4. \A i \in 1 .. n : i < k => f[i] = i
    BY <2>2, <2>3
  <2>5. f[k] > k
    <3>1. CASE k = 1
      BY <1>5, <2>3, <3>1
    <3>2. CASE k # 1
      <4>1. k - 1 \in 1 .. n /\ k - 1 < k
        BY <2>3, <3>2
      <4>2. f[k - 1] = k - 1 /\ f[k - 1] < f[k]
        BY <1>2, <2>3, <2>4, <4>1
      <4> QED BY <2>3, <4>2
    <3> QED BY <3>1, <3>2
  <2>6. k \in 1 .. Len(s)
    BY <1>3, <2>3
  <2>7. PICK i \in 1 .. n : f[i] = k
    BY <1>4, <2>6
  <2>8. CASE i < k
    BY <2>4, <2>7, <2>8
  <2>9. CASE i >= k
    <3>1. i # k
      BY <2>3, <2>7
    <3>2. k < i
      BY <2>3, <2>9, <3>1
    <3>3. f[k] < f[i]
      BY <1>2, <2>3, <3>2
    <3> QED BY <2>3, <2>5, <2>7, <3>3
  <2> QED BY <2>3, <2>8, <2>9
<1>7. \A i \in 1 .. n : f[i] = i
  BY <1>6
<1>8. n = Len(s)
  <2>1. CASE Len(s) = 0
    BY <1>3, <2>1
  <2>2. CASE Len(s) # 0
    <3>1. Len(s) \in 1 .. Len(s)
      BY <1>3, <2>2
    <3>2. PICK i \in 1 .. n : f[i] = Len(s)
      BY <1>4, <3>1
    <3>3. Len(s) <= n
      BY <1>7, <3>2
    <3>4. Len(s) \in Nat /\ n \in Nat /\ n <= Len(s)
      BY <1>3
    <3> QED BY <3>3, <3>4
  <2> QED BY <2>1, <2>2
<1>9. sub = [i \in 1 .. Len(s) |-> s[i]]
  BY <1>2, <1>7, <1>8
<1> QED BY <1>3, <1>9

(* Three sequences in a row. *)
LEMMA ThreeInARow ==
  ASSUME NEW S, NEW a \in Seq(S), NEW y \in Seq(S), NEW z \in Seq(S)
  PROVE  (a \o y) \o z = a \o (y \o z) /\ y \o z \in Seq(S) /\ a \o y \in Seq(S)
<1>1. (a \o y) \o z = a \o (y \o z)
  BY ConcatAssociative, SMT
<1>2. y \o z \in Seq(S) /\ a \o y \in Seq(S)
  BY ConcatProperties
<1> QED BY <1>1, <1>2

(* Seven sequences in a row, the first of them apart. *)
Apart(a, b, c, d, e, f, g) ==
  a \o b \o c \o d \o e \o f \o g = a \o (<< >> \o b \o c \o d \o e \o f \o g)

(* Seven sequences in a row, the first of them apart. *)
LEMMA FirstApart ==
  ASSUME NEW S, NEW a \in Seq(S), NEW b \in Seq(S), NEW c \in Seq(S), NEW d \in Seq(S),
         NEW e \in Seq(S), NEW f \in Seq(S), NEW g \in Seq(S)
  PROVE  /\ Apart(a, b, c, d, e, f, g)
         /\ a \o b \o c \o d \o e \o f \in Seq(S)
         /\ a \o b \o c \o d \o e \o f \o g \in Seq(S)
         /\ << >> \o b \o c \o d \o e \o f \o g \in Seq(S)
<1> DEFINE x1 == a \o b
           x2 == x1 \o c
           x3 == x2 \o d
           x4 == x3 \o e
           x5 == x4 \o f
           x6 == x5 \o g
           y1 == << >> \o b
           y2 == y1 \o c
           y3 == y2 \o d
           y4 == y3 \o e
           y5 == y4 \o f
           y6 == y5 \o g
<1> HIDE DEF x1, x2, x3, x4, x5, x6, y1, y2, y3, y4, y5, y6
<1>0. \A y, z \in Seq(S) :
        (a \o y) \o z = a \o (y \o z) /\ y \o z \in Seq(S) /\ a \o y \in Seq(S)
  BY ThreeInARow
<1>1. x1 = a \o y1 /\ y1 \in Seq(S) /\ x1 \in Seq(S)
  <2>1. y1 = b
    BY ConcatEmptySeq DEF y1
  <2> QED BY <2>1, ConcatProperties DEF x1
<1>2. x2 = a \o y2 /\ y2 \in Seq(S) /\ x2 \in Seq(S)
  BY <1>0, <1>1 DEF x2, y2
<1>3. x3 = a \o y3 /\ y3 \in Seq(S) /\ x3 \in Seq(S)
  BY <1>0, <1>2 DEF x3, y3
<1>4. x4 = a \o y4 /\ y4 \in Seq(S) /\ x4 \in Seq(S)
  BY <1>0, <1>3 DEF x4, y4
<1>5. x5 = a \o y5 /\ y5 \in Seq(S) /\ x5 \in Seq(S)
  BY <1>0, <1>4 DEF x5, y5
<1>6. x6 = a \o y6 /\ y6 \in Seq(S) /\ x6 \in Seq(S)
  BY <1>0, <1>5 DEF x6, y6
<1> QED BY <1>5, <1>6 DEF Apart, x1, x2, x3, x4, x5, x6, y1, y2, y3, y4, y5, y6

(* Nobody but t can be at one of the places C. *)
LEMMA AtAlone ==
  ASSUME NEW C, NEW c, NEW l, NEW t \in BinlogThds, \A u \in BinlogThds \ {t} : c[u] \notin C
  PROVE  At(C, c, l) = IF c[t] \in C THEN l[t] ELSE << >>
<1>1. CASE c[t] \in C
  <2>1. (CHOOSE u \in BinlogThds : c[u] \in C) = t
    BY <1>1
  <2> QED BY <1>1, <2>1 DEF At
<1>2. CASE c[t] \notin C
  BY <1>2 DEF At
<1> QED BY <1>1, <1>2

(* Whoever is there is still there, with the same list. *)
LEMMA AtSame ==
  ASSUME NEW C, NEW c, NEW l, NEW d, NEW k,
         \A u, v \in BinlogThds : c[u] \in C /\ c[v] \in C => u = v,
         \A u \in BinlogThds : (c[u] \in C <=> d[u] \in C) /\ (c[u] \in C => k[u] = l[u])
  PROVE  At(C, d, k) = At(C, c, l)
<1>1. ASSUME NEW t \in BinlogThds, c[t] \in C PROVE At(C, d, k) = At(C, c, l)
  <2>1. At(C, c, l) = l[t]
    BY <1>1, AtAlone
  <2>2. At(C, d, k) = k[t]
    BY <1>1, AtAlone
  <2> QED BY <1>1, <2>1, <2>2
<1>2. CASE \A t \in BinlogThds : c[t] \notin C
  BY <1>2 DEF At
<1> QED BY <1>1, <1>2

(* The list of the owner of a mutex, before and after a step of t. *)
LEMMA ListAtStep ==
  ASSUME IInv, IInv', NEW m \in Mutexes, NEW C, C \subseteq HolderPcs[m],
         NEW t \in BinlogThds,
         \A u \in BinlogThds \ {t} : pc'[u] = pc[u] /\ list'[u] = list[u]
  PROVE  /\ pc[t] \in HolderPcs[m] => ListAt(C) = IF pc[t] \in C THEN list[t] ELSE << >>
         /\ pc[t] \in HolderPcs[m] => ListAt(C)' = IF pc'[t] \in C THEN list'[t] ELSE << >>
         /\ pc'[t] \in HolderPcs[m] => ListAt(C) = IF pc[t] \in C THEN list[t] ELSE << >>
         /\ pc'[t] \in HolderPcs[m] => ListAt(C)' = IF pc'[t] \in C THEN list'[t] ELSE << >>
         /\ pc[t] \notin C /\ pc'[t] \notin C => ListAt(C)' = ListAt(C)
<1>1. \A u, v \in BinlogThds : pc[u] \in HolderPcs[m] /\ pc[v] \in HolderPcs[m] => u = v
  BY ThdsFacts DEF IInv, Structure, MutexOwners
<1>2. \A u, v \in BinlogThds : pc'[u] \in HolderPcs[m] /\ pc'[v] \in HolderPcs[m] => u = v
  BY ThdsFacts DEF IInv, Structure, MutexOwners
<1>3. ASSUME pc[t] \in HolderPcs[m] \/ pc'[t] \in HolderPcs[m]
      PROVE  \A u \in BinlogThds \ {t} : pc[u] \notin C /\ pc'[u] \notin C
  BY <1>1, <1>2, <1>3
<1>4. ASSUME pc[t] \in HolderPcs[m] \/ pc'[t] \in HolderPcs[m]
      PROVE  /\ ListAt(C) = IF pc[t] \in C THEN list[t] ELSE << >>
             /\ ListAt(C)' = IF pc'[t] \in C THEN list'[t] ELSE << >>
  BY <1>3, <1>4, AtAlone DEF ListAt
<1>5. ASSUME pc[t] \notin C, pc'[t] \notin C PROVE ListAt(C)' = ListAt(C)
  <2>1. \A u \in BinlogThds : (pc[u] \in C <=> pc'[u] \in C) /\ (pc[u] \in C => list'[u] = list[u])
    BY <1>5
  <2>2. \A u, v \in BinlogThds : pc[u] \in C /\ pc[v] \in C => u = v
    BY <1>1
  <2> QED BY <2>1, <2>2, AtSame DEF ListAt
<1> QED BY <1>4, <1>5

(* The places of the pipeline are under mutexes, and what is there are lists. *)
LEMMA PipeTypes ==
  ASSUME NoOrderWorkers, IInv
  PROVE  /\ HookPcs \subseteq HolderPcs["LOCK_after_commit"]
         /\ CommitPcs \subseteq HolderPcs["LOCK_commit"]
         /\ SyncPcs \subseteq HolderPcs["LOCK_sync"]
         /\ LoggedPcs \subseteq HolderPcs["LOCK_log"]
         /\ \A C : ListAt(C) \in Seq(BinlogThds)
         /\ \A s \in {"SYNC", "COMMIT", "AFTER_COMMIT"} : queue[s] \in Seq(BinlogThds)
         /\ Pipe \in Seq(BinlogThds)
<1>1. /\ HookPcs \subseteq HolderPcs["LOCK_after_commit"]
      /\ CommitPcs \subseteq HolderPcs["LOCK_commit"]
      /\ SyncPcs \subseteq HolderPcs["LOCK_sync"]
      /\ LoggedPcs \subseteq HolderPcs["LOCK_log"]
  BY DEF HookPcs, CommitPcs, SyncPcs, LoggedPcs, HolderPcs
<1>2. ASSUME NEW C PROVE ListAt(C) \in Seq(BinlogThds)
  <2>1. \A t \in BinlogThds : list[t] \in Seq(BinlogThds)
    BY DEF IInv, CommitTypeOK, LeaderTypeOK
  <2>2. << >> \in Seq(BinlogThds)
    OBVIOUS
  <2>3. ASSUME \E t \in BinlogThds : pc[t] \in C
        PROVE  (CHOOSE t \in BinlogThds : pc[t] \in C) \in BinlogThds
    BY <2>3
  <2> QED BY <2>1, <2>2, <2>3 DEF ListAt, At
<1>3. \A s \in {"SYNC", "COMMIT", "AFTER_COMMIT"} : queue[s] \in Seq(BinlogThds)
  BY DEF IInv, CommitTypeOK, StageTypeOK, QueueTypeOK, Stages
<1>4. Pipe \in Seq(BinlogThds)
  <2>1. /\ ListAt(HookPcs) \in Seq(BinlogThds) /\ queue["AFTER_COMMIT"] \in Seq(BinlogThds)
        /\ ListAt(CommitPcs) \in Seq(BinlogThds) /\ queue["COMMIT"] \in Seq(BinlogThds)
        /\ ListAt(SyncPcs) \in Seq(BinlogThds) /\ queue["SYNC"] \in Seq(BinlogThds)
        /\ ListAt(LoggedPcs) \in Seq(BinlogThds)
    BY <1>2, <1>3
  <2>2. \A a, b, c, d, e, f, g \in Seq(BinlogThds) : a \o b \o c \o d \o e \o f \o g \in Seq(BinlogThds)
    BY FirstApart
  <2> QED BY <2>1, <2>2 DEF Pipe
<1> QED BY <1>1, <1>2, <1>3, <1>4

(* The members of a concatenation. *)
LEMMA MembersConcat ==
  ASSUME NEW S, NEW a \in Seq(S), NEW b \in Seq(S)
  PROVE  Members(a \o b) = Members(a) \cup Members(b)
<1>1. ASSUME NEW u \in Members(a \o b) PROVE u \in Members(a) \cup Members(b)
  <2>1. PICK i \in DOMAIN (a \o b) : (a \o b)[i] = u
    BY DEF Members
  <2>2. CASE i \in 1 .. Len(a)
    BY <2>1, <2>2, ConcatIndex DEF Members
  <2>3. CASE i \in (Len(a) + 1) .. (Len(a) + Len(b))
    BY <2>1, <2>3, ConcatIndex DEF Members
  <2>4. i \in 1 .. (Len(a) + Len(b)) /\ Len(a) \in Nat /\ Len(b) \in Nat
    BY <2>1, ConcatIndex
  <2> QED BY <2>2, <2>3, <2>4
<1>2. ASSUME NEW i \in DOMAIN a PROVE a[i] \in Members(a \o b)
  <2>1. i \in 1 .. Len(a) /\ Len(a) \in Nat /\ Len(b) \in Nat
    BY ConcatIndex
  <2>2. i \in DOMAIN (a \o b) /\ (a \o b)[i] = a[i]
    BY <2>1, ConcatIndex
  <2> QED BY <2>2 DEF Members
<1>3. ASSUME NEW i \in DOMAIN b PROVE b[i] \in Members(a \o b)
  <2>1. i \in 1 .. Len(b) /\ Len(a) \in Nat /\ Len(b) \in Nat
    BY ConcatIndex
  <2>2. /\ Len(a) + i \in (Len(a) + 1) .. (Len(a) + Len(b)) /\ Len(a) + i - Len(a) = i
        /\ Len(a) + i \in 1 .. (Len(a) + Len(b))
    BY <2>1
  <2>3. Len(a) + i \in DOMAIN (a \o b) /\ (a \o b)[Len(a) + i] = b[i]
    BY <2>2, ConcatIndex
  <2> QED BY <2>3 DEF Members
<1>4. Members(a) \subseteq Members(a \o b) /\ Members(b) \subseteq Members(a \o b)
  BY <1>2, <1>3 DEF Members
<1> QED BY <1>1, <1>4

(* Whoever is in the pipeline is linked behind the flush stage. *)
LEMMA PipeRegion ==
  ASSUME NoOrderWorkers, IInv
  PROVE  Members(Pipe) \subseteq Region({"SYNC", "COMMIT", "AFTER_COMMIT"}, PipePcs)
<1> DEFINE R == Region({"SYNC", "COMMIT", "AFTER_COMMIT"}, PipePcs)
<1>1. ASSUME NEW s \in {"SYNC", "COMMIT", "AFTER_COMMIT"} PROVE Members(queue[s]) \subseteq R
  <2>1. <<"queue", s>> \in Places /\ Held[<<"queue", s>>] = queue[s]
    BY HeldBefore, PlaceCases DEF Stages
  <2>2. InRegion({"SYNC", "COMMIT", "AFTER_COMMIT"}, PipePcs, <<"queue", s>>)
    BY PlaceCases DEF InRegion, Stages
  <2> QED BY <2>1, <2>2, RegionElement DEF Members
<1>2. ASSUME NEW C \in SUBSET PipePcs PROVE Members(ListAt(C)) \subseteq R
  <2>1. CASE \E t \in BinlogThds : pc[t] \in C
    <3>1. PICK t \in BinlogThds : pc[t] \in C /\ ListAt(C) = list[t]
      BY <2>1 DEF ListAt, At
    <3>2. pc[t] \in LeaderPcs \cap PipePcs
      BY <3>1 DEF PipePcs, HookPcs, CommitPcs, SyncPcs, LoggedPcs, LeaderPcs
    <3> QED BY <3>1, <3>2, ListRegion
  <2>2. CASE ~ \E t \in BinlogThds : pc[t] \in C
    BY <2>2 DEF ListAt, At, Members
  <2> QED BY <2>1, <2>2
<1>3. \A a, b \in Seq(BinlogThds) :
        Members(a) \subseteq R /\ Members(b) \subseteq R => Members(a \o b) \subseteq R
  BY MembersConcat
<1> DEFINE Inside(a) == a \in Seq(BinlogThds) /\ Members(a) \subseteq R
<1>4. \A a, b : Inside(a) /\ Inside(b) => Inside(a \o b)
  <2> HIDE DEF R
  <2>1. \A a, b \in Seq(BinlogThds) : a \o b \in Seq(BinlogThds)
    BY ConcatProperties
  <2> QED BY <1>3, <2>1
<1>5. /\ HookPcs \in SUBSET PipePcs /\ CommitPcs \in SUBSET PipePcs
      /\ SyncPcs \in SUBSET PipePcs /\ LoggedPcs \in SUBSET PipePcs
  BY DEF PipePcs
<1>6. /\ Members(ListAt(HookPcs)) \subseteq R /\ Members(queue["AFTER_COMMIT"]) \subseteq R
      /\ Members(ListAt(CommitPcs)) \subseteq R /\ Members(queue["COMMIT"]) \subseteq R
      /\ Members(ListAt(SyncPcs)) \subseteq R /\ Members(queue["SYNC"]) \subseteq R
      /\ Members(ListAt(LoggedPcs)) \subseteq R
  BY <1>1, <1>2, <1>5
<1>7. /\ ListAt(HookPcs) \in Seq(BinlogThds) /\ queue["AFTER_COMMIT"] \in Seq(BinlogThds)
      /\ ListAt(CommitPcs) \in Seq(BinlogThds) /\ queue["COMMIT"] \in Seq(BinlogThds)
      /\ ListAt(SyncPcs) \in Seq(BinlogThds) /\ queue["SYNC"] \in Seq(BinlogThds)
      /\ ListAt(LoggedPcs) \in Seq(BinlogThds)
  BY PipeTypes
<1>8. /\ Inside(ListAt(HookPcs)) /\ Inside(queue["AFTER_COMMIT"]) /\ Inside(ListAt(CommitPcs))
      /\ Inside(queue["COMMIT"]) /\ Inside(ListAt(SyncPcs)) /\ Inside(queue["SYNC"])
      /\ Inside(ListAt(LoggedPcs))
  BY <1>6, <1>7
<1> HIDE DEF Inside
<1>9. Inside(Pipe)
  BY <1>4, <1>8 DEF Pipe
<1> QED BY <1>9 DEF Inside

(* A session that is neither linked nor leads is not in the pipeline. *)
LEMMA NotInPipe ==
  ASSUME NoOrderWorkers, IInv, Linked, NEW t \in BinlogThds,
         pc[t] \notin LeaderPcs \cup QueueLeaderPcs, pc[t] = "follow" => ~pending[t]
  PROVE  t \notin Members(Pipe)
BY PipeRegion, OutsideRegion

(* Nor is a session in a list that the pipeline does not go through. *)
LEMMA ListNotInPipe ==
  ASSUME NoOrderWorkers, IInv, Linked, NEW t \in BinlogThds, pc[t] \in LeaderPcs \ PipePcs
  PROVE  Members(list[t]) \cap Members(Pipe) = {}
BY PipeRegion, ListApart

(* The places c and l are in the same part of the pipeline, or outside it. *)
SameSlot(c, l) ==
  \A C \in {HookPcs, CommitPcs, SyncPcs, LoggedPcs} : c \in C <=> l \in C

(* A step in which nobody moves along the pipeline. *)
LEMMA QuietPipe ==
  ASSUME NoOrderWorkers, IInv, IInv', NEW t \in BinlogThds,
         \A u \in BinlogThds \ {t} : pc'[u] = pc[u] /\ list'[u] = list[u],
         SameSlot(pc[t], pc'[t]), pc'[t] \in PipePcs => list'[t] = list[t],
         \A s \in {"SYNC", "COMMIT", "AFTER_COMMIT"} : queue'[s] = queue[s]
  PROVE  Pipe' = Pipe
<1>1. ASSUME NEW C \in {HookPcs, CommitPcs, SyncPcs, LoggedPcs}, NEW m \in Mutexes,
             C \subseteq HolderPcs[m]
      PROVE  ListAt(C)' = ListAt(C)
  <2>1. pc[t] \in C <=> pc'[t] \in C
    BY DEF SameSlot
  <2>2. pc'[t] \in C => list'[t] = list[t]
    BY DEF PipePcs
  <2> QED BY <1>1, <2>1, <2>2, ListAtStep
<1>2. /\ ListAt(HookPcs)' = ListAt(HookPcs) /\ ListAt(CommitPcs)' = ListAt(CommitPcs)
      /\ ListAt(SyncPcs)' = ListAt(SyncPcs) /\ ListAt(LoggedPcs)' = ListAt(LoggedPcs)
  BY <1>1, PipeTypes DEF Mutexes
<1> QED BY <1>2 DEF Pipe

(* A leader's list moves to the end of the next queue. *)
LEMMA MergeSeqs ==
  ASSUME NEW S, NEW x \in Seq(S), NEW q \in Seq(S), NEW l \in Seq(S)
  PROVE  x \o (q \o l) \o << >> = x \o q \o l
<1>1. x \o (q \o l) \in Seq(S)
  BY ThreeInARow
<1>2. x \o (q \o l) \o << >> = x \o (q \o l)
  BY <1>1, ConcatEmptySeq
<1> QED BY <1>2, ThreeInARow

(* A leader without a list takes the queue behind it. *)
LEMMA ShiftSeqs ==
  ASSUME NEW S, NEW x \in Seq(S), NEW q \in Seq(S)
  PROVE  x \o << >> \o q = x \o q \o << >>
<1>1. x \o q \in Seq(S)
  BY ThreeInARow
<1> QED BY <1>1, ConcatEmptySeq

(* A leader enrols its list in the next queue. *)
LEMMA LeaveMoves ==
  ASSUME NoOrderWorkers, IInv, IInv', NEW t \in BinlogThds,
         NEW s \in {"SYNC", "COMMIT", "AFTER_COMMIT"}, NEW m, ChangeStage(t, s, m)
  PROVE  /\ \A u \in BinlogThds \ {t} : pc'[u] = pc[u] /\ list'[u] = list[u]
         /\ pc'[t] \in {s, "follow"}
         /\ queue'[s] = queue[s] \o list[t]
         /\ \A r \in {"SYNC", "COMMIT", "AFTER_COMMIT"} \ {s} : queue'[r] = queue[r]
<1>1. pc' = [pc EXCEPT ![t] = EnrolledAs(s)] /\ EnrolledAs(s) \in {s, "follow"}
  BY DEF ChangeStage, EnrollFor, EnrolledAs
<1>2. list' = [list EXCEPT ![t] = << >>] /\ queue' = [queue EXCEPT ![s] = @ \o list[t]]
  BY DEF ChangeStage, EnrollFor
<1> QED BY <1>1, <1>2, ThdsFacts
        DEF IInv, CommitTypeOK, StageTypeOK, PcTypeOK, QueueTypeOK, LeaderTypeOK, Stages

(* The pipeline is the same after a leader left a stage. *)
LEMMA LeavePipe ==
  ASSUME NoOrderWorkers, IInv, IInv', NEW t \in BinlogThds,
         LeaveFlush(t) \/ LeaveSync(t) \/ LeaveCommit(t)
  PROVE  Pipe' = Pipe
<1> USE DEF HookPcs, CommitPcs, SyncPcs, LoggedPcs
<1> DEFINE a == ListAt(HookPcs)
           b == queue["AFTER_COMMIT"]
           c == ListAt(CommitPcs)
           d == queue["COMMIT"]
           e == ListAt(SyncPcs)
           f == queue["SYNC"]
           g == ListAt(LoggedPcs)
           B == Seq(BinlogThds)
           k == list[t]
           M(x, q, l) == x \o (q \o l) \o << >> = x \o q \o l
<1>0. /\ a \in B /\ b \in B /\ c \in B /\ d \in B /\ e \in B /\ f \in B /\ g \in B
      /\ k \in B
  BY PipeTypes DEF IInv, CommitTypeOK, LeaderTypeOK
<1>1. \A x, q, l \in B : M(x, q, l)
  BY MergeSeqs
<1>2. \A x, y \in B : x \o y \in B
  BY ConcatProperties
<1>3. CASE LeaveFlush(t)
  <2>1. pc[t] = "to_sync" /\ ChangeStage(t, "SYNC", "LOCK_log")
    BY <1>3 DEF LeaveFlush
  <2>2. /\ \A u \in BinlogThds \ {t} : pc'[u] = pc[u] /\ list'[u] = list[u]
        /\ pc'[t] \in {"SYNC", "follow"} /\ f' = f \o k /\ b' = b /\ d' = d
    BY <2>1, LeaveMoves
  <2>3. a' = a /\ c' = c /\ e' = e /\ g = k /\ g' = << >>
    <3>1. /\ pc[t] \notin HookPcs /\ pc[t] \notin CommitPcs /\ pc[t] \notin SyncPcs
          /\ pc'[t] \notin HookPcs /\ pc'[t] \notin CommitPcs /\ pc'[t] \notin SyncPcs
          /\ pc[t] \in LoggedPcs /\ pc'[t] \notin LoggedPcs /\ pc[t] \in HolderPcs["LOCK_log"]
      BY <2>1, <2>2, PipeTypes
    <3> HIDE DEF HookPcs, CommitPcs, SyncPcs, LoggedPcs
    <3> QED BY <2>2, <3>1, ListAtStep, PipeTypes DEF Mutexes
  <2> HIDE DEF a, b, c, d, e, f, g, k, B, M
  <2>4. a \o b \o c \o d \o e \in B
    BY <1>0, <1>2
  <2>5. a \o b \o c \o d \o e \o (f \o k) \o << >> = a \o b \o c \o d \o e \o f \o k
    <3>1. M(a \o b \o c \o d \o e, f, k)
      BY <1>0, <1>1, <2>4
    <3> QED BY <3>1 DEF M
  <2>6. Pipe' = a' \o b' \o c' \o d' \o e' \o f' \o g' /\ Pipe = a \o b \o c \o d \o e \o f \o g
    BY DEF Pipe, a, b, c, d, e, f, g
  <2> QED BY <2>2, <2>3, <2>5, <2>6
<1>4. CASE LeaveSync(t)
  <2>1. pc[t] = "to_commit" /\ ChangeStage(t, "COMMIT", "LOCK_sync")
    BY <1>4 DEF LeaveSync
  <2>2. /\ \A u \in BinlogThds \ {t} : pc'[u] = pc[u] /\ list'[u] = list[u]
        /\ pc'[t] \in {"COMMIT", "follow"} /\ d' = d \o k /\ b' = b /\ f' = f
    BY <2>1, LeaveMoves
  <2>3. a' = a /\ c' = c /\ e = k /\ e' = << >> /\ g' = g
    <3>1. /\ pc[t] \notin HookPcs /\ pc[t] \notin CommitPcs /\ pc[t] \in SyncPcs
          /\ pc'[t] \notin HookPcs /\ pc'[t] \notin CommitPcs /\ pc'[t] \notin SyncPcs
          /\ pc[t] \notin LoggedPcs /\ pc'[t] \notin LoggedPcs /\ pc[t] \in HolderPcs["LOCK_sync"]
      BY <2>1, <2>2, PipeTypes
    <3> HIDE DEF HookPcs, CommitPcs, SyncPcs, LoggedPcs
    <3> QED BY <2>2, <3>1, ListAtStep, PipeTypes DEF Mutexes
  <2> HIDE DEF a, b, c, d, e, f, g, k, B, M
  <2>4. a \o b \o c \in B
    BY <1>0, <1>2
  <2>5. a \o b \o c \o (d \o k) \o << >> = a \o b \o c \o d \o k
    <3>1. M(a \o b \o c, d, k)
      BY <1>0, <1>1, <2>4
    <3> QED BY <3>1 DEF M
  <2>6. Pipe' = a' \o b' \o c' \o d' \o e' \o f' \o g' /\ Pipe = a \o b \o c \o d \o e \o f \o g
    BY DEF Pipe, a, b, c, d, e, f, g
  <2> QED BY <2>2, <2>3, <2>5, <2>6
<1>5. CASE LeaveCommit(t)
  <2>1. pc[t] = "to_after_commit" /\ ChangeStage(t, "AFTER_COMMIT", "LOCK_commit")
    BY <1>5 DEF LeaveCommit
  <2>2. /\ \A u \in BinlogThds \ {t} : pc'[u] = pc[u] /\ list'[u] = list[u]
        /\ pc'[t] \in {"AFTER_COMMIT", "follow"} /\ b' = b \o k /\ d' = d /\ f' = f
    BY <2>1, LeaveMoves
  <2>3. a' = a /\ c = k /\ c' = << >> /\ e' = e /\ g' = g
    <3>1. /\ pc[t] \notin HookPcs /\ pc[t] \in CommitPcs /\ pc[t] \notin SyncPcs
          /\ pc'[t] \notin HookPcs /\ pc'[t] \notin CommitPcs /\ pc'[t] \notin SyncPcs
          /\ pc[t] \notin LoggedPcs /\ pc'[t] \notin LoggedPcs
          /\ pc[t] \in HolderPcs["LOCK_commit"]
      BY <2>1, <2>2, PipeTypes
    <3> HIDE DEF HookPcs, CommitPcs, SyncPcs, LoggedPcs
    <3> QED BY <2>2, <3>1, ListAtStep, PipeTypes DEF Mutexes
  <2> HIDE DEF a, b, c, d, e, f, g, k, B, M
  <2>4. a \o (b \o k) \o << >> = a \o b \o k
    <3>1. M(a, b, k)
      BY <1>0, <1>1
    <3> QED BY <3>1 DEF M
  <2>5. Pipe' = a' \o b' \o c' \o d' \o e' \o f' \o g' /\ Pipe = a \o b \o c \o d \o e \o f \o g
    BY DEF Pipe, a, b, c, d, e, f, g
  <2> QED BY <2>2, <2>3, <2>4, <2>5
<1> QED BY <1>3, <1>4, <1>5

(* A leader fetches the queue of its stage. *)
LEMMA EnterMoves ==
  ASSUME NoOrderWorkers, IInv, IInv', NEW t \in BinlogThds,
         NEW s \in {"SYNC", "COMMIT", "AFTER_COMMIT"}, NEW m, NEW l, EnterStage(t, s, m, l)
  PROVE  /\ \A u \in BinlogThds \ {t} : pc'[u] = pc[u] /\ list'[u] = list[u]
         /\ pc[t] = s /\ pc'[t] = l /\ list'[t] = queue[s] /\ queue'[s] = << >>
         /\ \A r \in {"SYNC", "COMMIT", "AFTER_COMMIT"} \ {s} : queue'[r] = queue[r]
BY ThdsFacts DEF EnterStage, Goto, FetchQueues, Stages, IInv, CommitTypeOK, StageTypeOK, PcTypeOK,
   LeaderTypeOK

(* The pipeline is the same after a leader entered a stage. *)
LEMMA EnterPipe ==
  ASSUME NoOrderWorkers, IInv, IInv', NEW t \in BinlogThds,
         EnterSync(t) \/ EnterCommit(t) \/ EnterAfterCommit(t)
  PROVE  Pipe' = Pipe
<1> USE DEF HookPcs, CommitPcs, SyncPcs, LoggedPcs
<1> DEFINE a == ListAt(HookPcs)
           b == queue["AFTER_COMMIT"]
           c == ListAt(CommitPcs)
           d == queue["COMMIT"]
           e == ListAt(SyncPcs)
           f == queue["SYNC"]
           g == ListAt(LoggedPcs)
           B == Seq(BinlogThds)
<1>0. /\ a \in B /\ b \in B /\ c \in B /\ d \in B /\ e \in B /\ f \in B /\ g \in B
  BY PipeTypes
<1>1. \A x, q \in B : x \o << >> \o q = x \o q \o << >>
  BY ShiftSeqs
<1>2. \A x, y \in B : x \o y \in B
  BY ConcatProperties
<1>3. \A q \in B : << >> \o q = q \o << >>
  BY ConcatEmptySeq
<1>4. CASE EnterSync(t)
  <2>2. /\ \A u \in BinlogThds \ {t} : pc'[u] = pc[u] /\ list'[u] = list[u]
        /\ pc[t] = "SYNC" /\ pc'[t] = "sync" /\ list'[t] = f /\ f' = << >> /\ b' = b /\ d' = d
    BY <1>4, EnterMoves DEF EnterSync
  <2>3. a' = a /\ c' = c /\ e = << >> /\ e' = f /\ g' = g
    <3>1. /\ pc[t] \notin HookPcs /\ pc[t] \notin CommitPcs /\ pc[t] \notin SyncPcs
          /\ pc'[t] \notin HookPcs /\ pc'[t] \notin CommitPcs /\ pc'[t] \in SyncPcs
          /\ pc[t] \notin LoggedPcs /\ pc'[t] \notin LoggedPcs /\ pc'[t] \in HolderPcs["LOCK_sync"]
      BY <2>2, PipeTypes
    <3> HIDE DEF HookPcs, CommitPcs, SyncPcs, LoggedPcs
    <3> QED BY <2>2, <3>1, ListAtStep, PipeTypes DEF Mutexes
  <2> HIDE DEF a, b, c, d, e, f, g, B
  <2>4. a \o b \o c \o d \in B
    BY <1>0, <1>2
  <2>5. a \o b \o c \o d \o << >> \o f = a \o b \o c \o d \o f \o << >>
    BY <1>0, <1>1, <2>4
  <2>6. Pipe' = a' \o b' \o c' \o d' \o e' \o f' \o g' /\ Pipe = a \o b \o c \o d \o e \o f \o g
    BY DEF Pipe, a, b, c, d, e, f, g
  <2> QED BY <2>2, <2>3, <2>5, <2>6
<1>5. CASE EnterCommit(t)
  <2>2. /\ \A u \in BinlogThds \ {t} : pc'[u] = pc[u] /\ list'[u] = list[u]
        /\ pc[t] = "COMMIT" /\ pc'[t] = "commit_hook" /\ list'[t] = d /\ d' = << >> /\ b' = b
        /\ f' = f
    BY <1>5, EnterMoves DEF EnterCommit
  <2>3. a' = a /\ c = << >> /\ c' = d /\ e' = e /\ g' = g
    <3>1. /\ pc[t] \notin HookPcs /\ pc[t] \notin CommitPcs /\ pc[t] \notin SyncPcs
          /\ pc'[t] \notin HookPcs /\ pc'[t] \in CommitPcs /\ pc'[t] \notin SyncPcs
          /\ pc[t] \notin LoggedPcs /\ pc'[t] \notin LoggedPcs
          /\ pc'[t] \in HolderPcs["LOCK_commit"]
      BY <2>2, PipeTypes
    <3> HIDE DEF HookPcs, CommitPcs, SyncPcs, LoggedPcs
    <3> QED BY <2>2, <3>1, ListAtStep, PipeTypes DEF Mutexes
  <2> HIDE DEF a, b, c, d, e, f, g, B
  <2>4. a \o b \in B
    BY <1>0, <1>2
  <2>5. a \o b \o << >> \o d = a \o b \o d \o << >>
    BY <1>0, <1>1, <2>4
  <2>6. Pipe' = a' \o b' \o c' \o d' \o e' \o f' \o g' /\ Pipe = a \o b \o c \o d \o e \o f \o g
    BY DEF Pipe, a, b, c, d, e, f, g
  <2> QED BY <2>2, <2>3, <2>5, <2>6
<1>6. CASE EnterAfterCommit(t)
  <2>2. /\ \A u \in BinlogThds \ {t} : pc'[u] = pc[u] /\ list'[u] = list[u]
        /\ pc[t] = "AFTER_COMMIT" /\ pc'[t] = "after_commit" /\ list'[t] = b /\ b' = << >>
        /\ d' = d /\ f' = f
    BY <1>6, EnterMoves DEF EnterAfterCommit
  <2>3. a = << >> /\ a' = b /\ c' = c /\ e' = e /\ g' = g
    <3>1. /\ pc[t] \notin HookPcs /\ pc[t] \notin CommitPcs /\ pc[t] \notin SyncPcs
          /\ pc'[t] \in HookPcs /\ pc'[t] \notin CommitPcs /\ pc'[t] \notin SyncPcs
          /\ pc[t] \notin LoggedPcs /\ pc'[t] \notin LoggedPcs
          /\ pc'[t] \in HolderPcs["LOCK_after_commit"]
      BY <2>2, PipeTypes
    <3> HIDE DEF HookPcs, CommitPcs, SyncPcs, LoggedPcs
    <3> QED BY <2>2, <3>1, ListAtStep, PipeTypes DEF Mutexes
  <2> HIDE DEF a, b, c, d, e, f, g, B
  <2>4. << >> \o b = b \o << >>
    BY <1>0, <1>3
  <2>5. Pipe' = a' \o b' \o c' \o d' \o e' \o f' \o g' /\ Pipe = a \o b \o c \o d \o e \o f \o g
    BY DEF Pipe, a, b, c, d, e, f, g
  <2> QED BY <2>2, <2>3, <2>4, <2>5
<1> QED BY <1>4, <1>5, <1>6

(* fsync of the log does not fail.  Otherwise the commit stage is skipped  *)
(* by a leader that is about to stop the server, which others overtake.    *)
SyncWorks == "sync" \notin Faults

(* The steps in which nobody moves keep a session in its part of the pipeline. *)
LEMMA InPlaceSlots ==
  ASSUME SyncWorks, order_commits, IInv, NEW t \in BinlogThds, InPlaceAction(t),
         ~WriteBinlog(t), ~AfterCommit(t)
  PROVE  SameSlot(pc[t], pc'[t])
<1> DEFINE Kept == \E l : Goto(t, l) /\ SameSlot(pc[t], l)
<1>0. ASSUME Kept PROVE SameSlot(pc[t], pc'[t])
  BY <1>0, ThdsFacts DEF Goto, IInv, CommitTypeOK, StageTypeOK, PcTypeOK
<1>1. ASSUME NEW l, Goto(t, l), SameSlot(pc[t], l) PROVE Kept
  BY <1>1
<1> HIDE DEF Kept
<1>2. ASSUME NEW c, NEW l, c \notin PipePcs, l \notin PipePcs PROVE SameSlot(c, l)
  BY <1>2 DEF SameSlot, PipePcs
<1> USE DEF PipePcs, HookPcs, CommitPcs, SyncPcs, LoggedPcs
<1>3. CASE Prepare(t) \/ FlushLogs(t) \/ FinishCommit(t)
  BY <1>0, <1>1, <1>2, <1>3 DEF Prepare, FlushLogs, FinishCommit, RequestRotation
<1>4. CASE RotateLock(t) \/ WaitForPrepXids(t) \/ NewFile(t)
  BY <1>0, <1>1, <1>2, <1>4 DEF RotateLock, WaitForPrepXids, NewFile
<1>5. CASE FlushEngine(t) \/ FinishOrderList(t)
  BY <1>0, <1>1, <1>2, <1>5 DEF FlushEngine, FinishOrderList
<1>6. CASE CloseBinlog(t)
  <2>1. \/ Goto(t, "signal") /\ pc[t] = "close_sync"
        \/ Goto(t, "to_sync") /\ pc[t] = "close_flush"
    BY <1>6 DEF CloseBinlog
  <2>2. SameSlot("close_flush", "to_sync")
    BY DEF SameSlot
  <2> QED BY <1>0, <1>1, <1>2, <2>1, <2>2
<1>7. CASE SyncBinlog(t)
  <2>1. Goto(t, "to_commit") /\ pc[t] = "sync"
    BY <1>7 DEF SyncBinlog, SyncWorks
  <2>2. SameSlot("sync", "to_commit")
    BY DEF SameSlot
  <2> QED BY <1>0, <1>1, <2>1, <2>2
<1>8. CASE AfterSyncHook(t) \/ CommitGroupDone(t)
  <2>1. \/ Goto(t, "commit") /\ pc[t] = "commit_hook"
        \/ Goto(t, "to_after_commit") /\ pc[t] = "commit"
        \/ Goto(t, "sync_error") /\ pc[t] = "after_sync"
        \/ Goto(t, "signal") /\ pc[t] = "after_sync"
    BY <1>8 DEF AfterSyncHook, CommitGroupDone
  <2>2. SameSlot("commit_hook", "commit") /\ SameSlot("commit", "to_after_commit")
    BY DEF SameSlot
  <2> QED BY <1>0, <1>1, <1>2, <2>1, <2>2
<1>9. CASE HandleSyncError(t) /\ ~AbortServer
  BY <1>0, <1>1, <1>2, <1>9 DEF HandleSyncError
<1>10. CASE FollowerWakes(t) \/ FinishInEngine(t)
  BY <1>0, <1>1, <1>2, <1>10 DEF FollowerWakes, FinishInEngine
<1> QED BY <1>3, <1>4, <1>5, <1>6, <1>7, <1>8, <1>9, <1>10 DEF InPlaceAction

(* Sessions come into the pipeline when they are written, and leave it when *)
(* their hooks have run.                                                   *)
LEMMA PipeStep ==
  ASSUME NoOrderWorkers, SyncWorks, order_commits, IInv, IInv', Linked, NothingLeft,
         NEW t \in BinlogThds, Prepare(t) \/ FlushLogs(t) \/ BinlogStep(t),
         ~WriteBinlog(t), ~AfterCommit(t)
  PROVE  Pipe' = Pipe
<1>1. CASE InPlaceAction(t)
  <2>1. SameSlot(pc[t], pc'[t])
    BY <1>1, InPlaceSlots
  <2>2. PICK l : InPlace(t, l)
    BY <1>1, InPlaceActions
  <2>3. /\ pc'[t] = l /\ \A u \in BinlogThds \ {t} : pc'[u] = pc[u] /\ list'[u] = list[u]
    BY <2>2, ThdsFacts DEF InPlace, Goto, IInv, CommitTypeOK, StageTypeOK, PcTypeOK
  <2>4. PipePcs \subseteq LeaderPcs
    BY DEF PipePcs, HookPcs, CommitPcs, SyncPcs, LoggedPcs, LeaderPcs
  <2>5. pc'[t] \in PipePcs => list'[t] = list[t]
    BY <2>2, <2>3, <2>4 DEF InPlace
  <2> QED BY <2>1, <2>2, <2>3, <2>5, QuietPipe DEF InPlace
<1>2. CASE StillAction(t)
  BY <1>2, StillActions, QuietPipe DEF SameSlot
<1>3. CASE EnterFlush(t)
  <2>1. PICK l \in {"flush_engine", "to_commit_closed"} : Goto(t, l)
    BY <1>3 DEF EnterFlush
  <2>2. /\ pc[t] = "BINLOG_FLUSH" /\ pc'[t] = l
        /\ \A u \in BinlogThds \ {t} : pc'[u] = pc[u] /\ list'[u] = list[u]
    BY <1>3, <2>1, ThdsFacts
       DEF EnterFlush, Goto, IInv, CommitTypeOK, StageTypeOK, PcTypeOK, LeaderTypeOK
  <2>3. \A s \in {"SYNC", "COMMIT", "AFTER_COMMIT"} : queue'[s] = queue[s]
    BY <1>3 DEF EnterFlush, FetchQueues, Stages
  <2>4. SameSlot(pc[t], pc'[t]) /\ pc'[t] \notin PipePcs
    BY <2>2 DEF SameSlot, PipePcs, HookPcs, CommitPcs, SyncPcs, LoggedPcs
  <2> QED BY <2>2, <2>3, <2>4, QuietPipe
<1>4. CASE EnterSync(t) \/ EnterCommit(t) \/ EnterAfterCommit(t)
  BY <1>4, EnterPipe
<1>5. CASE ChangeAction(t)
  <2>1. ~LeaveClosedFlush(t)
    BY DEF LeaveClosedFlush, NothingLeft
  <2> QED BY <1>5, <2>1, LeavePipe DEF ChangeAction
<1>6. CASE Signal(t)
  <2>1. pc[t] = "signal" /\ Goto(t, "finish") /\ UNCHANGED <<queue, list>>
    BY <1>6 DEF Signal, leaderVars
  <2>2. pc'[t] = "finish" /\ \A u \in BinlogThds \ {t} : pc'[u] = pc[u]
    BY <2>1, ThdsFacts DEF Goto, IInv, CommitTypeOK, StageTypeOK, PcTypeOK
  <2>3. SameSlot(pc[t], pc'[t])
    BY <2>1, <2>2 DEF SameSlot, HookPcs, CommitPcs, SyncPcs, LoggedPcs
  <2> QED BY <2>1, <2>2, <2>3, QuietPipe
<1>7. CASE OrderedCommit(t)
  <2>1. pc[t] = "prepared" /\ Goto(t, EnrolledAs("BINLOG_FLUSH")) /\ UNCHANGED list
    BY <1>7 DEF OrderedCommit, EnrollFor, Goto
  <2>2. EnrolledAs("BINLOG_FLUSH") \in {"BINLOG_FLUSH", "follow", "wait_leader"}
    BY DEF EnrolledAs
  <2>3. /\ pc'[t] \in {"BINLOG_FLUSH", "follow", "wait_leader"}
        /\ \A u \in BinlogThds \ {t} : pc'[u] = pc[u]
    BY <2>1, <2>2, ThdsFacts DEF Goto, IInv, CommitTypeOK, StageTypeOK, PcTypeOK
  <2>4. \A s \in {"SYNC", "COMMIT", "AFTER_COMMIT"} : queue'[s] = queue[s]
    BY <1>7 DEF OrderedCommit, EnrollFor, IInv, CommitTypeOK, StageTypeOK, QueueTypeOK, Stages
  <2>5. SameSlot(pc[t], pc'[t])
    BY <2>1, <2>3 DEF SameSlot, HookPcs, CommitPcs, SyncPcs, LoggedPcs
  <2> QED BY <2>1, <2>3, <2>4, <2>5, QuietPipe
<1>8. CASE BinlogLeader(t)
  BY <1>8, NeverHandedOver
<1> QED BY <1>1, <1>2, <1>3, <1>4, <1>5, <1>6, <1>7, <1>8, ActionCases DEF FetchAction

(* The numbers Piped is about. *)
LEMMA PipedFacts ==
  ASSUME NoOrderWorkers, IInv
  PROVE  /\ hooked \in Seq(Trxs) /\ committed \in Seq(Trxs) /\ binlog \in Seq(Trxs)
         /\ Len(hooked) \in Nat /\ Len(committed) \in Nat /\ Len(binlog) \in Nat /\ Len(Pipe) \in Nat
         /\ DOMAIN hooked = 1 .. Len(hooked) /\ DOMAIN committed = 1 .. Len(committed)
         /\ DOMAIN binlog = 1 .. Len(binlog) /\ DOMAIN Pipe = 1 .. Len(Pipe)
         /\ Pipe \in Seq(BinlogThds) /\ \A i \in DOMAIN Pipe : Pipe[i] \in Members(Pipe)
         /\ \A i \in DOMAIN Pipe : Pipe[i] \in BinlogThds
<1>1. hooked \in Seq(Trxs) /\ committed \in Seq(Trxs) /\ binlog \in Seq(Trxs)
  BY DEF IInv, CommitTypeOK, OtherTypeOK, EngineTypeOK, LogTypeOK
<1>2. Pipe \in Seq(BinlogThds)
  BY PipeTypes
<1>3. \A i \in DOMAIN Pipe : Pipe[i] \in Members(Pipe)
  BY DEF Members
<1>4. \A S : \A s \in Seq(S) :
        Len(s) \in Nat /\ DOMAIN s = 1 .. Len(s) /\ \A i \in DOMAIN s : s[i] \in S
  BY LenProperties, ElementOfSeq
<1> QED BY <1>1, <1>2, <1>3, <1>4

(* Steps that leave the pipeline, the logs and the flags of its sessions alone. *)
LEMMA QuietPiped ==
  ASSUME NoOrderWorkers, IInv, Piped, Pipe' = Pipe, UNCHANGED <<binlog, committed, hooked>>,
         \A u \in Members(Pipe) :
           trx'[u] = trx[u] /\ commit_low'[u] = commit_low[u] /\ run_hooks'[u] = run_hooks[u]
  PROVE  Piped'
<1>1. \A i \in DOMAIN Pipe :
        /\ trx'[Pipe[i]] = trx[Pipe[i]] /\ commit_low'[Pipe[i]] = commit_low[Pipe[i]]
        /\ run_hooks'[Pipe[i]] = run_hooks[Pipe[i]]
  BY PipedFacts
<1>2. \A i \in DOMAIN Pipe : Trx(Pipe[i])' = Trx(Pipe[i])
  BY <1>1 DEF Trx
<1>3. IsPrefixOf(hooked, committed)' /\ IsPrefixOf(committed, binlog)'
  BY DEF Piped, IsPrefixOf
<1>4. Len(binlog)' = Len(hooked)' + Len(Pipe)' /\ Distinct(Pipe)'
  BY DEF Piped, Distinct
<1>5. ASSUME NEW i \in DOMAIN Pipe
      PROVE  /\ binlog'[Len(hooked') + i] = Trx(Pipe[i])' /\ run_hooks'[Pipe[i]]
             /\ commit_low'[Pipe[i]] <=> Len(hooked') + i > Len(committed')
  BY <1>1, <1>2 DEF Piped
<1>6. \A i \in DOMAIN Pipe' :
        /\ binlog'[Len(hooked') + i] = Trx(Pipe[i])' /\ run_hooks'[Pipe'[i]]
        /\ commit_low'[Pipe'[i]] <=> Len(hooked') + i > Len(committed')
  BY <1>5
<1> QED BY <1>3, <1>4, <1>6 DEF Piped

(* The sequence v begins with u. *)
Begins(u, v) ==
  Len(u) \in Nat /\ Len(v) \in Nat /\ Len(u) <= Len(v) /\ \A i \in 1 .. Len(u) : v[i] = u[i]

(* A longer sequence begins like a shorter one. *)
LEMMA Beginning ==
  ASSUME NEW S, NEW x \in Seq(S), NEW d \in Seq(S), NEW e \in Seq(S), NEW f \in Seq(S),
         NEW g \in Seq(S)
  PROVE  Begins(x, x \o d \o e \o f \o g)
<1>1. \A u, v \in Seq(S) : Begins(u, u \o v) /\ u \o v \in Seq(S)
  <2> SUFFICES ASSUME NEW u \in Seq(S), NEW v \in Seq(S)
               PROVE  Begins(u, u \o v) /\ u \o v \in Seq(S)
    OBVIOUS
  <2>1. u \o v \in Seq(S) /\ Len(u \o v) = Len(u) + Len(v) /\ Len(u) \in Nat /\ Len(v) \in Nat
    BY ConcatProperties, LenProperties
  <2>2. \A i \in 1 .. Len(u) : (u \o v)[i] = u[i]
    BY ConcatIndex
  <2> QED BY <2>1, <2>2 DEF Begins
<1>2. \A u, v, w : Begins(u, v) /\ Begins(v, w) => Begins(u, w)
  BY DEF Begins
<1> DEFINE y1 == x \o d
           y2 == y1 \o e
           y3 == y2 \o f
           y4 == y3 \o g
<1>3. Begins(x, y1) /\ y1 \in Seq(S)
  BY <1>1
<1>4. Begins(y1, y2) /\ y2 \in Seq(S)
  <2> HIDE DEF y1
  <2> QED BY <1>1, <1>3
<1>5. Begins(y2, y3) /\ y3 \in Seq(S)
  <2> HIDE DEF y2
  <2> QED BY <1>1, <1>4
<1>6. Begins(y3, y4)
  <2> HIDE DEF y3
  <2> QED BY <1>1, <1>5
<1>7. Begins(x, y4)
  <2> HIDE DEF y1, y2, y3, y4
  <2> QED BY <1>2, <1>3, <1>4, <1>5, <1>6
<1> QED BY <1>7

(* Where the list of the commit stage leader is in the pipeline, and that  *)
(* everything before it has been served.                                   *)
LEMMA CommitList ==
  ASSUME NoOrderWorkers, IInv, Linked, Phases, NEW t \in BinlogThds, pc[t] \in CommitPcs,
         NEW i \in DOMAIN list[t]
  PROVE  \E p \in DOMAIN Pipe :
           /\ Pipe[p] = list[t][i]
           /\ \A q \in 1 .. (p - 1) :
                ~commit_low[Pipe[q]] \/ \E j \in 1 .. (i - 1) : Pipe[q] = list[t][j]
<1> DEFINE a == ListAt(HookPcs)
           b == queue["AFTER_COMMIT"]
           c == ListAt(CommitPcs)
           d == queue["COMMIT"]
           e == ListAt(SyncPcs)
           f == queue["SYNC"]
           g == ListAt(LoggedPcs)
           B == Seq(BinlogThds)
           x == a \o b
<1>0. /\ a \in B /\ b \in B /\ c \in B /\ d \in B /\ e \in B /\ f \in B /\ g \in B
  BY PipeTypes
<1>1. c = list[t]
  <2>1. \A u \in BinlogThds \ {t} : pc[u] \notin CommitPcs
    BY PipeTypes, ThdsFacts DEF IInv, Structure, MutexOwners, Mutexes
  <2> QED BY <2>1, AtAlone DEF ListAt
<1>2. Members(a) \subseteq Served /\ Members(b) \subseteq Served
  <2>1. Members(a) \subseteq Served
    <3>1. CASE \E v \in BinlogThds : pc[v] \in HookPcs
      <4>1. PICK v \in BinlogThds : pc[v] \in HookPcs /\ a = list[v]
        BY <3>1 DEF ListAt, At
      <4>2. pc[v] \in LeaderPcs \cap ServedPcs
        BY <4>1 DEF HookPcs, LeaderPcs, ServedPcs
      <4> QED BY <4>1, <4>2, ListRegion DEF Served
    <3>2. CASE ~ \E v \in BinlogThds : pc[v] \in HookPcs
      BY <3>2 DEF ListAt, At, Members
    <3> QED BY <3>1, <3>2
  <2>2. Members(b) \subseteq Served
    <3>1. <<"queue", "AFTER_COMMIT">> \in Places /\ Held[<<"queue", "AFTER_COMMIT">>] = b
      BY HeldBefore, PlaceCases DEF Stages
    <3>2. InRegion({"AFTER_COMMIT"}, ServedPcs, <<"queue", "AFTER_COMMIT">>)
      BY PlaceCases DEF InRegion, Stages
    <3> QED BY <3>1, <3>2, RegionElement DEF Members, Served
  <2> QED BY <2>1, <2>2
<1> HIDE DEF a, b, c, d, e, f, g
<1>3. Pipe = x \o c \o d \o e \o f \o g
  BY DEF Pipe, a, b, c, d, e, f, g
<1>4. x \in B /\ Members(x) \subseteq Served
  <2>1. x \in B
    BY <1>0, ConcatProperties
  <2>2. Members(x) = Members(a) \cup Members(b)
    BY <1>0, MembersConcat
  <2> QED BY <1>2, <2>1, <2>2
<1> HIDE DEF x
<1>5. x \o c \in B
  BY <1>0, <1>4, ConcatProperties
<1>6. /\ Len(x \o c) <= Len(Pipe) /\ Len(x \o c) \in Nat
      /\ \A k \in 1 .. Len(x \o c) : Pipe[k] = (x \o c)[k]
  <2> DEFINE y == x \o c
  <2>1. y \in B /\ Pipe = y \o d \o e \o f \o g
    BY <1>3, <1>5
  <2> HIDE DEF y
  <2>2. Len(y) <= Len(Pipe) /\ Len(y) \in Nat /\ \A k \in 1 .. Len(y) : Pipe[k] = y[k]
    <3>1. \A u, l, m, n, o \in B : Begins(u, u \o l \o m \o n \o o)
      BY Beginning
    <3>2. Begins(y, Pipe)
      BY <1>0, <2>1, <3>1
    <3> QED BY <3>2 DEF Begins
  <2> QED BY <2>2 DEF y
<1>7. /\ Len(x) \in Nat /\ Len(c) \in Nat /\ Len(x \o c) = Len(x) + Len(c)
      /\ DOMAIN c = 1 .. Len(c) /\ DOMAIN x = 1 .. Len(x)
      /\ \A k \in 1 .. Len(x) : (x \o c)[k] = x[k]
      /\ \A k \in (Len(x) + 1) .. (Len(x) + Len(c)) : (x \o c)[k] = c[k - Len(x)]
  BY <1>0, <1>4, ConcatIndex, ConcatProperties
<1>8. i \in 1 .. Len(c)
  BY <1>1, <1>7
<1>9. /\ \A k \in 1 .. Len(x) : Pipe[k] = x[k]
      /\ \A k \in (Len(x) + 1) .. (Len(x) + Len(c)) : Pipe[k] = c[k - Len(x)]
      /\ Len(x) + Len(c) <= Len(Pipe) /\ DOMAIN Pipe = 1 .. Len(Pipe) /\ Len(Pipe) \in Nat
  <2>1. DOMAIN Pipe = 1 .. Len(Pipe) /\ Len(Pipe) \in Nat
    BY PipedFacts
  <2> HIDE DEF x
  <2> QED BY <1>6, <1>7, <2>1
<1> DEFINE p == Len(x) + i
<1>10. p \in DOMAIN Pipe /\ Pipe[p] = list[t][i]
  <2>1. p \in (Len(x) + 1) .. (Len(x) + Len(c)) /\ p - Len(x) = i
    BY <1>7, <1>8
  <2>2. p \in 1 .. Len(Pipe)
    BY <1>7, <1>9, <2>1
  <2> QED BY <1>1, <1>9, <2>1, <2>2
<1>11. ASSUME NEW q \in 1 .. (p - 1)
       PROVE  ~commit_low[Pipe[q]] \/ \E j \in 1 .. (i - 1) : Pipe[q] = list[t][j]
  <2>1. CASE q <= Len(x)
    <3>1. q \in 1 .. Len(x)
      BY <1>7, <2>1
    <3>2. Pipe[q] = x[q] /\ x[q] \in Members(x)
      BY <1>7, <1>9, <3>1 DEF Members
    <3> QED BY <1>4, <3>2 DEF Phases, ServedIsDone, Done
  <2>2. CASE q > Len(x)
    <3>1. q \in (Len(x) + 1) .. (Len(x) + Len(c)) /\ q - Len(x) \in 1 .. (i - 1)
      BY <1>7, <1>8, <2>2
    <3>2. Pipe[q] = list[t][q - Len(x)]
      BY <1>1, <1>9, <3>1
    <3> QED BY <3>1, <3>2
  <2> QED BY <1>7, <1>8, <2>1, <2>2
<1> QED BY <1>10, <1>11

(* The commit stage leader commits the next transaction of the log. *)
LEMMA CommitNextPiped ==
  ASSUME NoOrderWorkers, IInv, IInv', Linked, Phases, Piped, NEW t \in BinlogThds, CommitNext(t)
  PROVE  Piped'
<1>1. PICK i \in DOMAIN list[t] :
        /\ commit_low[list[t][i]] /\ \A j \in 1 .. (i - 1) : ~commit_low[list[t][j]]
        /\ CommitInEngine(list[t][i])
  BY DEF CommitNext
<1>2. pc[t] = "commit" /\ UNCHANGED <<pc, queue, list, trx, run_hooks, binlog, hooked>>
  BY DEF CommitNext, stageVars, leaderVars, logVars, otherVars
<1>3. pc[t] \in CommitPcs /\ Pipe' = Pipe
  BY <1>2 DEF CommitPcs, Pipe, ListAt, At
<1>4. PICK p \in DOMAIN Pipe :
        /\ Pipe[p] = list[t][i]
        /\ \A q \in 1 .. (p - 1) :
             ~commit_low[Pipe[q]] \/ \E j \in 1 .. (i - 1) : Pipe[q] = list[t][j]
  BY <1>3, CommitList
<1> DEFINE h == Len(hooked)
           n == Len(committed)
<1>5. /\ h \in Nat /\ n \in Nat /\ Len(binlog) \in Nat /\ Len(Pipe) \in Nat
      /\ DOMAIN committed = 1 .. n /\ DOMAIN hooked = 1 .. h /\ DOMAIN Pipe = 1 .. Len(Pipe)
      /\ committed \in Seq(Trxs) /\ Pipe[p] \in BinlogThds
  BY PipedFacts
<1>6. \A q \in 1 .. (p - 1) : ~commit_low[Pipe[q]]
  BY <1>1, <1>4
<1>7. h + p = n + 1
  <2>1. /\ h <= n
        /\ \A k \in DOMAIN Pipe : commit_low[Pipe[k]] <=> h + k > n
    BY DEF Piped, IsPrefixOf
  <2>2. h + p > n
    BY <1>1, <1>4, <2>1
  <2>3. CASE p = 1
    BY <1>5, <2>1, <2>2, <2>3
  <2>4. CASE p # 1
    <3>1. p - 1 \in DOMAIN Pipe /\ p - 1 \in 1 .. (p - 1)
      BY <1>5, <2>4
    <3>2. ~(h + (p - 1) > n)
      BY <1>6, <2>1, <3>1
    <3> QED BY <1>5, <2>2, <3>2
  <2> QED BY <2>3, <2>4
<1>8. /\ Trx(Pipe[p]) \in Trxs /\ committed' = Append(committed, Trx(Pipe[p]))
      /\ commit_low' = [commit_low EXCEPT ![Pipe[p]] = FALSE]
  BY <1>1, <1>4, <1>5, ThdsFacts DEF CommitInEngine, Trx, Trxs, IInv, CommitTypeOK, ThdTypeOK
<1>9. /\ Len(committed') = n + 1 /\ DOMAIN committed' = 1 .. (n + 1)
      /\ committed'[n + 1] = Trx(Pipe[p]) /\ \A k \in 1 .. n : committed'[k] = committed[k]
  BY <1>5, <1>8, AppendProperties
<1>10. Len(binlog) = h + Len(Pipe) /\ binlog[h + p] = Trx(Pipe[p])
  BY DEF Piped
<1>11. IsPrefixOf(hooked, committed)'
  <2>1. h <= n /\ \A k \in 1 .. h : hooked[k] = committed[k]
    BY <1>5 DEF Piped, IsPrefixOf
  <2>2. h <= n + 1 /\ \A k \in 1 .. h : hooked[k] = committed'[k]
    BY <1>5, <1>9, <2>1
  <2> QED BY <1>2, <1>5, <1>9, <2>2 DEF IsPrefixOf
<1>12. IsPrefixOf(committed, binlog)'
  <2>1. n <= Len(binlog) /\ \A k \in 1 .. n : committed[k] = binlog[k]
    BY <1>5 DEF Piped, IsPrefixOf
  <2>2. n + 1 <= Len(binlog)
    BY <1>5, <1>7, <1>10
  <2>3. \A k \in 1 .. (n + 1) : committed'[k] = binlog[k]
    <3> SUFFICES ASSUME NEW k \in 1 .. (n + 1) PROVE committed'[k] = binlog[k]
      OBVIOUS
    <3>1. CASE k = n + 1
      BY <1>7, <1>9, <1>10, <3>1
    <3>2. CASE k \in 1 .. n
      BY <1>9, <2>1, <3>2
    <3> QED BY <1>5, <3>1, <3>2
  <2> QED BY <1>2, <1>9, <2>2, <2>3 DEF IsPrefixOf
<1>13. ASSUME NEW k \in DOMAIN Pipe
       PROVE  /\ binlog[h + k] = Trx(Pipe[k]) /\ run_hooks[Pipe[k]]
              /\ commit_low'[Pipe[k]] <=> h + k > n + 1
  <2>1. /\ binlog[h + k] = Trx(Pipe[k]) /\ run_hooks[Pipe[k]]
        /\ commit_low[Pipe[k]] <=> h + k > n
    BY DEF Piped
  <2>2. Pipe[k] \in BinlogThds
    BY PipedFacts
  <2>3. CASE k = p
    <3>1. ~commit_low'[Pipe[p]]
      BY <1>5, <1>8, ThdsFacts DEF IInv, CommitTypeOK, ThdTypeOK
    <3>2. ~(h + p > n + 1)
      BY <1>5, <1>7
    <3> QED BY <2>1, <2>3, <3>1, <3>2
  <2>4. CASE k # p
    <3>1. Pipe[k] # Pipe[p]
      BY <2>4 DEF Piped, Distinct
    <3>2. commit_low'[Pipe[k]] = commit_low[Pipe[k]]
      BY <1>8, <2>2, <3>1, ThdsFacts DEF IInv, CommitTypeOK, ThdTypeOK
    <3>3. h + k > n <=> h + k > n + 1
      BY <1>5, <1>7, <2>4
    <3> QED BY <2>1, <3>2, <3>3
  <2> QED BY <2>3, <2>4
<1>14. \A k : Trx(Pipe[k])' = Trx(Pipe[k])
  BY <1>2, <1>3 DEF Trx
<1>15. \A k \in DOMAIN Pipe' :
         /\ binlog'[Len(hooked') + k] = Trx(Pipe[k])' /\ run_hooks'[Pipe'[k]]
         /\ commit_low'[Pipe'[k]] <=> Len(hooked') + k > Len(committed')
  BY <1>2, <1>3, <1>9, <1>13, <1>14
<1>16. Len(binlog)' = Len(hooked)' + Len(Pipe)' /\ Distinct(Pipe)'
  BY <1>2, <1>3 DEF Piped, Distinct
<1> QED BY <1>11, <1>12, <1>15, <1>16 DEF Piped

(* The after commit stage leader runs the hooks of the first transactions  *)
(* of the pipeline.                                                        *)
LEMMA AfterCommitPipe ==
  ASSUME NoOrderWorkers, IInv, IInv', NEW t \in BinlogThds, AfterCommit(t)
  PROVE  Pipe = list[t] \o Pipe' /\ Pipe' \in Seq(BinlogThds)
<1> DEFINE a == ListAt(HookPcs)
           b == queue["AFTER_COMMIT"]
           c == ListAt(CommitPcs)
           d == queue["COMMIT"]
           e == ListAt(SyncPcs)
           f == queue["SYNC"]
           g == ListAt(LoggedPcs)
           B == Seq(BinlogThds)
<1>0. /\ a \in B /\ b \in B /\ c \in B /\ d \in B /\ e \in B /\ f \in B /\ g \in B
  BY PipeTypes
<1>1. pc[t] = "after_commit" /\ UNCHANGED <<queue, list>>
  BY DEF AfterCommit, leaderVars
<1>2. pc'[t] \in {"sync_error", "signal"} /\ \A u \in BinlogThds \ {t} : pc'[u] = pc[u]
  BY ThdsFacts DEF AfterCommit, Goto, IInv, CommitTypeOK, StageTypeOK, PcTypeOK
<1>3. a = list[t] /\ a' = << >> /\ c' = c /\ e' = e /\ g' = g
  <2>1. /\ pc[t] \in HookPcs /\ pc[t] \notin CommitPcs /\ pc[t] \notin SyncPcs
        /\ pc[t] \notin LoggedPcs /\ pc'[t] \notin HookPcs /\ pc'[t] \notin CommitPcs
        /\ pc'[t] \notin SyncPcs /\ pc'[t] \notin LoggedPcs
        /\ pc[t] \in HolderPcs["LOCK_after_commit"]
    BY <1>1, <1>2, PipeTypes DEF HookPcs, CommitPcs, SyncPcs, LoggedPcs
  <2> QED BY <1>1, <1>2, <2>1, ListAtStep, PipeTypes DEF Mutexes
<1>4. b' = b /\ d' = d /\ f' = f
  BY <1>1
<1> HIDE DEF a, b, c, d, e, f, g, B
<1>5. Pipe' = a' \o b' \o c' \o d' \o e' \o f' \o g' /\ Pipe = a \o b \o c \o d \o e \o f \o g
  BY DEF Pipe, a, b, c, d, e, f, g
<1>6. a \o b \o c \o d \o e \o f \o g = a \o (<< >> \o b \o c \o d \o e \o f \o g)
  <2>1. \A l, m, n, o, p, q, r \in B : Apart(l, m, n, o, p, q, r)
    BY FirstApart DEF B
  <2>2. Apart(a, b, c, d, e, f, g)
    BY <1>0, <2>1
  <2> QED BY <2>2 DEF Apart
<1>7. << >> \o b \o c \o d \o e \o f \o g \in B
  <2>1. \A l, m, n, o, p, q, r \in B : << >> \o m \o n \o o \o p \o q \o r \in B
    BY FirstApart DEF B
  <2> QED BY <1>0, <2>1
<1> QED BY <1>3, <1>4, <1>5, <1>6, <1>7 DEF B

(* The transactions of a sequence of sessions. *)
LEMMA TrxSeqIndex ==
  ASSUME IInv, NEW l \in Seq(BinlogThds)
  PROVE  /\ TrxSeq(l) \in Seq(Trxs) /\ Len(TrxSeq(l)) = Len(l) /\ Len(l) \in Nat
         /\ \A i \in 1 .. Len(l) : TrxSeq(l)[i] = Trx(l[i])
<1>1. TrxSeq(l) \in Seq(Trxs) /\ DOMAIN l = 1 .. Len(l) /\ Len(l) \in Nat
  BY TrxSeqType, LenProperties
<1>2. DOMAIN TrxSeq(l) = 1 .. Len(l)
  BY <1>1 DEF TrxSeq
<1>3. Len(TrxSeq(l)) = Len(l)
  BY <1>1, <1>2, LenProperties
<1> QED BY <1>1, <1>3 DEF TrxSeq

(* The hooks run in the order of the engine's commits. *)
LEMMA AfterCommitPiped ==
  ASSUME NoOrderWorkers, IInv, IInv', Linked, Phases, Piped, NEW t \in BinlogThds, AfterCommit(t)
  PROVE  Piped'
<1> DEFINE l == list[t]
           k == Len(l)
           h == Len(hooked)
           n == Len(committed)
<1>1. PICK todo \in Subsequences(l) : /\ Members(todo) = {u \in Members(l) : run_hooks[u]}
                                      /\ hooked' = hooked \o TrxSeq(todo)
  BY DEF AfterCommit
<1>2. /\ UNCHANGED <<trx, commit_low, binlog, committed>> /\ pc[t] = "after_commit"
      /\ run_hooks' = [u \in Thds |-> run_hooks[u] /\ u \notin Members(l)]
  BY DEF AfterCommit, logVars, engineVars
<1>3. pc[t] \in LeaderPcs /\ pc[t] \in ServedPcs /\ l \in Seq(BinlogThds)
  BY <1>2 DEF LeaderPcs, ServedPcs, IInv, CommitTypeOK, LeaderTypeOK
<1>4. Pipe = l \o Pipe' /\ Pipe' \in Seq(BinlogThds)
  BY AfterCommitPipe
<1>5. /\ k \in Nat /\ Len(Pipe') \in Nat /\ Len(Pipe) = k + Len(Pipe')
      /\ DOMAIN Pipe = 1 .. (k + Len(Pipe')) /\ DOMAIN l = 1 .. k /\ DOMAIN Pipe' = 1 .. Len(Pipe')
      /\ \A i \in 1 .. k : Pipe[i] = l[i]
      /\ \A i \in (k + 1) .. (k + Len(Pipe')) : Pipe[i] = Pipe'[i - k]
  BY <1>3, <1>4, ConcatIndex, ConcatProperties
<1>6. /\ h \in Nat /\ n \in Nat /\ Len(binlog) \in Nat
      /\ DOMAIN committed = 1 .. n /\ DOMAIN hooked = 1 .. h
      /\ hooked \in Seq(Trxs)
  BY PipedFacts
<1>7. /\ h <= n /\ n <= Len(binlog) /\ Len(binlog) = h + (k + Len(Pipe'))
      /\ \A i \in 1 .. h : hooked[i] = committed[i]
      /\ \A i \in 1 .. n : committed[i] = binlog[i]
  BY <1>5, <1>6 DEF Piped, IsPrefixOf
<1>8. \A i \in 1 .. (k + Len(Pipe')) :
        /\ binlog[h + i] = Trx(Pipe[i]) /\ run_hooks[Pipe[i]]
        /\ commit_low[Pipe[i]] <=> h + i > n
  BY <1>5 DEF Piped
<1>9. \A i, j \in 1 .. (k + Len(Pipe')) : Pipe[i] = Pipe[j] => i = j
  BY <1>5 DEF Piped, Distinct
<1> HIDE DEF l
<1>10. \A i \in 1 .. k : i \in 1 .. (k + Len(Pipe'))
  BY <1>5
<1>11. todo = l
  <2>1. Distinct(l)
    BY <1>3, ListDistinct DEF l
  <2>2. \A i \in 1 .. k : run_hooks[l[i]]
    BY <1>5, <1>8, <1>10
  <2>3. \A u \in Members(l) : run_hooks[u]
    BY <1>5, <2>2 DEF Members
  <2>4. Members(l) \subseteq Members(todo)
    BY <1>1, <2>3
  <2> QED BY <1>1, <1>3, <2>1, <2>4, WholeSubsequence
<1>12. /\ Len(hooked') = h + k /\ DOMAIN hooked' = 1 .. (h + k)
       /\ \A i \in 1 .. h : hooked'[i] = hooked[i]
       /\ \A i \in (h + 1) .. (h + k) : hooked'[i] = Trx(l[i - h])
  <2>1. /\ TrxSeq(l) \in Seq(Trxs) /\ Len(TrxSeq(l)) = k
        /\ \A i \in 1 .. k : TrxSeq(l)[i] = Trx(l[i])
    BY <1>3, TrxSeqIndex
  <2>2. /\ Len(hooked') = h + k /\ DOMAIN hooked' = 1 .. (h + k)
        /\ \A i \in 1 .. h : hooked'[i] = hooked[i]
        /\ \A i \in (h + 1) .. (h + k) : hooked'[i] = TrxSeq(l)[i - h] /\ i - h \in 1 .. k
    <3> DEFINE m == TrxSeq(l)
    <3>1. hooked' = hooked \o m /\ m \in Seq(Trxs) /\ Len(m) = k
      BY <1>1, <1>11, <2>1
    <3> HIDE DEF m, k, h
    <3>2. Len(hooked') = Len(hooked) + Len(m)
      BY <1>6, <3>1, ConcatProperties
    <3>3. /\ DOMAIN hooked' = 1 .. (Len(hooked) + Len(m))
          /\ \A i \in 1 .. Len(hooked) : hooked'[i] = hooked[i]
          /\ \A i \in (Len(hooked) + 1) .. (Len(hooked) + Len(m)) :
               hooked'[i] = m[i - Len(hooked)] /\ i - Len(hooked) \in 1 .. Len(m)
      BY <1>6, <3>1, ConcatIndex
    <3> QED BY <3>1, <3>2, <3>3 DEF m, h
  <2> QED BY <2>1, <2>2
<1>13. \A i \in 1 .. k : ~commit_low[l[i]]
  <2>1. Members(l) \subseteq Served
    BY <1>3, ListRegion DEF Served, l
  <2> QED BY <1>5, <2>1 DEF Members, Phases, ServedIsDone, Done
<1>14. \A i \in 1 .. k : h + i <= n
  <2> SUFFICES ASSUME NEW i \in 1 .. k PROVE h + i <= n
    OBVIOUS
  <2>1. ~(h + i > n)
    BY <1>5, <1>8, <1>10, <1>13
  <2> QED BY <1>5, <1>6, <2>1
<1>15. h + k <= n
  <2>1. CASE k = 0
    BY <1>6, <1>7, <2>1
  <2>2. CASE k # 0
    <3>1. k \in 1 .. k
      BY <1>5, <2>2
    <3> QED BY <1>14, <3>1
  <2> QED BY <2>1, <2>2
<1>16. \A i \in 1 .. (h + k) : hooked'[i] = committed[i]
  <2> SUFFICES ASSUME NEW i \in 1 .. (h + k) PROVE hooked'[i] = committed[i]
    OBVIOUS
  <2>1. CASE i \in 1 .. h
    BY <1>7, <1>12, <2>1
  <2>2. CASE i > h
    <3>1. i \in (h + 1) .. (h + k) /\ i - h \in 1 .. k /\ h + (i - h) = i /\ i \in 1 .. n
      BY <1>5, <1>6, <1>15, <2>2
    <3>2. hooked'[i] = Trx(l[i - h]) /\ Pipe[i - h] = l[i - h]
      BY <1>5, <1>12, <3>1
    <3>3. binlog[i] = Trx(Pipe[i - h])
      BY <1>8, <1>10, <3>1
    <3> QED BY <1>7, <3>1, <3>2, <3>3
  <2> QED BY <1>5, <1>6, <2>1, <2>2
<1>17. IsPrefixOf(hooked, committed)' /\ IsPrefixOf(committed, binlog)'
  BY <1>2, <1>6, <1>7, <1>12, <1>15, <1>16 DEF IsPrefixOf
<1>18. Len(binlog)' = Len(hooked)' + Len(Pipe)'
  BY <1>2, <1>5, <1>6, <1>7, <1>12
<1>19. ASSUME NEW i \in DOMAIN Pipe'
       PROVE  /\ i \in 1 .. Len(Pipe') /\ k + i \in (k + 1) .. (k + Len(Pipe'))
              /\ k + i \in 1 .. (k + Len(Pipe')) /\ k + i - k = i /\ h + (k + i) = h + k + i
              /\ Pipe'[i] = Pipe[k + i] /\ i \in Nat
  <2>1. /\ i \in 1 .. Len(Pipe') /\ k + i \in (k + 1) .. (k + Len(Pipe'))
        /\ k + i \in 1 .. (k + Len(Pipe')) /\ k + i - k = i /\ h + (k + i) = h + k + i
    BY <1>5, <1>6
  <2> QED BY <1>5, <2>1
<1>20. ASSUME NEW i \in DOMAIN Pipe'
       PROVE  /\ binlog'[Len(hooked') + i] = Trx(Pipe[i])' /\ run_hooks'[Pipe'[i]]
              /\ commit_low'[Pipe'[i]] <=> Len(hooked') + i > Len(committed')
  <2>1. /\ binlog[h + k + i] = Trx(Pipe'[i]) /\ run_hooks[Pipe'[i]]
        /\ commit_low[Pipe'[i]] <=> h + k + i > n
    <3>1. /\ k + i \in 1 .. (k + Len(Pipe')) /\ Pipe'[i] = Pipe[k + i]
          /\ h + (k + i) = h + k + i
      BY <1>19
    <3>2. /\ binlog[h + (k + i)] = Trx(Pipe[k + i]) /\ run_hooks[Pipe[k + i]]
          /\ commit_low[Pipe[k + i]] <=> h + (k + i) > n
      BY <1>8, <3>1
    <3> HIDE DEF h, k, n
    <3> QED BY <3>1, <3>2
  <2>2. Trx(Pipe[i])' = Trx(Pipe'[i])
    BY <1>2 DEF Trx
  <2>3. Pipe'[i] \notin Members(l)
    <3> SUFFICES ASSUME NEW j \in 1 .. k, Pipe'[i] = l[j] PROVE FALSE
      BY <1>5 DEF Members
    <3>1. Pipe[k + i] = Pipe[j] /\ j \in 1 .. (k + Len(Pipe')) /\ k + i \in 1 .. (k + Len(Pipe'))
      BY <1>5, <1>10, <1>19
    <3>2. k + i = j
      BY <1>9, <3>1
    <3> QED BY <1>5, <1>19, <3>2
  <2>4. Pipe'[i] \in Thds
    BY <1>4, <1>5, ThdsFacts
  <2>5. run_hooks'[Pipe'[i]]
    BY <1>2, <2>1, <2>3, <2>4
  <2> QED BY <1>2, <1>12, <2>1, <2>2, <2>5
<1>21. ASSUME NEW i \in DOMAIN Pipe', NEW j \in DOMAIN Pipe', Pipe'[i] = Pipe'[j] PROVE i = j
  <2>1. Pipe[k + i] = Pipe[k + j]
    BY <1>19, <1>21
  <2>2. k + i \in 1 .. (k + Len(Pipe')) /\ k + j \in 1 .. (k + Len(Pipe'))
    BY <1>19
  <2>3. k + i = k + j
    BY <1>9, <2>1, <2>2
  <2>4. k \in Nat /\ i \in Nat /\ j \in Nat
    BY <1>5, <1>19
  <2> HIDE DEF k
  <2> QED BY <2>3, <2>4
<1>22. Distinct(Pipe)'
  BY <1>21 DEF Distinct
<1>23. \A i \in DOMAIN Pipe' :
         /\ binlog'[Len(hooked') + i] = Trx(Pipe[i])' /\ run_hooks'[Pipe'[i]]
         /\ commit_low'[Pipe'[i]] <=> Len(hooked') + i > Len(committed')
  BY <1>20
<1> QED BY <1>17, <1>18, <1>22, <1>23 DEF Piped

(* A flush leader has written its list. *)
LEMMA WritePipe ==
  ASSUME NoOrderWorkers, IInv, IInv', NEW t \in BinlogThds, WriteBinlog(t)
  PROVE  Pipe' = Pipe \o list[t]
<1> DEFINE a == ListAt(HookPcs)
           b == queue["AFTER_COMMIT"]
           c == ListAt(CommitPcs)
           d == queue["COMMIT"]
           e == ListAt(SyncPcs)
           f == queue["SYNC"]
           g == ListAt(LoggedPcs)
           x == a \o b \o c \o d \o e \o f
           B == Seq(BinlogThds)
<1>0. /\ a \in B /\ b \in B /\ c \in B /\ d \in B /\ e \in B /\ f \in B /\ g \in B
  BY PipeTypes
<1>1. pc[t] = "write" /\ UNCHANGED <<queue, list>>
  BY DEF WriteBinlog, leaderVars
<1>2. pc'[t] \in {"close_flush", "to_sync"} /\ \A u \in BinlogThds \ {t} : pc'[u] = pc[u]
  BY ThdsFacts DEF WriteBinlog, Goto, IInv, CommitTypeOK, StageTypeOK, PcTypeOK
<1>3. a' = a /\ c' = c /\ e' = e /\ g = << >> /\ g' = list[t]
  <2>1. /\ pc[t] \notin HookPcs /\ pc[t] \notin CommitPcs /\ pc[t] \notin SyncPcs
        /\ pc[t] \notin LoggedPcs /\ pc'[t] \notin HookPcs /\ pc'[t] \notin CommitPcs
        /\ pc'[t] \notin SyncPcs /\ pc'[t] \in LoggedPcs /\ pc'[t] \in HolderPcs["LOCK_log"]
    BY <1>1, <1>2, PipeTypes DEF HookPcs, CommitPcs, SyncPcs, LoggedPcs
  <2> QED BY <1>1, <1>2, <2>1, ListAtStep, PipeTypes DEF Mutexes
<1>4. b' = b /\ d' = d /\ f' = f
  BY <1>1
<1> HIDE DEF a, b, c, d, e, f, g, B
<1>5. Pipe' = a' \o b' \o c' \o d' \o e' \o f' \o g' /\ Pipe = a \o b \o c \o d \o e \o f \o g
  BY DEF Pipe, a, b, c, d, e, f, g
<1>6. x \in B
  <2>1. \A y, z \in B : y \o z \in B
    BY ConcatProperties DEF B
  <2> QED BY <1>0, <2>1
<1>7. Pipe = x \o << >> /\ Pipe' = x \o list[t]
  BY <1>3, <1>4, <1>5
<1> HIDE DEF x
<1>8. Pipe = x
  BY <1>6, <1>7, ConcatEmptySeq DEF B
<1> QED BY <1>7, <1>8

(* The whole list is in the log, in its order. *)
LEMMA WriteWhole ==
  ASSUME NoOrderWorkers, CachesFit, IInv, Linked, NEW t \in BinlogThds, WriteBinlog(t)
  PROVE  binlog' = binlog \o TrxSeq(list[t])
<1>1. PICK written \in Subsequences(list[t]) :
        /\ Members(list[t]) \ Members(written) # {} => "flush_member" \in Faults
        /\ FlushThreadCaches(written)
  BY DEF WriteBinlog
<1>2. list[t] \in Seq(BinlogThds) /\ pc[t] \in LeaderPcs
  BY DEF WriteBinlog, LeaderPcs, IInv, CommitTypeOK, LeaderTypeOK
<1>3. Members(list[t]) \subseteq Members(written) /\ Distinct(list[t])
  BY <1>1, <1>2, ListDistinct DEF CachesFit
<1>4. written = list[t]
  BY <1>1, <1>2, <1>3, WholeSubsequence
<1> QED BY <1>1, <1>4 DEF FlushThreadCaches

(* The log grows by the transactions that come into the pipeline. *)
LEMMA WritePiped ==
  ASSUME NoOrderWorkers, CachesFit, IInv, IInv', Linked, Piped, FreshIsUncommitted,
         NEW t \in BinlogThds, WriteBinlog(t)
  PROVE  Piped'
<1> DEFINE l == list[t]
           k == Len(l)
           h == Len(hooked)
           n == Len(committed)
           p == Len(Pipe)
<1>1. /\ UNCHANGED <<trx, commit_low, run_hooks, committed, hooked>> /\ pc[t] = "write"
  BY DEF WriteBinlog, engineVars
<1>2. pc[t] \in LeaderPcs \cap FlushPcs /\ pc[t] \in LeaderPcs \ PipePcs /\ l \in Seq(BinlogThds)
  BY <1>1 DEF LeaderPcs, FlushPcs, PipePcs, HookPcs, CommitPcs, SyncPcs, LoggedPcs, IInv,
     CommitTypeOK, LeaderTypeOK
<1>3. Pipe' = Pipe \o l /\ binlog' = binlog \o TrxSeq(l)
  BY WritePipe, WriteWhole
<1>4. /\ h \in Nat /\ n \in Nat /\ p \in Nat /\ Len(binlog) \in Nat
      /\ DOMAIN committed = 1 .. n /\ DOMAIN hooked = 1 .. h /\ DOMAIN Pipe = 1 .. p
      /\ DOMAIN binlog = 1 .. Len(binlog)
      /\ binlog \in Seq(Trxs) /\ Pipe \in Seq(BinlogThds)
  BY PipedFacts
<1>5. /\ k \in Nat /\ TrxSeq(l) \in Seq(Trxs) /\ Len(TrxSeq(l)) = k
      /\ \A i \in 1 .. k : TrxSeq(l)[i] = Trx(l[i])
  BY <1>2, TrxSeqIndex
<1>6. /\ \A i \in 1 .. k : l[i] \in Fresh /\ l[i] \in Members(l) /\ l[i] \notin Members(Pipe)
      /\ \A i, j \in 1 .. k : l[i] = l[j] => i = j
      /\ DOMAIN l = 1 .. k
  <2>1. Members(l) \subseteq Fresh /\ Members(l) \cap Members(Pipe) = {} /\ Distinct(l)
    BY <1>2, ListRegion, ListNotInPipe, ListDistinct DEF Fresh
  <2>2. DOMAIN l = 1 .. k
    BY <1>2, LenProperties
  <2>3. \A i \in 1 .. k : l[i] \in Members(l)
    BY <2>2 DEF Members
  <2> QED BY <2>1, <2>2, <2>3 DEF Distinct
<1> HIDE DEF l
<1>7. /\ Len(Pipe') = p + k /\ DOMAIN Pipe' = 1 .. (p + k)
      /\ \A i \in 1 .. p : Pipe'[i] = Pipe[i]
      /\ \A i \in (p + 1) .. (p + k) : Pipe'[i] = l[i - p] /\ i - p \in 1 .. k
  BY <1>2, <1>3, <1>4, ConcatIndex, ConcatProperties
<1>8. /\ Len(binlog) = h + p /\ Len(binlog') = h + p + k
      /\ \A i \in 1 .. (h + p) : binlog'[i] = binlog[i]
      /\ \A i \in (h + p + 1) .. (h + p + k) : binlog'[i] = Trx(l[i - (h + p)])
  <2>1. Len(binlog) = h + p
    BY DEF Piped
  <2> DEFINE m == TrxSeq(l)
  <2>2. binlog' = binlog \o m /\ m \in Seq(Trxs) /\ Len(m) = k
    BY <1>3, <1>5
  <2> HIDE DEF m, k, h, p
  <2>3. Len(binlog') = Len(binlog) + Len(m)
    BY <1>4, <2>2, ConcatProperties
  <2>4. /\ \A i \in 1 .. Len(binlog) : binlog'[i] = binlog[i]
        /\ \A i \in (Len(binlog) + 1) .. (Len(binlog) + Len(m)) :
             binlog'[i] = m[i - Len(binlog)] /\ i - Len(binlog) \in 1 .. Len(m)
    BY <1>4, <2>2, ConcatIndex
  <2>5. /\ \A i \in 1 .. (h + p) : binlog'[i] = binlog[i]
        /\ \A i \in (h + p + 1) .. (h + p + k) : binlog'[i] = m[i - (h + p)] /\ i - (h + p) \in 1 .. k
        /\ Len(binlog') = h + p + k
    BY <2>1, <2>2, <2>3, <2>4
  <2> QED BY <1>5, <2>1, <2>5 DEF m
<1>9. /\ h <= n /\ n <= h + p
      /\ \A i \in 1 .. h : hooked[i] = committed[i]
      /\ \A i \in 1 .. n : committed[i] = binlog[i]
  BY <1>4, <1>8 DEF Piped, IsPrefixOf
<1>10. IsPrefixOf(hooked, committed)'
  BY <1>1 DEF Piped, IsPrefixOf
<1>11. IsPrefixOf(committed, binlog)'
  <2>1. n <= h + p + k /\ \A i \in 1 .. n : i \in 1 .. (h + p)
    BY <1>4, <1>5, <1>9
  <2>2. \A i \in 1 .. n : committed[i] = binlog'[i]
    BY <1>8, <1>9, <2>1
  <2> QED BY <1>1, <1>4, <1>8, <2>1, <2>2 DEF IsPrefixOf
<1>12. Len(binlog)' = Len(hooked)' + Len(Pipe)'
  BY <1>1, <1>4, <1>5, <1>7, <1>8
<1>13. ASSUME NEW i \in 1 .. (p + k)
       PROVE  /\ binlog'[h + i] = Trx(Pipe'[i]) /\ run_hooks[Pipe'[i]]
              /\ commit_low[Pipe'[i]] <=> h + i > n
  <2>1. CASE i \in 1 .. p
    <3>1. Pipe'[i] = Pipe[i] /\ h + i \in 1 .. (h + p) /\ i \in DOMAIN Pipe
      BY <1>4, <1>7, <2>1
    <3>2. /\ binlog[h + i] = Trx(Pipe[i]) /\ run_hooks[Pipe[i]]
          /\ commit_low[Pipe[i]] <=> h + i > n
      BY <3>1 DEF Piped
    <3> QED BY <1>8, <3>1, <3>2
  <2>2. CASE i \in (p + 1) .. (p + k)
    <3>1. /\ h + i \in (h + p + 1) .. (h + p + k) /\ h + i - (h + p) = i - p /\ h + i > n
          /\ i - p \in 1 .. k
      BY <1>4, <1>5, <1>9, <2>2
    <3>2. Pipe'[i] = l[i - p] /\ binlog'[h + i] = Trx(l[i - p])
      BY <1>7, <1>8, <2>2, <3>1
    <3>3. commit_low[l[i - p]] /\ run_hooks[l[i - p]]
      BY <1>6, <3>1 DEF FreshIsUncommitted
    <3> QED BY <3>1, <3>2, <3>3
  <2> QED BY <1>4, <1>5, <2>1, <2>2
<1>14. \A i : Trx(Pipe[i])' = Trx(Pipe'[i])
  BY <1>1 DEF Trx
<1>15. \A i \in DOMAIN Pipe' :
         /\ binlog'[Len(hooked') + i] = Trx(Pipe[i])' /\ run_hooks'[Pipe'[i]]
         /\ commit_low'[Pipe'[i]] <=> Len(hooked') + i > Len(committed')
  BY <1>1, <1>7, <1>13, <1>14
<1>16. Distinct(Pipe)'
  <2> SUFFICES ASSUME NEW i \in 1 .. (p + k), NEW j \in 1 .. (p + k), Pipe'[i] = Pipe'[j]
               PROVE  i = j
    BY <1>7 DEF Distinct
  <2>1. \A q \in 1 .. p : Pipe'[q] = Pipe[q] /\ Pipe[q] \in Members(Pipe)
    BY <1>4, <1>7, PipedFacts
  <2>2. \A q \in (p + 1) .. (p + k) :
          Pipe'[q] = l[q - p] /\ q - p \in 1 .. k /\ l[q - p] \notin Members(Pipe)
    BY <1>6, <1>7
  <2>3. CASE i \in 1 .. p /\ j \in 1 .. p
    BY <1>4, <2>1, <2>3 DEF Piped, Distinct
  <2>4. CASE i \in (p + 1) .. (p + k) /\ j \in (p + 1) .. (p + k)
    <3>1. i - p = j - p
      BY <1>6, <2>2, <2>4
    <3> QED BY <1>4, <2>4, <3>1
  <2>5. CASE (i \in 1 .. p /\ j \in (p + 1) .. (p + k)) \/ (j \in 1 .. p /\ i \in (p + 1) .. (p + k))
    BY <2>1, <2>2, <2>5
  <2>6. (i \in 1 .. p \/ i \in (p + 1) .. (p + k)) /\ (j \in 1 .. p \/ j \in (p + 1) .. (p + k))
    BY <1>4, <1>5
  <2> QED BY <2>3, <2>4, <2>5, <2>6
<1> QED BY <1>10, <1>11, <1>12, <1>15, <1>16 DEF Piped

(* Nobody commits in the engine for itself. *)
LEMMA NeverFinishesInEngine ==
  ASSUME Phases, NEW t \in BinlogThds PROVE ~FinishInEngine(t)
BY DEF Phases, LeaverIsDone, Leaving, AllDone, Done, FinishInEngine

(* What the other steps do to the sessions of the pipeline. *)
LEMMA PipeUntouched ==
  ASSUME NoOrderWorkers, IInv, Linked, Phases, NothingLeft, NEW t \in BinlogThds,
         Prepare(t) \/ FlushLogs(t) \/ BinlogStep(t),
         ~WriteBinlog(t), ~AfterCommit(t), ~CommitNext(t)
  PROVE  /\ UNCHANGED <<binlog, committed, hooked>>
         /\ \A u \in BinlogThds :
              \/ OrderedCommit(t) /\ u = t
              \/ commit_low'[u] = commit_low[u] /\ run_hooks'[u] = run_hooks[u]
         /\ \A u \in Members(Pipe) :
              trx'[u] = trx[u] /\ commit_low'[u] = commit_low[u] /\ run_hooks'[u] = run_hooks[u]
<1> USE ThdsFacts
<1>1. Members(Pipe) \subseteq BinlogThds
  BY PipeRegion DEF Region
<1>2. ~FinishInEngine(t)
  BY NeverFinishesInEngine
<1>3. CASE Prepare(t)
  <2>1. t \notin Members(Pipe)
    BY <1>3, NotInPipe DEF Prepare, LeaderPcs, QueueLeaderPcs
  <2>2. UNCHANGED <<binlog, committed, hooked, commit_low, run_hooks>>
    BY <1>3 DEF Prepare, logVars, otherVars
  <2>3. \A u \in BinlogThds \ {t} : trx'[u] = trx[u]
    BY <1>3 DEF Prepare, IInv, CommitTypeOK, ThdTypeOK
  <2> QED BY <1>1, <2>1, <2>2, <2>3
<1>4. CASE OrderedCommit(t)
  <2>1. t \notin Members(Pipe)
    BY <1>4, NotInPipe DEF OrderedCommit, LeaderPcs, QueueLeaderPcs
  <2>2. UNCHANGED <<binlog, committed, hooked, trx>>
    BY <1>4 DEF OrderedCommit, logVars, engineVars, otherVars
  <2>3. \A u \in BinlogThds \ {t} : commit_low'[u] = commit_low[u] /\ run_hooks'[u] = run_hooks[u]
    BY <1>4 DEF OrderedCommit, InitThdVariables, IInv, CommitTypeOK, ThdTypeOK
  <2> QED BY <1>1, <1>4, <2>1, <2>2, <2>3
<1>5. CASE FinishCommit(t)
  <2>1. pc[t] # "finish_low"
    BY DEF NothingLeft
  <2> QED BY <1>5, <2>1 DEF FinishCommit, logVars, engineVars
<1>6. CASE ~Prepare(t) /\ ~OrderedCommit(t) /\ ~FinishCommit(t)
  <2>1. UNCHANGED <<binlog, committed, hooked, trx, commit_low, run_hooks>>
    BY <1>2, <1>6 DEF BinlogStep, FlushLogs, BinlogLeader, EnterFlush,
       FlushEngine, FinishOrderList, CloseBinlog, LeaveFlush, LeaveClosedFlush,
       EnterSync, SyncBinlog, LeaveSync, EnterCommit, AfterSyncHook, CommitGroupDone,
       LeaveCommit, EnterAfterCommit, HandleSyncError, Signal, FollowerWakes,
       RotateLock, WaitForPrepXids, NewFile, ChangeStage, EnterStage, thdVars, logVars,
       engineVars, otherVars
  <2> QED BY <2>1
<1> QED BY <1>3, <1>4, <1>5, <1>6

(* Nobody who waits to be written is committed. *)
LEMMA FreshOrdered ==
  ASSUME NoOrderWorkers, IInv, IInv', Linked, Phases, Ordered, NEW t \in BinlogThds,
         Prepare(t) \/ FlushLogs(t) \/ BinlogStep(t)
  PROVE  FreshIsUncommitted'
<1> SUFFICES ASSUME NEW u \in Fresh' PROVE commit_low'[u] /\ run_hooks'[u]
  BY DEF FreshIsUncommitted
<1>1. u \in BinlogThds
  BY DEF Fresh, Region
<1>2. CASE OrderedCommit(t) /\ u = t
  BY <1>2, ThdsFacts DEF OrderedCommit, InitThdVariables, IInv, CommitTypeOK, ThdTypeOK
<1>3. CASE u \in Fresh /\ ~(OrderedCommit(t) /\ u = t)
  <2>0. commit_low[u] /\ run_hooks[u]
    BY <1>3 DEF Ordered, FreshIsUncommitted
  <2>1. CASE WriteBinlog(t)
    BY <2>0, <2>1 DEF WriteBinlog
  <2>2. CASE CommitNext(t)
    <3>1. pc[t] \in LeaderPcs \ FlushPcs
      BY <2>2 DEF CommitNext, LeaderPcs, FlushPcs
    <3>2. PICK i \in DOMAIN list[t] : commit_low' = [commit_low EXCEPT ![list[t][i]] = FALSE]
      BY <2>2 DEF CommitNext, CommitInEngine
    <3>3. u # list[t][i]
      BY <1>3, <3>1, ListApart DEF Fresh, Members
    <3>4. commit_low'[u] = commit_low[u]
      BY <1>1, <3>2, <3>3, ThdsFacts DEF IInv, CommitTypeOK, ThdTypeOK
    <3> QED BY <2>0, <2>2, <3>4 DEF CommitNext
  <2>3. CASE AfterCommit(t)
    <3>1. pc[t] \in LeaderPcs \ FlushPcs
      BY <2>3 DEF AfterCommit, LeaderPcs, FlushPcs
    <3>2. u \notin Members(list[t])
      BY <1>3, <3>1, ListApart DEF Fresh
    <3> QED BY <1>1, <2>0, <2>3, <3>2, ThdsFacts DEF AfterCommit
  <2>4. CASE ~WriteBinlog(t) /\ ~AfterCommit(t) /\ ~CommitNext(t)
    BY <1>1, <1>3, <2>0, <2>4, PipeUntouched DEF Ordered
  <2> QED BY <2>1, <2>2, <2>3, <2>4
<1> QED BY <1>2, <1>3, FreshStep

(* No session leaves the pipeline on another way. *)
LEMMA NothingLeftStep ==
  ASSUME IInv, Sending, Phases, NothingLeft, NEW t \in BinlogThds,
         Prepare(t) \/ FlushLogs(t) \/ BinlogStep(t)
  PROVE  NothingLeft'
<1>1. Path(t, pc'[t]) /\ \A u \in BinlogThds \ {t} : pc'[u] = pc[u]
  BY Paths, ThdsFacts
<1>2. open /\ ~FinishInEngine(t) /\ pc[t] \notin {"finish_low", "to_commit_closed"}
  BY NeverFinishesInEngine DEF Sending, StaysOpen, NothingLeft
<1>3. pc'[t] \notin {"finish_low", "to_commit_closed"}
  BY <1>1, <1>2, NextStages DEF Path, FlushPcs, OutsideCommit
<1> QED BY <1>1, <1>3 DEF NothingLeft

(* Every step keeps the order. *)
LEMMA NextOrdered ==
  ASSUME NoOrderWorkers, CachesFit, SyncWorks, AlwaysOrdered, SettingsTypeOK, IInv, IInv', Linked,
         Sending, Phases, Ordered, [Next]_vars
  PROVE  Ordered'
<1>1. order_commits
  BY ConfigAssumption DEF AlwaysOrdered, SettingsTypeOK
<1>2. ASSUME NEW t \in BinlogThds, Prepare(t) \/ FlushLogs(t) \/ BinlogStep(t)
      PROVE  Ordered'
  <2>1. Piped /\ FreshIsUncommitted /\ NothingLeft
    BY DEF Ordered
  <2>2. CASE WriteBinlog(t)
    BY <1>2, <2>1, <2>2, WritePiped, FreshOrdered, NothingLeftStep DEF Ordered
  <2>3. CASE AfterCommit(t)
    BY <1>2, <2>1, <2>3, AfterCommitPiped, FreshOrdered, NothingLeftStep DEF Ordered
  <2>4. CASE CommitNext(t)
    BY <1>2, <2>1, <2>4, CommitNextPiped, FreshOrdered, NothingLeftStep DEF Ordered
  <2>5. CASE ~WriteBinlog(t) /\ ~AfterCommit(t) /\ ~CommitNext(t)
    <3>1. Pipe' = Pipe
      BY <1>1, <1>2, <2>1, <2>5, PipeStep
    <3>2. Piped'
      BY <1>2, <2>1, <2>5, <3>1, PipeUntouched, QuietPiped
    <3> QED BY <1>2, <2>1, <3>2, FreshOrdered, NothingLeftStep DEF Ordered
  <2> QED BY <2>2, <2>3, <2>4, <2>5
<1>3. CASE SetOrderCommits \/ Stop \/ UNCHANGED vars
  <2>1. UNCHANGED <<pc, queue, list, trx, commit_low, run_hooks, binlog, committed, hooked>>
    BY <1>3 DEF SetOrderCommits, Stop, vars, stageVars, leaderVars, thdVars, logVars, engineVars,
       otherVars
  <2>2. Pipe' = Pipe
    BY <2>1 DEF Pipe, ListAt
  <2>3. Piped'
    BY <2>1, <2>2, QuietPiped DEF Ordered
  <2>4. Held' = Held
    BY <2>1 DEF Held
  <2>5. Fresh' = Fresh
    BY <2>1, <2>4 DEF Fresh, Region, InRegion
  <2>6. FreshIsUncommitted' /\ NothingLeft'
    BY <2>1, <2>5 DEF Ordered, FreshIsUncommitted, NothingLeft
  <2> QED BY <2>3, <2>6 DEF Ordered
<1> QED BY <1>2, <1>3 DEF Next, NoOrderWorkers

(* At first the pipeline and the logs are empty. *)
LEMMA InitOrdered ==
  ASSUME NoOrderWorkers, Init PROVE Ordered
<1>1. \A t \in BinlogThds : pc[t] = "idle"
  BY ThdsFacts DEF Init
<1>2. \A p \in Places : Held[p] = << >>
  BY InitHeld
<1>3. Fresh = {} /\ Members(Pipe) = {}
  <2>1. \A S, C : Region(S, C) = {}
    BY <1>2 DEF Region
  <2> QED BY <2>1, PipeRegion, InitInv DEF Fresh
<1>4. DOMAIN Pipe = {} /\ Len(Pipe) = 0
  <2>1. DOMAIN Pipe = {} /\ DOMAIN Pipe = 1 .. Len(Pipe) /\ Len(Pipe) \in Nat
    BY <1>3, PipedFacts, InitInv
  <2> QED BY <2>1
<1>5. hooked = << >> /\ committed = << >> /\ binlog = << >>
  BY DEF Init
<1>6. Piped
  BY <1>4, <1>5 DEF Piped, IsPrefixOf, Distinct
<1> QED BY <1>1, <1>3, <1>6 DEF Ordered, FreshIsUncommitted, NothingLeft

(* ordered_commit, "Stage #3: Commit all transactions in order", for any   *)
(* number of sessions, rotations and groups, however they merge, and with  *)
(* failing after_sync hooks: while binlog_order_commits is never switched  *)
(* off, the engine commits in the order of the binary log and the          *)
(* after_commit hooks run in the order of the engine's commits - if the    *)
(* server stops on an error of the log, every cache can be written and no  *)
(* fsync fails.                                                            *)
THEOREM CommitOrderIsBinlogOrderHolds ==
  ASSUME NoOrderWorkers, StopsOnError, CachesFit, SyncWorks PROVE Spec => []CommitOrderIsBinlogOrder
<1>1. ASSUME AlwaysOrdered PROVE Spec => []CommitOrderIsBinlogOrder
  <2>1. Init => Phases /\ Ordered
    BY InitPhases, InitOrdered
  <2>2. SettingsTypeOK /\ IInv /\ IInv' /\ Linked /\ Phases /\ [Next]_vars => Phases'
    BY <1>1, NextPhases
  <2>3. SettingsTypeOK /\ IInv /\ IInv' /\ Linked /\ Sending /\ Phases /\ Ordered /\ [Next]_vars
        => Ordered'
    BY <1>1, NextOrdered
  <2>4. Ordered => CommitOrderIsBinlogOrder
    BY DEF Ordered, Piped, CommitOrderIsBinlogOrder
  <2>5. TypeOK => SettingsTypeOK
    BY DEF TypeOK
  <2> QED BY <2>1, <2>2, <2>3, <2>4, <2>5, Invariance, LinkedInvariance, SendingInvariance,
          TypeCorrect, PTL DEF Spec
<1>2. ASSUME ~AlwaysOrdered PROVE Spec => []CommitOrderIsBinlogOrder
  <2>1. CommitOrderIsBinlogOrder
    BY <1>2 DEF CommitOrderIsBinlogOrder
  <2> QED BY <2>1, PTL
<1> QED BY <1>1, <1>2

-----------------------------------------------------------------------------
(***************************************************************************)
(* A transaction is logged once.                                           *)
(***************************************************************************)

(* A session whose transaction nobody tried to write yet. *)
Unwritten(u) == u \in Fresh \/ pc[u] = "prepared"

UnwrittenIsNew == \A u \in BinlogThds : Unwritten(u) => ~InLog(u)

LoggedWasBegun == \A i \in DOMAIN binlog : binlog[i][2] <= trx[binlog[i][1]]

LoggedOnce == Distinct(binlog) /\ LoggedWasBegun /\ UnwrittenIsNew

(* The log grows only in the write step, transactions begin in Prepare. *)
LEMMA LogCases ==
  ASSUME NEW t \in BinlogThds, Prepare(t) \/ FlushLogs(t) \/ BinlogStep(t)
  PROVE  /\ WriteBinlog(t) \/ UNCHANGED binlog
         /\ Prepare(t) \/ UNCHANGED trx
<1>1. WriteBinlog(t) \/ UNCHANGED binlog
  BY DEF BinlogStep, Prepare, FlushLogs, OrderedCommit, BinlogLeader, EnterFlush,
     FlushEngine, FinishOrderList, CloseBinlog, LeaveFlush, LeaveClosedFlush,
     EnterSync, SyncBinlog, LeaveSync, EnterCommit, AfterSyncHook, CommitNext, CommitGroupDone,
     LeaveCommit, EnterAfterCommit, AfterCommit, HandleSyncError, Signal, FollowerWakes,
     FinishInEngine, FinishCommit, RotateLock, WaitForPrepXids, NewFile, ChangeStage, EnterStage,
     logVars
<1>2. Prepare(t) \/ UNCHANGED trx
  BY CountCases DEF WriteBinlog, CommitGroupDone, FinishCommit, OrderedCommit
<1> QED BY <1>1, <1>2

(* What a write adds to the log: transactions of the list, none of them twice. *)
LEMMA WriteAdds ==
  ASSUME NoOrderWorkers, IInv, Linked, NEW t \in BinlogThds, WriteBinlog(t)
  PROVE  \E written \in Seq(BinlogThds) :
           /\ Distinct(written) /\ Members(written) \subseteq Members(list[t])
           /\ Len(binlog) \in Nat /\ Len(written) \in Nat
           /\ DOMAIN binlog = 1 .. Len(binlog) /\ DOMAIN written = 1 .. Len(written)
           /\ DOMAIN binlog' = 1 .. (Len(binlog) + Len(written))
           /\ \A i \in 1 .. Len(binlog) : binlog'[i] = binlog[i]
           /\ \A i \in (Len(binlog) + 1) .. (Len(binlog) + Len(written)) :
                /\ i - Len(binlog) \in 1 .. Len(written)
                /\ binlog'[i] = Trx(written[i - Len(binlog)])
<1>1. PICK written \in Subsequences(list[t]) : FlushThreadCaches(written)
  BY DEF WriteBinlog
<1>2. list[t] \in Seq(BinlogThds) /\ pc[t] \in LeaderPcs /\ binlog \in Seq(Trxs)
  BY DEF WriteBinlog, LeaderPcs, IInv, CommitTypeOK, LeaderTypeOK, LogTypeOK
<1>3. Distinct(list[t])
  BY <1>2, ListDistinct
<1>4. /\ written \in Seq(BinlogThds) /\ Distinct(written)
      /\ Members(written) \subseteq Members(list[t])
  BY <1>1, <1>2, <1>3, SubsequenceMembers
<1> DEFINE s == TrxSeq(written)
<1>5. s \in Seq(Trxs) /\ binlog' = binlog \o s
  BY <1>1, <1>4, TrxSeqType DEF FlushThreadCaches
<1>6. /\ DOMAIN s = DOMAIN written /\ \A i \in DOMAIN written : s[i] = Trx(written[i])
  BY DEF TrxSeq
<1>7. /\ DOMAIN written = 1 .. Len(written) /\ Len(written) \in Nat
      /\ DOMAIN s = 1 .. Len(s) /\ Len(s) \in Nat
      /\ DOMAIN binlog = 1 .. Len(binlog) /\ Len(binlog) \in Nat
  BY <1>2, <1>4, <1>5, LenProperties
<1> HIDE DEF s
<1>8. Len(s) = Len(written)
  BY <1>6, <1>7
<1>9. /\ DOMAIN binlog' = 1 .. (Len(binlog) + Len(s))
      /\ \A i \in 1 .. Len(binlog) : binlog'[i] = binlog[i]
      /\ \A i \in (Len(binlog) + 1) .. (Len(binlog) + Len(s)) : binlog'[i] = s[i - Len(binlog)]
  BY <1>2, <1>5, ConcatIndex
<1>10. \A i \in (Len(binlog) + 1) .. (Len(binlog) + Len(written)) :
         i - Len(binlog) \in 1 .. Len(written)
  BY <1>7
<1>11. \A i \in (Len(binlog) + 1) .. (Len(binlog) + Len(written)) :
         binlog'[i] = Trx(written[i - Len(binlog)])
  BY <1>6, <1>7, <1>8, <1>9, <1>10
<1> QED BY <1>4, <1>7, <1>8, <1>9, <1>10, <1>11

(* A session in the list of a leader outside a region is not in it, after a step. *)
LEMMA ListApartAfter ==
  ASSUME NoOrderWorkers, IInv', Linked', NEW CONSTANT S, NEW CONSTANT C, NEW t \in BinlogThds,
         pc'[t] \in LeaderPcs \ C
  PROVE  Members(list'[t]) \cap Region(S, C)' = {}
<1> SUFFICES ASSUME NEW u \in Members(list'[t]), u \in Region(S, C)' PROVE FALSE
  OBVIOUS
<1> DEFINE r == <<"list", t>>
<1>1. PICK i \in DOMAIN Held'[r] : Held'[r][i] = u
  BY HeldAfter DEF Members
<1>2. PICK p \in Places : InRegion(S, C, p)' /\ \E k \in DOMAIN Held'[p] : Held'[p][k] = u
  BY DEF Region
<1>3. DOMAIN Held' = Places /\ r \in Places
  BY HeldAfter, PlaceCases
<1>4. Once(Held')
  BY DEF Linked, Once
<1>5. p = r
  <2> HIDE DEF r, Held
  <2> QED BY <1>1, <1>2, <1>3, <1>4 DEF Once
<1> QED BY <1>2, <1>5, PlaceCases DEF InRegion

(* The log is written once, by one leader for each session. *)
LEMMA WriteOnce ==
  ASSUME NoOrderWorkers, IInv, IInv', Linked, Linked', LoggedOnce, NEW t \in BinlogThds,
         WriteBinlog(t)
  PROVE  LoggedOnce'
<1> DEFINE n == Len(binlog)
<1>1. PICK written \in Seq(BinlogThds) :
           /\ Distinct(written) /\ Members(written) \subseteq Members(list[t])
           /\ n \in Nat /\ Len(written) \in Nat
           /\ DOMAIN binlog = 1 .. n /\ DOMAIN written = 1 .. Len(written)
           /\ DOMAIN binlog' = 1 .. (n + Len(written))
           /\ \A i \in 1 .. n : binlog'[i] = binlog[i]
           /\ \A i \in (n + 1) .. (n + Len(written)) :
                i - n \in 1 .. Len(written) /\ binlog'[i] = Trx(written[i - n])
  BY WriteAdds
<1> HIDE DEF n
<1>2. pc[t] \in LeaderPcs \cap FlushPcs /\ trx' = trx
  BY DEF WriteBinlog, LeaderPcs, FlushPcs
<1>3. pc'[t] \in LeaderPcs \ FlushPcs /\ pc'[t] # "prepared" /\ list' = list
      /\ \A u \in BinlogThds \ {t} : pc'[u] = pc[u]
  BY ThdsFacts DEF WriteBinlog, Goto, LeaderPcs, FlushPcs, IInv, CommitTypeOK, StageTypeOK, PcTypeOK
<1>4. Members(list[t]) \subseteq Fresh
  BY <1>2, ListRegion DEF Fresh
<1>5. Members(list[t]) \cap Fresh' = {}
  <2>1. Members(list'[t]) \cap Region({"BINLOG_FLUSH"}, FlushPcs)' = {}
    BY <1>3, ListApartAfter DEF FlushPcs
  <2> QED BY <1>3, <2>1 DEF Fresh
<1>6. ASSUME NEW u \in BinlogThds PROVE Trx(u)' = Trx(u) /\ Trx(u)[1] = u /\ Trx(u)[2] = trx[u]
  BY <1>2 DEF Trx
<1>7. \A i \in 1 .. n : binlog[i] \in Trxs
  BY <1>1, ElementOfSeq DEF IInv, CommitTypeOK, LogTypeOK, n
<1>8. ASSUME NEW i \in (n + 1) .. (n + Len(written))
      PROVE  \E u \in Members(list[t]) : u = written[i - n] /\ u \in BinlogThds /\ binlog'[i] = Trx(u)
  <2>1. written[i - n] \in Members(written)
    BY <1>1, <1>8 DEF Members
  <2> QED BY <1>1, <1>8, <2>1
<1>9. \A i \in DOMAIN binlog' : i \in 1 .. n \/ i \in (n + 1) .. (n + Len(written))
  BY <1>1
<1>10. ASSUME NEW i \in 1 .. n, NEW j \in (n + 1) .. (n + Len(written)) PROVE binlog'[i] # binlog'[j]
  <2>1. PICK u \in Members(list[t]) : u \in BinlogThds /\ binlog'[j] = Trx(u)
    BY <1>8, <1>10
  <2>2. ~InLog(u)
    BY <1>4, <2>1 DEF LoggedOnce, UnwrittenIsNew, Unwritten
  <2> QED BY <1>1, <2>1, <2>2 DEF InLog
<1>11. ASSUME NEW i \in (n + 1) .. (n + Len(written)), NEW j \in (n + 1) .. (n + Len(written)),
              binlog'[i] = binlog'[j]
       PROVE  i = j
  <2>1. written[i - n] = written[j - n]
    BY <1>6, <1>8, <1>11
  <2>2. i - n = j - n
    BY <1>1, <2>1 DEF Distinct
  <2> QED BY <1>1, <2>2
<1>12. Distinct(binlog)'
  BY <1>1, <1>9, <1>10, <1>11 DEF LoggedOnce, Distinct
<1>13. LoggedWasBegun'
  <2> SUFFICES ASSUME NEW i \in DOMAIN binlog' PROVE binlog'[i][2] <= trx[binlog'[i][1]]
    BY <1>2 DEF LoggedWasBegun
  <2>1. CASE i \in 1 .. n
    BY <1>1, <2>1 DEF LoggedOnce, LoggedWasBegun
  <2>2. CASE i \in (n + 1) .. (n + Len(written))
    <3>1. PICK u \in BinlogThds : binlog'[i] = Trx(u)
      BY <1>8, <2>2
    <3>2. trx[u] \in Nat
      BY ThdsFacts DEF IInv, CommitTypeOK, ThdTypeOK
    <3> QED BY <1>6, <3>1, <3>2
  <2> QED BY <1>9, <2>1, <2>2
<1>14. UnwrittenIsNew'
  <2> SUFFICES ASSUME NEW u \in BinlogThds, Unwritten(u)', NEW i \in DOMAIN binlog',
                      binlog'[i] = Trx(u)
               PROVE  FALSE
    BY <1>6 DEF UnwrittenIsNew, InLog
  <2>1. u \in Fresh' \/ (pc'[u] = "prepared" /\ pc[u] = "prepared")
    BY <1>3 DEF Unwritten
  <2>2. u \notin Members(list[t])
    <3>1. CASE u \in Fresh'
      BY <1>5, <3>1
    <3>2. CASE pc[u] = "prepared"
      <4>1. u \notin Fresh
        BY <3>2, OutsideRegion DEF Fresh, LeaderPcs, QueueLeaderPcs
      <4> QED BY <1>4, <4>1
    <3> QED BY <2>1, <3>1, <3>2
  <2>3. Unwritten(u)
    <3>1. CASE u \in Fresh'
      <4>1. u \in Fresh \/ (OrderedCommit(t) /\ u = t)
        BY <3>1, FreshStep DEF BinlogStep
      <4>2. ~OrderedCommit(t)
        BY DEF WriteBinlog, OrderedCommit
      <4> QED BY <4>1, <4>2 DEF Unwritten
    <3> QED BY <2>1, <3>1 DEF Unwritten
  <2>4. CASE i \in 1 .. n
    BY <1>1, <2>3, <2>4 DEF LoggedOnce, UnwrittenIsNew, InLog
  <2>5. CASE i \in (n + 1) .. (n + Len(written))
    BY <1>6, <1>8, <2>2, <2>5
  <2> QED BY <1>9, <2>4, <2>5
<1> QED BY <1>12, <1>13, <1>14 DEF LoggedOnce

(* Every step keeps the log without repetitions. *)
LEMMA NextLoggedOnce ==
  ASSUME NoOrderWorkers, IInv, IInv', Linked, Linked', LoggedOnce, [Next]_vars
  PROVE  LoggedOnce'
<1>1. ASSUME NEW t \in BinlogThds, Prepare(t) \/ FlushLogs(t) \/ BinlogStep(t), ~WriteBinlog(t)
      PROVE  LoggedOnce'
  <2>1. binlog' = binlog
    BY <1>1, LogCases
  <2>2. /\ \A u \in BinlogThds : trx[u] \in Nat /\ trx'[u] \in Nat /\ trx[u] <= trx'[u]
        /\ \A u \in BinlogThds \ {t} : trx'[u] = trx[u]
        /\ ~Prepare(t) => trx' = trx
    <3>1. CASE Prepare(t)
      BY <3>1, ThdsFacts DEF Prepare, IInv, CommitTypeOK, ThdTypeOK
    <3>2. CASE ~Prepare(t)
      <4>1. trx' = trx
        BY <1>1, <3>2, LogCases
      <4> QED BY <4>1, ThdsFacts DEF IInv, CommitTypeOK, ThdTypeOK
    <3> QED BY <3>1, <3>2
  <2>3. \A i \in DOMAIN binlog : binlog[i][1] \in BinlogThds /\ binlog[i][2] \in Nat
    BY ElementOfSeq DEF IInv, CommitTypeOK, LogTypeOK, Trxs
  <2>4. Distinct(binlog)' /\ LoggedWasBegun'
    BY <2>1, <2>2, <2>3 DEF LoggedOnce, Distinct, LoggedWasBegun
  <2>5. UnwrittenIsNew'
    <3> SUFFICES ASSUME NEW u \in BinlogThds, Unwritten(u)', NEW i \in DOMAIN binlog,
                        binlog[i] = Trx(u)'
                 PROVE  FALSE
      BY <2>1 DEF UnwrittenIsNew, InLog
    <3>1. binlog[i][1] = u /\ binlog[i][2] = trx'[u]
      BY DEF Trx
    <3>2. CASE Prepare(t) /\ u = t
      <4>1. trx'[u] = trx[u] + 1
        BY <3>2, ThdsFacts DEF Prepare, IInv, CommitTypeOK, ThdTypeOK
      <4>2. trx'[u] <= trx[u]
        BY <3>1 DEF LoggedOnce, LoggedWasBegun
      <4> QED BY <2>2, <4>1, <4>2
    <3>3. CASE ~(Prepare(t) /\ u = t)
      <4>1. Trx(u)' = Trx(u)
        BY <2>2, <3>3 DEF Trx
      <4>2. Unwritten(u)
        <5>1. CASE u \in Fresh'
          <6>1. u \in Fresh \/ (OrderedCommit(t) /\ u = t)
            BY <1>1, <5>1, FreshStep
          <6> QED BY <6>1 DEF Unwritten, OrderedCommit
        <5>2. CASE pc'[u] = "prepared"
          <6>1. CASE u # t
            BY <1>1, <5>2, <6>1, Paths, ThdsFacts DEF Unwritten
          <6>2. CASE u = t
            <7>1. Path(t, "prepared")
              BY <1>1, <5>2, <6>2, Paths, ThdsFacts
            <7>2. StillAction(t) => pc[t] # "prepared"
              BY DEF StillAction, CommitNext, HandleSyncError
            <7> QED BY <3>3, <6>2, <7>1, <7>2, NextStages DEF Path, FlushPcs, OutsideCommit
          <6> QED BY <6>1, <6>2
        <5> QED BY <5>1, <5>2 DEF Unwritten
      <4> QED BY <4>1, <4>2 DEF LoggedOnce, UnwrittenIsNew, InLog
    <3> QED BY <3>2, <3>3
  <2> QED BY <2>4, <2>5 DEF LoggedOnce
<1>2. ASSUME NEW t \in BinlogThds, WriteBinlog(t) PROVE LoggedOnce'
  BY <1>2, WriteOnce
<1>3. CASE SetOrderCommits \/ Stop \/ UNCHANGED vars
  <2>1. UNCHANGED <<pc, queue, list, trx, binlog>>
    BY <1>3 DEF SetOrderCommits, Stop, vars, stageVars, leaderVars, thdVars, logVars
  <2>2. Held' = Held
    BY <2>1 DEF Held
  <2>3. Fresh' = Fresh
    BY <2>1, <2>2 DEF Fresh, Region, InRegion
  <2> QED BY <2>1, <2>3 DEF LoggedOnce, Distinct, LoggedWasBegun, UnwrittenIsNew, Unwritten, InLog, Trx
<1> QED BY <1>1, <1>2, <1>3 DEF Next, NoOrderWorkers

(* The log is without repetitions in every behaviour. *)
LEMMA LoggedOnceInvariance ==
  ASSUME NoOrderWorkers PROVE Spec => []LoggedOnce
<1>1. Init => LoggedOnce
  <2> SUFFICES ASSUME Init PROVE LoggedOnce
    OBVIOUS
  <2>1. binlog = << >> /\ DOMAIN binlog = {}
    BY DEF Init
  <2> QED BY <2>1 DEF LoggedOnce, Distinct, LoggedWasBegun, UnwrittenIsNew, InLog
<1>2. IInv /\ IInv' /\ Linked /\ Linked' /\ LoggedOnce /\ [Next]_vars => LoggedOnce'
  BY NextLoggedOnce
<1> QED BY <1>1, <1>2, Invariance, LinkedInvariance, PTL DEF Spec

-----------------------------------------------------------------------------
(***************************************************************************)
(* The group commit implements CommitLog.                                  *)
(***************************************************************************)

(* The beginning of a sequence. *)
LEMMA Beginnings ==
  ASSUME NEW S, NEW s \in Seq(S), NEW n \in 0 .. Len(s)
  PROVE  /\ SubSeq(s, 1, n) \in Seq(S) /\ Len(SubSeq(s, 1, n)) = n
         /\ DOMAIN SubSeq(s, 1, n) = 1 .. n
         /\ \A i \in 1 .. n : SubSeq(s, 1, n)[i] = s[i]
<1>1. Len(s) \in Nat /\ n \in Nat /\ \A i \in 1 .. n : s[i] \in S
  BY LenProperties, ElementOfSeq
<1> DEFINE u == SubSeq(s, 1, n)
<1>2. /\ u \in Seq(S) /\ Len(u) = IF 1 <= n THEN n - 1 + 1 ELSE 0
      /\ \A i \in 1 .. n - 1 + 1 : u[i] = s[1 + i - 1]
  BY <1>1, SubSeqProperties
<1>3. Len(u) = n
  BY <1>1, <1>2
<1>4. DOMAIN u = 1 .. n
  BY <1>2, <1>3, LenProperties
<1>5. \A i \in 1 .. n : i \in 1 .. n - 1 + 1 /\ 1 + i - 1 = i
  BY <1>1
<1> HIDE DEF u
<1>6. \A i \in 1 .. n : u[i] = s[i]
  BY <1>2, <1>5
<1> QED BY <1>2, <1>3, <1>4, <1>6 DEF u

(* A write is the WriteGroup of the abstract log. *)
LEMMA WriteSimulates ==
  ASSUME NoOrderWorkers, CachesFit, IInv, IInv', Linked, LoggedOnce', NEW t \in BinlogThds,
         WriteBinlog(t), UNCHANGED <<synced, committed, Finished>>
  PROVE  Abstract!WriteGroup
<1> DEFINE n == Len(binlog)
           m == Len(binlog')
<1>1. /\ binlog \in Seq(Trxs) /\ binlog' \in Seq(Trxs) /\ n \in Nat /\ m \in Nat
      /\ DOMAIN binlog = 1 .. n /\ DOMAIN binlog' = 1 .. m
  BY LenProperties DEF IInv, CommitTypeOK, LogTypeOK
<1>2. /\ list[t] \in Seq(BinlogThds) /\ list[t] # << >>
  BY DEF WriteBinlog, LeaderPcs, IInv, CommitTypeOK, LeaderTypeOK, Structure, LeaderHeadsList
<1>3. Len(list[t]) \in Nat /\ Len(list[t]) > 0 /\ DOMAIN list[t] = 1 .. Len(list[t])
  BY <1>2, EmptySeq, LenProperties
<1>4. TrxSeq(list[t]) \in Seq(Trxs) /\ Len(TrxSeq(list[t])) = Len(list[t])
  <2>1. TrxSeq(list[t]) \in Seq(Trxs) /\ DOMAIN TrxSeq(list[t]) = DOMAIN list[t]
    BY <1>2, TrxSeqType DEF TrxSeq
  <2>2. Len(TrxSeq(list[t])) \in Nat /\ DOMAIN TrxSeq(list[t]) = 1 .. Len(TrxSeq(list[t]))
    BY <2>1, LenProperties
  <2> QED BY <1>3, <2>1, <2>2
<1>5. binlog' = binlog \o TrxSeq(list[t])
  BY WriteWhole
<1>6. m = n + Len(list[t]) /\ \A i \in 1 .. n : binlog'[i] = binlog[i]
  <2>1. \A a, b \in Seq(Trxs) :
          Len(a \o b) = Len(a) + Len(b) /\ \A i \in 1 .. Len(a) : (a \o b)[i] = a[i]
    BY ConcatProperties, LenProperties
  <2> DEFINE z == TrxSeq(list[t])
  <2>2. z \in Seq(Trxs) /\ Len(z) = Len(list[t]) /\ binlog' = binlog \o z
    BY <1>4, <1>5
  <2> HIDE DEF z
  <2>3. Len(binlog \o z) = n + Len(z) /\ \A i \in 1 .. n : (binlog \o z)[i] = binlog[i]
    BY <1>1, <2>1, <2>2
  <2> QED BY <2>2, <2>3
<1> HIDE DEF n, m
<1>7. n < m /\ n \in 0 .. m
  BY <1>1, <1>3, <1>6
<1>8. SubSeq(binlog', 1, n) = binlog
  <2>1. /\ SubSeq(binlog', 1, n) \in Seq(Trxs) /\ Len(SubSeq(binlog', 1, n)) = n
        /\ \A i \in 1 .. n : SubSeq(binlog', 1, n)[i] = binlog[i]
    BY <1>1, <1>6, <1>7, Beginnings DEF m
  <2> QED BY <1>1, <2>1, SeqEqual DEF n
<1>9. ASSUME NEW i \in (n + 1) .. m
      PROVE  binlog'[i] \in Trxs /\ ~Abstract!Occurs(binlog'[i], SubSeq(binlog', 1, i - 1))
  <2>1. i \in 1 .. m /\ i - 1 \in 0 .. m /\ \A j \in 1 .. (i - 1) : j \in 1 .. m /\ j # i
    BY <1>1
  <2>2. /\ DOMAIN SubSeq(binlog', 1, i - 1) = 1 .. (i - 1)
        /\ \A j \in 1 .. (i - 1) : SubSeq(binlog', 1, i - 1)[j] = binlog'[j]
    BY <1>1, <2>1, Beginnings DEF m
  <2>3. \A j \in 1 .. (i - 1) : binlog'[j] # binlog'[i]
    BY <1>1, <2>1 DEF LoggedOnce, Distinct
  <2>4. binlog'[i] \in Trxs
    BY <1>1, <2>1, ElementOfSeq
  <2> QED BY <2>2, <2>3, <2>4 DEF Abstract!Occurs
<1> QED BY <1>7, <1>8, <1>9 DEF Abstract!WriteGroup, n, m

(* A commit in the engine makes the next durable transaction visible. *)
LEMMA CommitSimulates ==
  ASSUME NoOrderWorkers, IInv, IInv', Linked, Sending, Durable, LoggedOnce, Ordered',
         NEW t \in BinlogThds, CommitNext(t), UNCHANGED Finished
  PROVE  Abstract!MakeVisible
<1>1. PICK i \in DOMAIN list[t] : CommitInEngine(list[t][i])
  BY DEF CommitNext
<1> DEFINE u == list[t][i]
           n == Len(committed)
<1>2. UNCHANGED <<binlog, synced, trx>> /\ pc[t] \in LeaderPcs \cap SyncedPcs
  BY DEF CommitNext, logVars, LeaderPcs, SyncedPcs
<1>3. u \in Members(list[t]) /\ u \in BinlogThds
  BY DEF Members, IInv, CommitTypeOK, LeaderTypeOK
<1>4. Lasts(u)
  BY <1>2, <1>3, ListRegion DEF Synced, Durable, SyncedLasts
<1>5. committed' = Append(committed, Trx(u)) /\ committed \in Seq(Trxs) /\ n \in Nat
      /\ Trx(u) \in Trxs
  BY <1>1, <1>3, LenProperties, ThdsFacts
     DEF CommitInEngine, Trx, Trxs, IInv, CommitTypeOK, EngineTypeOK, ThdTypeOK
<1> HIDE DEF u, n
<1>6. DOMAIN committed' = 1 .. (n + 1) /\ Len(committed') = n + 1 /\ committed'[n + 1] = Trx(u)
  BY <1>5, AppendProperties, LenProperties DEF n
<1>7. IsPrefixOf(committed, binlog)'
  BY DEF Ordered, Piped
<1>8. n + 1 \in DOMAIN committed' /\ n + 1 <= Len(binlog) /\ binlog[n + 1] = Trx(u)
  BY <1>2, <1>5, <1>6, <1>7 DEF IsPrefixOf
<1>9. /\ DOMAIN binlog = 1 .. Len(binlog) /\ Len(binlog) \in Nat /\ synced \in Nat
      /\ synced <= Len(binlog)
  BY LenProperties DEF IInv, CommitTypeOK, LogTypeOK, Sending, SyncedIsWritten
<1>10. PICK k \in 1 .. synced : binlog[k] = Trx(u)
  BY <1>4 DEF Lasts
<1>11. k \in DOMAIN binlog /\ n + 1 \in DOMAIN binlog
  BY <1>5, <1>8, <1>9
<1>12. k = n + 1
  BY <1>8, <1>10, <1>11 DEF LoggedOnce, Distinct
<1>13. n < synced
  BY <1>5, <1>9, <1>12
<1> QED BY <1>2, <1>5, <1>8, <1>13 DEF Abstract!MakeVisible, n

(* What a session does that is not inside a commit. *)
LEMMA OutsideSteps ==
  ASSUME NEW t \in BinlogThds, Prepare(t) \/ FlushLogs(t) \/ BinlogStep(t), pc[t] \in OutsideCommit
  PROVE  Prepare(t) \/ FlushLogs(t) \/ RotateLock(t) \/ WaitForPrepXids(t) \/ NewFile(t)
BY DEF OutsideCommit, BinlogStep, OrderedCommit, BinlogLeader, BinlogLeaderWakes, EnterFlush,
   FlushEngine, FinishOrderList, WriteBinlog, CloseBinlog, LeaveFlush, LeaveClosedFlush, EnterSync,
   SyncBinlog, LeaveSync, EnterCommit, AfterSyncHook, CommitNext, CommitGroupDone, LeaveCommit,
   EnterAfterCommit, AfterCommit, HandleSyncError, Signal, FollowerWakes, FinishInEngine,
   FinishCommit, ChangeStage, EnterStage

(* Who is told that its commit is over. *)
LEMMA FinishedStep ==
  ASSUME IInv, IInv', Counted, NEW t \in BinlogThds, Prepare(t) \/ FlushLogs(t) \/ BinlogStep(t)
  PROVE  /\ ~FinishCommit(t) => Finished' = Finished
         /\ FinishCommit(t) => Finished' = Finished \cup {Trx(t)} /\ Trx(t) \notin Finished
<1> DEFINE Ends(u, n) == n < trx[u] \/ pc[u] \in OutsideCommit
           NowEnds(u, n) == n < trx'[u] \/ pc'[u] \in OutsideCommit
<1>1. /\ Finished = UNION {{<<u, n>> : n \in {k \in 1 .. trx[u] : Ends(u, k)}} : u \in BinlogThds}
      /\ Finished' = UNION {{<<u, n>> : n \in {k \in 1 .. trx'[u] : NowEnds(u, k)}} : u \in BinlogThds}
  BY DEF Finished
<1>2. \A u \in BinlogThds : trx[u] \in Nat /\ trx'[u] \in Nat
  BY ThdsFacts DEF IInv, CommitTypeOK, ThdTypeOK
<1>3. Path(t, pc'[t]) /\ \A u \in BinlogThds \ {t} : pc'[u] = pc[u]
  BY Paths, ThdsFacts
<1>4. CASE Prepare(t)
  <2>1. /\ trx'[t] = trx[t] + 1 /\ pc[t] = "idle" /\ pc'[t] = "prepared"
        /\ \A u \in BinlogThds \ {t} : trx'[u] = trx[u]
    BY <1>4, ThdsFacts DEF Prepare, Goto, IInv, CommitTypeOK, ThdTypeOK, StageTypeOK, PcTypeOK
  <2>2. ASSUME NEW u \in BinlogThds
        PROVE  {k \in 1 .. trx[u] : Ends(u, k)} = {k \in 1 .. trx'[u] : NowEnds(u, k)}
    <3>1. CASE u = t
      BY <1>2, <2>1, <3>1 DEF OutsideCommit
    <3>2. CASE u # t
      BY <1>3, <2>1, <3>2
    <3> QED BY <3>1, <3>2
  <2>3. ~FinishCommit(t)
    BY <1>4 DEF Prepare, FinishCommit
  <2> HIDE DEF Ends, NowEnds
  <2> QED BY <1>1, <2>2, <2>3
<1>5. CASE ~Prepare(t)
  <2>1. trx' = trx
    BY <1>5, LogCases
  <2>2. CASE ~FinishCommit(t)
    <3>1. pc'[t] \in OutsideCommit <=> pc[t] \in OutsideCommit
      <4>1. ASSUME pc'[t] \in OutsideCommit PROVE pc[t] \in OutsideCommit
        <5>1. StillAction(t) => pc[t] \in {"commit", "sync_error"} /\ pc'[t] = pc[t]
          BY <1>3, StillActions DEF StillAction, CommitNext, HandleSyncError, stageVars
        <5> QED BY <1>3, <2>2, <4>1, <5>1, NextStages DEF Path, FlushPcs, OutsideCommit
      <4>2. ASSUME pc[t] \in OutsideCommit PROVE pc'[t] \in OutsideCommit
        <5>1. FlushLogs(t) \/ RotateLock(t) \/ WaitForPrepXids(t) \/ NewFile(t)
          BY <1>5, <4>2, OutsideSteps
        <5> QED BY <5>1, ThdsFacts DEF FlushLogs, RotateLock, WaitForPrepXids, NewFile,
                RequestRotation, Goto, OutsideCommit, IInv, CommitTypeOK, StageTypeOK, PcTypeOK
      <4> QED BY <4>1, <4>2
    <3>2. \A u \in BinlogThds : pc'[u] \in OutsideCommit <=> pc[u] \in OutsideCommit
      BY <1>3, <3>1
    <3> QED BY <1>1, <2>1, <2>2, <3>2
  <2>3. CASE FinishCommit(t)
    <3>1. pc'[t] \in OutsideCommit /\ pc[t] \notin OutsideCommit
      BY <2>3, ThdsFacts DEF FinishCommit, RequestRotation, Goto, OutsideCommit, IInv, CommitTypeOK,
         StageTypeOK, PcTypeOK
    <3>2. trx[t] \in 1 .. trx[t]
      BY <1>2, <3>1 DEF Counted, BegunInCommit
    <3>3. {k \in 1 .. trx'[t] : NowEnds(t, k)} = {k \in 1 .. trx[t] : Ends(t, k)} \cup {trx[t]}
      BY <1>2, <2>1, <3>1, <3>2
    <3>4. trx[t] \notin {k \in 1 .. trx[t] : Ends(t, k)}
      BY <1>2, <3>1
    <3>5. \A u \in BinlogThds \ {t} :
            {k \in 1 .. trx'[u] : NowEnds(u, k)} = {k \in 1 .. trx[u] : Ends(u, k)}
      BY <1>3, <2>1
    <3> HIDE DEF Ends, NowEnds
    <3>6. Trx(t) \notin Finished
      BY <1>1, <3>4 DEF Trx
    <3>7. Finished' = Finished \cup {Trx(t)}
      BY <1>1, <3>3, <3>5 DEF Trx
    <3> QED BY <2>3, <3>6, <3>7
  <2> QED BY <2>2, <2>3
<1> QED BY <1>4, <1>5

(* A step of the group commit is a step of the abstract log, or none. *)
LEMMA StepSimulation ==
  ASSUME NoOrderWorkers, StopsOnError, CachesFit, SyncWorks, AlwaysOrdered, SyncPeriod = 1,
         IInv, IInv', Linked, Sending, Account, Account', Counted, Phases, Durable, LoggedOnce,
         LoggedOnce', Ordered', [Next]_vars
  PROVE  [Abstract!Next]_(Abstract!vars)
<1>1. ASSUME server = "up", NEW t \in BinlogThds, Prepare(t) \/ FlushLogs(t) \/ BinlogStep(t)
      PROVE  Abstract!Next \/ UNCHANGED <<binlog, synced, committed, Finished>>
  <2>1. CASE WriteBinlog(t)
    <3>1. UNCHANGED <<synced, committed>> /\ ~FinishCommit(t)
      BY <2>1 DEF WriteBinlog, engineVars, FinishCommit
    <3>2. UNCHANGED Finished
      BY <1>1, <3>1, FinishedStep
    <3> QED BY <2>1, <3>1, <3>2, WriteSimulates DEF Abstract!Next
  <2>2. CASE CommitNext(t)
    <3>1. ~FinishCommit(t)
      BY <2>2 DEF CommitNext, FinishCommit
    <3>2. UNCHANGED Finished
      BY <1>1, <3>1, FinishedStep
    <3> QED BY <2>2, <3>2, CommitSimulates DEF Abstract!Next
  <2>3. CASE FinishCommit(t)
    <3>1. UNCHANGED <<binlog, synced, committed>>
      BY <2>3 DEF FinishCommit, logVars, engineVars
    <3>2. Finished' = Finished \cup {Trx(t)} /\ Trx(t) \notin Finished
      BY <1>1, <2>3, FinishedStep
    <3>3. Trx(t) \in Members(committed)
      <4>1. ~Uncommitted(t) /\ pc[t] \notin OutsideCommit
        BY <2>3 DEF FinishCommit, Uncommitted, OutsideCommit, Account, FlagInCommit, InCommit
      <4>2. trx[t] \in 1 .. trx[t]
        BY <4>1, ThdsFacts DEF Counted, BegunInCommit, IInv, CommitTypeOK, ThdTypeOK
      <4> QED BY <4>1, <4>2 DEF Account, RestIsCommitted, Trx
    <3>4. PICK i \in DOMAIN committed : committed[i] = Trx(t)
      BY <3>3 DEF Members
    <3>5. Abstract!Report
      BY <3>1, <3>2, <3>4 DEF Abstract!Report
    <3> QED BY <3>5 DEF Abstract!Next
  <2>4. CASE SyncBinlog(t) \/ NewFile(t)
    <3>1. UNCHANGED <<binlog, committed>> /\ synced' \in {synced, Len(binlog)} /\ ~FinishCommit(t)
      BY <2>4 DEF SyncBinlog, NewFile, engineVars, FinishCommit
    <3>2. UNCHANGED Finished
      BY <1>1, <3>1, FinishedStep
    <3>3. synced \in Nat /\ Len(binlog) \in Nat /\ synced <= Len(binlog)
      BY LenProperties DEF IInv, CommitTypeOK, LogTypeOK, Sending, SyncedIsWritten
    <3>4. CASE synced' # synced
      <4>1. synced' \in (synced + 1) .. Len(binlog)
        BY <3>1, <3>3, <3>4
      <4> QED BY <3>1, <3>2, <4>1 DEF Abstract!MakeDurable, Abstract!Next
    <3> QED BY <3>1, <3>2, <3>4
  <2>5. ~CloseBinlog(t) /\ ~FinishInEngine(t)
    BY <1>1, NeverFinishesInEngine DEF CloseBinlog, Sending, StaysOpen
  <2>6. CASE ~WriteBinlog(t) /\ ~CommitNext(t) /\ ~FinishCommit(t) /\ ~SyncBinlog(t) /\ ~NewFile(t)
    <3>1. UNCHANGED <<binlog, synced, committed>>
      BY <1>1, <2>5, <2>6 DEF BinlogStep, Prepare, FlushLogs, OrderedCommit, BinlogLeader, EnterFlush,
         FlushEngine, FinishOrderList, LeaveFlush, LeaveClosedFlush, EnterSync, LeaveSync,
         EnterCommit, AfterSyncHook, CommitGroupDone, LeaveCommit, EnterAfterCommit, AfterCommit,
         HandleSyncError, Signal, FollowerWakes, RotateLock, WaitForPrepXids, ChangeStage,
         EnterStage, logVars, engineVars
    <3>2. UNCHANGED Finished
      BY <1>1, <2>6, FinishedStep
    <3> QED BY <3>1, <3>2
  <2> QED BY <2>1, <2>2, <2>3, <2>4, <2>6
<1>2. CASE SetOrderCommits \/ Stop \/ UNCHANGED vars
  <2>1. UNCHANGED <<binlog, synced, committed, trx, pc>>
    BY <1>2 DEF SetOrderCommits, Stop, vars, logVars, engineVars, thdVars, stageVars
  <2>2. UNCHANGED Finished
    BY <2>1 DEF Finished
  <2> QED BY <2>1, <2>2 DEF Abstract!vars
<1> QED BY <1>1, <1>2 DEF Next, NoOrderWorkers, Abstract!vars

(* ordered_commit as a whole, with sync_binlog=1 and ordered commits, for  *)
(* any number of sessions, rotations and groups, however they merge: the   *)
(* four stages show nothing but a log that is written by groups, synced a  *)
(* prefix at a time, committed in the engine in log order and only when    *)
(* synced, and reported to each client once - if the server stops on an    *)
(* error of the log, every cache can be written and no fsync fails.        *)
THEOREM ImplementsCommitLogHolds ==
  ASSUME NoOrderWorkers, StopsOnError, CachesFit, SyncWorks, AlwaysOrdered, SyncPeriod = 1
  PROVE  Spec => ImplementsCommitLog
<1>1. Init => Abstract!Init /\ Phases /\ Ordered /\ Durable /\ Counted
  <2> SUFFICES ASSUME Init PROVE Abstract!Init /\ Phases /\ Ordered /\ Durable /\ Counted
    OBVIOUS
  <2>1. binlog = << >> /\ synced = 0 /\ committed = << >> /\ \A t \in BinlogThds : trx[t] = 0
    BY ThdsFacts DEF Init
  <2>2. Finished = {}
    BY <2>1 DEF Finished
  <2> QED BY <2>1, <2>2, InitPhases, InitOrdered, InitDurable, InitCounted DEF Abstract!Init
<1>2. SettingsTypeOK /\ IInv /\ IInv' /\ Linked /\ Phases /\ [Next]_vars => Phases'
  BY NextPhases
<1>3. SettingsTypeOK /\ IInv /\ IInv' /\ Linked /\ Sending /\ Phases /\ Ordered /\ [Next]_vars
      => Ordered'
  BY NextOrdered
<1>4. IInv /\ IInv' /\ Linked /\ Sending /\ Durable /\ [Next]_vars => Durable'
  BY NextDurable
<1>5. IInv /\ IInv' /\ Linked /\ Account /\ Counted /\ [Next]_vars => Counted'
  BY NextCounted
<1>6. TypeOK => SettingsTypeOK
  BY DEF TypeOK
<1>7. /\ IInv /\ IInv' /\ Linked /\ Sending /\ Account /\ Account' /\ Counted /\ Phases
      /\ Durable /\ LoggedOnce /\ LoggedOnce' /\ Ordered' /\ [Next]_vars
      => [Abstract!Next]_(Abstract!vars)
  BY StepSimulation
<1> QED BY <1>1, <1>2, <1>3, <1>4, <1>5, <1>6, <1>7, Invariance, LinkedInvariance,
        SendingInvariance, AccountInvariance, LoggedOnceInvariance, TypeCorrect, PTL
        DEF Spec, ImplementsCommitLog, Abstract!Spec

-----------------------------------------------------------------------------
(***************************************************************************)
(* What the two logs hold on disk, compared with each other.               *)
(***************************************************************************)

(* The redo log has on disk nothing that did not happen. *)
RedoIsTrue == redo_committed \subseteq Members(committed) /\ redo_prepared \subseteq prepared

(* A transaction is prepared before its session commits it, and on disk as *)
(* prepared before a leader writes it to the binary log.                   *)
BegunIsPrepared == \A u \in BinlogThds : pc[u] \notin OutsideCommit => Trx(u) \in prepared

WritingIsPrepared ==
  \A t \in BinlogThds :
    pc[t] \in {"order_done", "write"} => \A u \in Members(list[t]) : Trx(u) \in redo_prepared

LoggedIsPrepared == \A i \in DOMAIN binlog : binlog[i] \in redo_prepared

(* What is in earlier files is committed in the redo log on disk. *)
EndingIsCommitted ==
  \A t \in BinlogThds :
    pc[t] = "new_file" => \A i \in DOMAIN binlog : binlog[i] \in redo_committed

RotatedIsCommitted == rotated <= synced /\ \A i \in 1 .. rotated : binlog[i] \in redo_committed

(* What the engine committed is in the synced part of the binary log. *)
CommittedIsSynced == \A x \in Members(committed) : \E i \in 1 .. synced : binlog[i] = x

Recoverable ==
  /\ RedoIsTrue /\ BegunIsPrepared /\ WritingIsPrepared /\ LoggedIsPrepared
  /\ EndingIsCommitted /\ RotatedIsCommitted /\ CommittedIsSynced

(* The steps that touch the redo log, and the files of the binary log. *)
LEMMA RedoCases ==
  ASSUME NEW t \in BinlogThds, Prepare(t) \/ FlushLogs(t) \/ BinlogStep(t)
  PROVE  /\ \/ (FlushEngine(t) \/ WaitForPrepXids(t)) /\ HaFlushLogs
            \/ UNCHANGED <<redo_prepared, redo_committed>>
         /\ Prepare(t) \/ UNCHANGED prepared
         /\ NewFile(t) \/ UNCHANGED rotated
         /\ CommitNext(t) \/ FinishInEngine(t) \/ UNCHANGED committed
<1>1. \/ (FlushEngine(t) \/ WaitForPrepXids(t)) /\ HaFlushLogs
      \/ UNCHANGED <<redo_prepared, redo_committed>>
  BY DEF BinlogStep, Prepare, FlushLogs, OrderedCommit, BinlogLeader, EnterFlush,
     FlushEngine, FinishOrderList, WriteBinlog, CloseBinlog, LeaveFlush, LeaveClosedFlush,
     EnterSync, SyncBinlog, LeaveSync, EnterCommit, AfterSyncHook, CommitNext, CommitGroupDone,
     LeaveCommit, EnterAfterCommit, AfterCommit, HandleSyncError, Signal, FollowerWakes,
     FinishInEngine, FinishCommit, RotateLock, WaitForPrepXids, NewFile, ChangeStage, EnterStage,
     redoVars
<1>2. Prepare(t) \/ UNCHANGED prepared
  BY DEF BinlogStep, FlushLogs, OrderedCommit, BinlogLeader, EnterFlush,
     FlushEngine, FinishOrderList, WriteBinlog, CloseBinlog, LeaveFlush, LeaveClosedFlush,
     EnterSync, SyncBinlog, LeaveSync, EnterCommit, AfterSyncHook, CommitNext, CommitGroupDone,
     LeaveCommit, EnterAfterCommit, AfterCommit, HandleSyncError, Signal, FollowerWakes,
     FinishInEngine, FinishCommit, RotateLock, WaitForPrepXids, NewFile, ChangeStage, EnterStage,
     engineVars
<1>3. NewFile(t) \/ UNCHANGED rotated
  BY DEF BinlogStep, Prepare, FlushLogs, OrderedCommit, BinlogLeader, EnterFlush,
     FlushEngine, FinishOrderList, WriteBinlog, CloseBinlog, LeaveFlush, LeaveClosedFlush,
     EnterSync, SyncBinlog, LeaveSync, EnterCommit, AfterSyncHook, CommitNext, CommitGroupDone,
     LeaveCommit, EnterAfterCommit, AfterCommit, HandleSyncError, Signal, FollowerWakes,
     FinishInEngine, FinishCommit, RotateLock, WaitForPrepXids, ChangeStage, EnterStage,
     logVars
<1>4. CommitNext(t) \/ FinishInEngine(t) \/ UNCHANGED committed
  BY DEF BinlogStep, Prepare, FlushLogs, OrderedCommit, BinlogLeader, EnterFlush,
     FlushEngine, FinishOrderList, WriteBinlog, CloseBinlog, LeaveFlush, LeaveClosedFlush,
     EnterSync, SyncBinlog, LeaveSync, EnterCommit, AfterSyncHook, CommitGroupDone,
     LeaveCommit, EnterAfterCommit, AfterCommit, HandleSyncError, Signal, FollowerWakes,
     FinishCommit, RotateLock, WaitForPrepXids, NewFile, ChangeStage, EnterStage,
     engineVars
<1> QED BY <1>1, <1>2, <1>3, <1>4

(* The redo log only grows, on disk too. *)
LEMMA RedoGrows ==
  ASSUME IInv, RedoIsTrue, NEW t \in BinlogThds, Prepare(t) \/ FlushLogs(t) \/ BinlogStep(t)
  PROVE  /\ redo_prepared \subseteq redo_prepared' /\ redo_committed \subseteq redo_committed'
         /\ prepared \subseteq prepared' /\ RedoIsTrue'
<1>1. Members(committed) \subseteq Members(committed)' /\ Members(committed)' = Members(committed')
  BY CommittedGrows DEF Members
<1>2. prepared \subseteq prepared'
  BY RedoCases DEF Prepare
<1>3. CASE (FlushEngine(t) \/ WaitForPrepXids(t)) /\ HaFlushLogs
  BY <1>1, <1>2, <1>3 DEF HaFlushLogs, RedoIsTrue
<1>4. CASE UNCHANGED <<redo_prepared, redo_committed>>
  BY <1>1, <1>2, <1>4 DEF RedoIsTrue
<1> QED BY <1>2, <1>3, <1>4, RedoCases

(* A session that is in a commit prepared its transaction. *)
LEMMA PreparedStep ==
  ASSUME IInv, IInv', RedoIsTrue, BegunIsPrepared, NEW t \in BinlogThds,
         Prepare(t) \/ FlushLogs(t) \/ BinlogStep(t)
  PROVE  BegunIsPrepared'
<1> SUFFICES ASSUME NEW u \in BinlogThds, pc'[u] \notin OutsideCommit PROVE Trx(u)' \in prepared'
  BY DEF BegunIsPrepared
<1>1. CASE Prepare(t) /\ u = t
  <2>1. Trx(t)' = <<t, trx[t] + 1>>
    BY <1>1, ThdsFacts DEF Prepare, Trx, IInv, CommitTypeOK, ThdTypeOK
  <2> QED BY <1>1, <2>1 DEF Prepare
<1>2. CASE ~(Prepare(t) /\ u = t)
  <2>1. Trx(u)' = Trx(u)
    <3>1. CASE Prepare(t)
      BY <1>2, <3>1, ThdsFacts DEF Prepare, Trx, IInv, CommitTypeOK, ThdTypeOK
    <3>2. CASE ~Prepare(t)
      BY <3>2, LogCases DEF Trx
    <3> QED BY <3>1, <3>2
  <2>2. pc[u] \notin OutsideCommit
    <3>1. CASE u # t
      BY <3>1, Paths, ThdsFacts
    <3>2. CASE u = t
      <4>1. ASSUME pc[t] \in OutsideCommit PROVE FALSE
        <5>1. FlushLogs(t) \/ RotateLock(t) \/ WaitForPrepXids(t) \/ NewFile(t)
          BY <1>2, <3>2, <4>1, OutsideSteps
        <5>2. pc'[t] \in OutsideCommit
          BY <5>1, ThdsFacts DEF FlushLogs, RotateLock, WaitForPrepXids, NewFile,
             RequestRotation, Goto, OutsideCommit, IInv, CommitTypeOK, StageTypeOK, PcTypeOK
        <5> QED BY <3>2, <5>2
      <4> QED BY <3>2, <4>1
    <3> QED BY <3>1, <3>2
  <2> QED BY <2>1, <2>2, RedoGrows DEF BegunIsPrepared
<1> QED BY <1>1, <1>2

(* A step changes the list of its own session only. *)
LEMMA OtherLists ==
  ASSUME IInv, NEW t \in BinlogThds, Prepare(t) \/ FlushLogs(t) \/ BinlogStep(t)
  PROVE  \A u \in BinlogThds \ {t} : list'[u] = list[u]
<1>1. list \in [Thds -> Seq(BinlogThds) \cup Seq(OrderThds)]
  BY DEF IInv, CommitTypeOK, LeaderTypeOK
<1>2. list' = list \/ \E l : list' = [list EXCEPT ![t] = l]
  BY DEF BinlogStep, Prepare, FlushLogs, OrderedCommit, BinlogLeader, EnterFlush,
     FlushEngine, FinishOrderList, WriteBinlog, CloseBinlog, LeaveFlush, LeaveClosedFlush,
     EnterSync, SyncBinlog, LeaveSync, EnterCommit, AfterSyncHook, CommitNext, CommitGroupDone,
     LeaveCommit, EnterAfterCommit, AfterCommit, HandleSyncError, Signal, FollowerWakes,
     FinishInEngine, FinishCommit, RotateLock, WaitForPrepXids, NewFile, ChangeStage, EnterStage,
     leaderVars
<1> QED BY <1>1, <1>2, ThdsFacts

(* What is about to be written is prepared on disk. *)
LEMMA WritingStep ==
  ASSUME NoOrderWorkers, IInv, IInv', Linked, Sending, RedoIsTrue, BegunIsPrepared,
         WritingIsPrepared, NEW t \in BinlogThds, Prepare(t) \/ FlushLogs(t) \/ BinlogStep(t)
  PROVE  WritingIsPrepared'
<1> SUFFICES ASSUME NEW v \in BinlogThds, pc'[v] \in {"order_done", "write"},
                    NEW u \in Members(list'[v])
             PROVE  Trx(u)' \in redo_prepared'
  BY DEF WritingIsPrepared, Members
<1>1. CASE pc[v] \in {"order_done", "write"} /\ list'[v] = list[v]
  <2>1. pc[v] \in LeaderPcs /\ u \in Members(list[v]) /\ u \in BinlogThds
    BY <1>1, LeaderInList DEF LeaderPcs
  <2>2. pc[u] # "idle" /\ Trx(u) \in redo_prepared
    BY <1>1, <2>1, ListInCommit DEF WritingIsPrepared
  <2>3. Trx(u)' = Trx(u)
    BY <2>1, <2>2, StaysLogged DEF Trx
  <2> QED BY <2>2, <2>3, RedoGrows
<1>2. CASE v # t
  BY <1>1, <1>2, OtherLists, Paths, ThdsFacts
<1>3. CASE v = t
  <2>1. FlushEngine(t) \/ FinishOrderList(t)
    <3>1. Path(t, pc'[t])
      BY Paths
    <3>2. StillAction(t) => pc[t] \in {"commit", "sync_error"} /\ pc'[t] = pc[t]
      BY StillActions DEF StillAction, CommitNext, HandleSyncError, stageVars
    <3>3. pc[t] \in FlushPcs \cup {"BINLOG_FLUSH"}
      BY <1>3, <3>1, <3>2, NextStages DEF Path, OutsideCommit
    <3>4. EnterFlush(t) \/ FlushEngine(t) \/ FinishOrderList(t) \/ WriteBinlog(t)
      BY <3>3 DEF FlushPcs, BinlogStep, Prepare, FlushLogs, OrderedCommit, BinlogLeader,
         BinlogLeaderWakes, CloseBinlog, LeaveFlush, LeaveClosedFlush, EnterSync, SyncBinlog,
         LeaveSync, EnterCommit, AfterSyncHook, CommitNext, CommitGroupDone, LeaveCommit,
         EnterAfterCommit, AfterCommit, HandleSyncError, Signal, FollowerWakes, FinishInEngine,
         FinishCommit, RotateLock, WaitForPrepXids, NewFile, ChangeStage, EnterStage
    <3>5. /\ EnterFlush(t) => pc'[t] \in {"flush_engine", "to_commit_closed"}
          /\ WriteBinlog(t) => pc'[t] \in {"close_flush", "to_sync"}
      BY ThdsFacts DEF EnterFlush, WriteBinlog, Goto, IInv, CommitTypeOK, StageTypeOK, PcTypeOK
    <3> QED BY <1>3, <3>4, <3>5
  <2>2. CASE FinishOrderList(t)
    BY <1>1, <1>3, <2>2 DEF FinishOrderList
  <2>3. CASE FlushEngine(t)
    <3>1. pc[t] \in LeaderPcs /\ list' = list /\ trx' = trx /\ redo_prepared' = prepared
      BY <2>3 DEF FlushEngine, LeaderPcs, leaderVars, thdVars, HaFlushLogs
    <3>2. u \in BinlogThds /\ u \in Members(list[t])
      BY <1>3, <3>1, LeaderInList
    <3>3. pc[u] \notin OutsideCommit
      <4>1. OutsideCommit \cap (LeaderPcs \cup QueueLeaderPcs \cup {"follow"}) = {}
        BY DEF OutsideCommit, LeaderPcs, QueueLeaderPcs
      <4> QED BY <3>1, <3>2, <4>1, NotInList
    <3> QED BY <3>1, <3>2, <3>3 DEF BegunIsPrepared, Trx
  <2> QED BY <2>1, <2>2, <2>3
<1> QED BY <1>2, <1>3

(* What is in the binary log is prepared on disk. *)
LEMMA LoggedStep ==
  ASSUME NoOrderWorkers, IInv, IInv', Linked, RedoIsTrue, WritingIsPrepared, LoggedIsPrepared,
         NEW t \in BinlogThds, Prepare(t) \/ FlushLogs(t) \/ BinlogStep(t)
  PROVE  LoggedIsPrepared'
<1>1. CASE ~WriteBinlog(t)
  BY <1>1, LogCases, RedoGrows DEF LoggedIsPrepared
<1>2. CASE WriteBinlog(t)
  <2> SUFFICES ASSUME NEW i \in DOMAIN binlog' PROVE binlog'[i] \in redo_prepared'
    BY DEF LoggedIsPrepared
  <2> DEFINE n == Len(binlog)
  <2>1. PICK written \in Seq(BinlogThds) :
          /\ Members(written) \subseteq Members(list[t])
          /\ n \in Nat /\ Len(written) \in Nat
          /\ DOMAIN binlog = 1 .. n /\ DOMAIN written = 1 .. Len(written)
          /\ DOMAIN binlog' = 1 .. (n + Len(written))
          /\ \A k \in 1 .. n : binlog'[k] = binlog[k]
          /\ \A k \in (n + 1) .. (n + Len(written)) :
               k - n \in 1 .. Len(written) /\ binlog'[k] = Trx(written[k - n])
    BY <1>2, WriteAdds
  <2> HIDE DEF n
  <2>2. i \in 1 .. n \/ i \in (n + 1) .. (n + Len(written))
    BY <2>1
  <2>3. CASE i \in 1 .. n
    BY <2>1, <2>3, RedoGrows DEF LoggedIsPrepared
  <2>4. CASE i \in (n + 1) .. (n + Len(written))
    <3>1. written[i - n] \in Members(list[t]) /\ binlog'[i] = Trx(written[i - n])
      BY <2>1, <2>4 DEF Members
    <3>2. Trx(written[i - n]) \in redo_prepared
      BY <1>2, <3>1 DEF WriteBinlog, WritingIsPrepared
    <3> QED BY <3>1, <3>2, RedoGrows
  <2> QED BY <2>2, <2>3, <2>4
<1> QED BY <1>1, <1>2

(* Earlier files are committed on disk. *)
LEMMA RotatedStep ==
  ASSUME IInv, IInv', Sending, PrepXidsCoverLog, RedoIsTrue, EndingIsCommitted,
         RotatedIsCommitted, NEW t \in BinlogThds, Prepare(t) \/ FlushLogs(t) \/ BinlogStep(t)
  PROVE  EndingIsCommitted' /\ RotatedIsCommitted'
<1>1. /\ binlog \in Seq(Trxs) /\ DOMAIN binlog = 1 .. Len(binlog) /\ Len(binlog) \in Nat
      /\ rotated \in Nat /\ synced \in Nat /\ synced' \in Nat /\ rotated' \in Nat
      /\ synced <= Len(binlog) /\ synced <= synced'
      /\ \A i \in DOMAIN binlog : binlog'[i] = binlog[i]
  BY LenProperties, LogGrows DEF IInv, CommitTypeOK, LogTypeOK, Sending, SyncedIsWritten
<1>2. ASSUME NEW v \in BinlogThds, pc'[v] = "new_file", NEW i \in DOMAIN binlog'
      PROVE  binlog'[i] \in redo_committed'
  <2>1. CASE v # t
    <3>1. pc[v] = "new_file"
      BY <1>2, <2>1, Paths, ThdsFacts
    <3>2. ~WriteBinlog(t)
      <4>1. v \in Thds /\ t \in Thds /\ "LOCK_log" \in Mutexes
        BY ThdsFacts DEF Mutexes
      <4>2. owner["LOCK_log"] = v
        BY <3>1, <4>1 DEF IInv, Structure, MutexOwners, HolderPcs
      <4>3. WriteBinlog(t) => owner["LOCK_log"] = t
        BY <4>1 DEF WriteBinlog, IInv, Structure, MutexOwners, HolderPcs
      <4> QED BY <2>1, <4>2, <4>3
    <3>3. binlog' = binlog
      BY <3>2, LogCases
    <3> QED BY <1>2, <3>1, <3>3, RedoGrows DEF EndingIsCommitted
  <2>2. CASE v = t
    <3>1. WaitForPrepXids(t)
      <4>1. Path(t, pc'[t])
        BY Paths
      <4>2. StillAction(t) => pc[t] \in {"commit", "sync_error"} /\ pc'[t] = pc[t]
        BY StillActions DEF StillAction, CommitNext, HandleSyncError, stageVars
      <4>3. pc[t] \in OutsideCommit \/ FinishCommit(t)
        BY <1>2, <2>2, <4>1, <4>2, NextStages DEF Path, FlushPcs
      <4>4. /\ FinishCommit(t) \/ FlushLogs(t) \/ RotateLock(t) \/ NewFile(t)
               => pc'[t] \in {"idle", "rotate", "rotate_wait"}
            /\ Prepare(t) => pc'[t] = "prepared"
        BY ThdsFacts DEF FinishCommit, FlushLogs, RotateLock, NewFile, Prepare, RequestRotation,
           Goto, IInv, CommitTypeOK, StageTypeOK, PcTypeOK
      <4> QED BY <1>2, <2>2, <4>3, <4>4, OutsideSteps
    <3>2. prep_xids = 0 /\ redo_committed' = Members(committed) /\ binlog' = binlog
      BY <3>1 DEF WaitForPrepXids, HaFlushLogs, logVars
    <3> QED BY <1>1, <1>2, <3>2 DEF PrepXidsCoverLog, Logged
  <2> QED BY <2>1, <2>2
<1>3. RotatedIsCommitted'
  <2>1. CASE NewFile(t)
    <3>1. rotated' = Len(binlog) /\ synced' = Len(binlog) /\ pc[t] = "new_file"
      BY <2>1 DEF NewFile
    <3>2. \A i \in 1 .. rotated' : binlog'[i] \in redo_committed
      BY <1>1, <3>1 DEF EndingIsCommitted
    <3> QED BY <1>1, <3>1, <3>2, RedoGrows DEF RotatedIsCommitted
  <2>2. CASE ~NewFile(t)
    <3>1. rotated' = rotated
      BY <2>2, RedoCases
    <3>2. rotated' <= synced'
      BY <1>1, <3>1 DEF RotatedIsCommitted
    <3>3. \A i \in 1 .. rotated : i \in DOMAIN binlog
      BY <1>1 DEF RotatedIsCommitted
    <3> QED BY <1>1, <3>1, <3>2, <3>3, RedoGrows DEF RotatedIsCommitted
  <2> QED BY <2>1, <2>2
<1> QED BY <1>2, <1>3 DEF EndingIsCommitted

(* The engine commits only what is on disk in the binary log. *)
LEMMA CommittedStep ==
  ASSUME NoOrderWorkers, IInv, IInv', Linked, Sending, Durable, CommittedIsSynced,
         NEW t \in BinlogThds, Prepare(t) \/ FlushLogs(t) \/ BinlogStep(t)
  PROVE  CommittedIsSynced'
<1>1. ASSUME NEW x, \E i \in 1 .. synced : binlog[i] = x
      PROVE  \E i \in 1 .. synced' : binlog'[i] = x
  <2>1. PICK i \in 1 .. synced : binlog[i] = x
    BY <1>1
  <2>2. i \in 1 .. synced' /\ binlog'[i] = binlog[i]
    BY LogGrows
  <2> QED BY <2>1, <2>2
<1>2. ASSUME NEW u \in BinlogThds, CommitInEngine(u), Lasts(u) PROVE CommittedIsSynced'
  <2>1. committed' = Append(committed, Trx(u)) /\ committed \in Seq(Trxs) /\ Trx(u) \in Trxs
    BY <1>2, ThdsFacts DEF CommitInEngine, Trx, Trxs, IInv, CommitTypeOK, EngineTypeOK, ThdTypeOK
  <2>2. Members(committed') = Members(committed) \cup {Trx(u)}
    BY <2>1, MembersAppend
  <2>3. \A x \in Members(committed') : \E i \in 1 .. synced : binlog[i] = x
    BY <1>2, <2>2 DEF CommittedIsSynced, Lasts
  <2>4. \A x \in Members(committed') : \E i \in 1 .. synced' : binlog'[i] = x
    BY <1>1, <2>3
  <2> QED BY <2>4 DEF CommittedIsSynced, Members
<1>3. CASE CommitNext(t)
  <2>1. PICK i \in DOMAIN list[t] : CommitInEngine(list[t][i])
    BY <1>3 DEF CommitNext
  <2>2. pc[t] \in LeaderPcs \cap SyncedPcs
    BY <1>3 DEF CommitNext, LeaderPcs, SyncedPcs
  <2>3. list[t][i] \in Members(list[t]) /\ list[t][i] \in BinlogThds
    BY DEF Members, IInv, CommitTypeOK, LeaderTypeOK
  <2>4. Lasts(list[t][i])
    BY <2>2, <2>3, ListRegion DEF Synced, Durable, SyncedLasts
  <2> QED BY <1>2, <2>1, <2>3, <2>4
<1>4. CASE FinishInEngine(t)
  <2>1. CommitInEngine(t) /\ Lasts(t)
    BY <1>4 DEF FinishInEngine, Durable, LeaverLasts, Left
  <2> QED BY <1>2, <2>1
<1>5. CASE UNCHANGED committed
  <2>1. \A x \in Members(committed) : \E i \in 1 .. synced' : binlog'[i] = x
    BY <1>1 DEF CommittedIsSynced
  <2> QED BY <1>5, <2>1 DEF CommittedIsSynced, Members
<1> QED BY <1>3, <1>4, <1>5, RedoCases

(* Every step leaves the two logs recoverable. *)
LEMMA NextRecoverable ==
  ASSUME NoOrderWorkers, IInv, IInv', Linked, Sending, PrepXidsCoverLog, Durable, Recoverable,
         [Next]_vars
  PROVE  Recoverable'
<1>1. ASSUME NEW t \in BinlogThds, Prepare(t) \/ FlushLogs(t) \/ BinlogStep(t)
      PROVE  Recoverable'
  <2> USE <1>1 DEF Recoverable
  <2>1. RedoIsTrue'
    BY RedoGrows
  <2>2. BegunIsPrepared'
    BY PreparedStep
  <2>3. WritingIsPrepared'
    BY WritingStep
  <2>4. LoggedIsPrepared'
    BY LoggedStep
  <2>5. EndingIsCommitted' /\ RotatedIsCommitted'
    BY RotatedStep
  <2>6. CommittedIsSynced'
    BY CommittedStep
  <2> QED BY <2>1, <2>2, <2>3, <2>4, <2>5, <2>6
<1>2. CASE SetOrderCommits \/ Stop \/ UNCHANGED vars
  <2>1. UNCHANGED <<pc, list, trx, binlog, synced, rotated, prepared, committed, redo_prepared,
                    redo_committed>>
    BY <1>2 DEF SetOrderCommits, Stop, vars, stageVars, leaderVars, thdVars, logVars, engineVars,
       redoVars
  <2>2. RedoIsTrue' /\ BegunIsPrepared' /\ LoggedIsPrepared' /\ RotatedIsCommitted'
    BY <2>1 DEF Recoverable, RedoIsTrue, BegunIsPrepared, LoggedIsPrepared, RotatedIsCommitted, Trx,
       Members
  <2>3. WritingIsPrepared'
    BY <2>1 DEF Recoverable, WritingIsPrepared, Trx, Members
  <2>4. EndingIsCommitted' /\ CommittedIsSynced'
    BY <2>1 DEF Recoverable, EndingIsCommitted, CommittedIsSynced, Members
  <2> QED BY <2>2, <2>3, <2>4 DEF Recoverable
<1> QED BY <1>1, <1>2 DEF Next, NoOrderWorkers

(* The empty logs are recoverable. *)
LEMMA InitRecoverable ==
  ASSUME Init PROVE Recoverable
<1>1. /\ \A t \in BinlogThds : pc[t] = "idle"
      /\ binlog = << >> /\ committed = << >> /\ rotated = 0 /\ synced = 0
      /\ redo_prepared = {} /\ redo_committed = {}
  BY ThdsFacts DEF Init
<1>2. DOMAIN binlog = {} /\ Members(committed) = {} /\ 1 .. rotated = {}
  BY <1>1 DEF Members
<1> QED BY <1>1, <1>2 DEF Recoverable, RedoIsTrue, BegunIsPrepared, WritingIsPrepared,
        LoggedIsPrepared, EndingIsCommitted, RotatedIsCommitted, CommittedIsSynced, OutsideCommit

-----------------------------------------------------------------------------
(***************************************************************************)
(* The scan of the last file.                                              *)
(***************************************************************************)

(* A state of the scan, ... *)
ScanState(t, b, X, v) ==
  [in_transaction |-> t, is_malformed |-> b, internal_xids |-> X, valid_pos |-> v]

(* ... between two transactions, and inside one. *)
Between(X, v) == ScanState(FALSE, FALSE, X, v)

Inside(X, v) == ScanState(TRUE, FALSE, X, v)

(* How the fields of a state of the scan are replaced: in_transaction. *)
LEMMA SetInTransaction ==
  ASSUME NEW t, NEW b, NEW X, NEW v, NEW c
  PROVE  [ScanState(t, b, X, v) EXCEPT !.in_transaction = c] = ScanState(c, b, X, v)
BY DEF ScanState

(* The flag is_malformed replaced. *)
LEMMA SetMalformed ==
  ASSUME NEW t, NEW b, NEW X, NEW v, NEW c
  PROVE  [ScanState(t, b, X, v) EXCEPT !.is_malformed = c] = ScanState(t, c, X, v)
BY DEF ScanState

(* The set internal_xids replaced. *)
LEMMA SetXids ==
  ASSUME NEW t, NEW b, NEW X, NEW v, NEW c
  PROVE  [ScanState(t, b, X, v) EXCEPT !.internal_xids = c] = ScanState(t, b, c, v)
BY DEF ScanState

(* The position valid_pos replaced. *)
LEMMA SetPos ==
  ASSUME NEW t, NEW b, NEW X, NEW v, NEW c
  PROVE  [ScanState(t, b, X, v) EXCEPT !.valid_pos = c] = ScanState(t, b, X, c)
BY DEF ScanState

(* Two fields replaced at once: the start of a transaction, ... *)
LEMMA SetStart ==
  ASSUME NEW r, NEW c, NEW d
  PROVE  [r EXCEPT !.is_malformed = c, !.in_transaction = d]
           = [[r EXCEPT !.is_malformed = c] EXCEPT !.in_transaction = d]
OBVIOUS

(* ... and an XID that is kept. *)
LEMMA SetInserted ==
  ASSUME NEW r, NEW x, NEW d
  PROVE  [r EXCEPT !.internal_xids = @ \cup {x}, !.is_malformed = d]
           = [[r EXCEPT !.internal_xids = r.internal_xids \cup {x}] EXCEPT !.is_malformed = d]
OBVIOUS

(* The fields of a state between two transactions. *)
LEMMA BetweenFields ==
  ASSUME NEW X, NEW v
  PROVE  /\ Between(X, v).in_transaction = FALSE /\ Between(X, v).is_malformed = FALSE
         /\ Between(X, v).internal_xids = X /\ Between(X, v).valid_pos = v
BY DEF Between, ScanState

(* The fields of a state inside a transaction. *)
LEMMA InsideFields ==
  ASSUME NEW X, NEW v
  PROVE  /\ Inside(X, v).in_transaction = TRUE /\ Inside(X, v).is_malformed = FALSE
         /\ Inside(X, v).internal_xids = X /\ Inside(X, v).valid_pos = v
BY DEF Inside, ScanState

(* An XID that was not there yet. *)
LEMMA InsertNew ==
  ASSUME NEW X, NEW v, NEW x, x \notin X
  PROVE  InsertXid(Between(X, v), x) = Between(X \cup {x}, v)
<1> DEFINE f == FALSE
           r == Between(X, v)
<1>1. r = ScanState(f, f, X, v) /\ Between(X \cup {x}, v) = ScanState(f, f, X \cup {x}, v)
  BY DEF Between
<1>2. r.internal_xids = X
  BY BetweenFields
<1>2a. (x \in r.internal_xids) = f
  BY <1>2
<1>3. InsertXid(r, x) = [r EXCEPT !.internal_xids = @ \cup {x}, !.is_malformed = x \in r.internal_xids]
  BY DEF InsertXid
<1> HIDE DEF f, r
<1>4. [r EXCEPT !.internal_xids = @ \cup {x}, !.is_malformed = f]
        = [[r EXCEPT !.internal_xids = r.internal_xids \cup {x}] EXCEPT !.is_malformed = f]
  BY SetInserted
<1>5. [r EXCEPT !.internal_xids = r.internal_xids \cup {x}] = ScanState(f, f, X \cup {x}, v)
  <2> DEFINE Y == X \cup {x}
  <2> HIDE DEF Y
  <2>1. [ScanState(f, f, X, v) EXCEPT !.internal_xids = Y] = ScanState(f, f, Y, v)
    BY SetXids
  <2>2. r.internal_xids \cup {x} = Y /\ r = ScanState(f, f, X, v)
    BY <1>1, <1>2 DEF Y
  <2>3. [r EXCEPT !.internal_xids = r.internal_xids \cup {x}] = ScanState(f, f, Y, v)
    BY <2>1, <2>2, Zenon
  <2> QED BY <2>3 DEF Y
<1>6. [ScanState(f, f, X \cup {x}, v) EXCEPT !.is_malformed = f] = ScanState(f, f, X \cup {x}, v)
  BY SetMalformed
<1>7. InsertXid(r, x) = ScanState(f, f, X \cup {x}, v)
  BY <1>2a, <1>3, <1>4, <1>5, <1>6
<1> QED BY <1>1, <1>7 DEF r

(* A boundary moves the place to cut the file off. *)
LEMMA MovePos ==
  ASSUME NEW X, NEW v, NEW p
  PROVE  [Between(X, v) EXCEPT !.valid_pos = p] = Between(X, p)
<1> DEFINE f == FALSE
<1>1. [ScanState(f, f, X, v) EXCEPT !.valid_pos = p] = ScanState(f, f, X, p)
  <2> HIDE DEF f
  <2> QED BY SetPos
<1> QED BY <1>1 DEF Between

(* What each event of a well formed file does to the scan: a GTID event, *)
LEMMA ReadGtid ==
  ASSUME NEW X, NEW v, NEW x, NEW p
  PROVE  ReadEvent(Between(X, v), Event("GTID", x), p) = Between(X, v)
BY DEF ReadEvent, Between, ScanState, Event, Process, AtBoundary

(* the start of a transaction, *)
LEMMA ReadBegin ==
  ASSUME NEW X, NEW v, NEW x, NEW p
  PROVE  ReadEvent(Between(X, v), Event("BEGIN", x), p) = Inside(X, v)
<1> DEFINE f == FALSE
           g == TRUE
           r == Between(X, v)
<1>1. Process(r, Event("BEGIN", x)) = ProcessStart(r)
  BY DEF Process, Event
<1>2. r = ScanState(f, f, X, v) /\ Inside(X, v) = ScanState(g, f, X, v)
  BY DEF Between, Inside
<1>2a. r.in_transaction = f
  BY DEF Between, ScanState
<1>3. ProcessStart(r) = [r EXCEPT !.is_malformed = r.in_transaction, !.in_transaction = g]
  BY DEF ProcessStart
<1>4. ProcessStart(r) = Inside(X, v)
  <2> HIDE DEF f, g, r
  <2>1. [r EXCEPT !.is_malformed = f, !.in_transaction = g]
          = [[r EXCEPT !.is_malformed = f] EXCEPT !.in_transaction = g]
    BY SetStart
  <2>2. [r EXCEPT !.is_malformed = f] = ScanState(f, f, X, v)
    BY <1>2, SetMalformed
  <2>3. [ScanState(f, f, X, v) EXCEPT !.in_transaction = g] = ScanState(g, f, X, v)
    BY SetInTransaction
  <2> QED BY <1>2, <1>2a, <1>3, <2>1, <2>2, <2>3
<1>5. ~r.is_malformed /\ ~AtBoundary(Inside(X, v), Event("BEGIN", x))
  BY BetweenFields, InsideFields DEF AtBoundary
<1> HIDE DEF r
<1>6. ReadEvent(r, Event("BEGIN", x), p) = Inside(X, v)
  BY <1>1, <1>4, <1>5 DEF ReadEvent
<1> QED BY <1>6 DEF r

(* its rows, *)
LEMMA ReadRows ==
  ASSUME NEW X, NEW v, NEW x, NEW p
  PROVE  ReadEvent(Inside(X, v), Event("ROWS", x), p) = Inside(X, v)
BY DEF ReadEvent, Inside, ScanState, Event, Process, AtBoundary

(* its XID event, *)
LEMMA ReadXid ==
  ASSUME NEW X, NEW v, NEW x, NEW p, x \notin X
  PROVE  ReadEvent(Inside(X, v), Event("XID", x), p) = Between(X \cup {x}, p)
<1> DEFINE f == FALSE
           g == TRUE
           r == Inside(X, v)
<1>1. [r EXCEPT !.in_transaction = f] = Between(X, v)
  <2>1. r = ScanState(g, f, X, v) /\ Between(X, v) = ScanState(f, f, X, v)
    BY DEF Inside, Between
  <2> HIDE DEF f, g, r
  <2> QED BY <2>1, SetInTransaction
<1>2. r.in_transaction /\ ~r.is_malformed
  BY DEF Inside, ScanState
<1>3. Process(r, Event("XID", x)) = ProcessXidEvent(r, x)
  BY DEF Process, Event
<1>4. ProcessXidEvent(r, x) = InsertXid([r EXCEPT !.in_transaction = f], x)
  BY <1>2 DEF ProcessXidEvent
<1>5. AtBoundary(Between(X \cup {x}, v), Event("XID", x))
  BY BetweenFields DEF AtBoundary, Event
<1>6. [Between(X \cup {x}, v) EXCEPT !.valid_pos = p] = Between(X \cup {x}, p)
  BY MovePos
<1> HIDE DEF r, f
<1>7. Process(r, Event("XID", x)) = Between(X \cup {x}, v)
  BY <1>1, <1>3, <1>4, InsertNew
<1>8. ReadEvent(r, Event("XID", x), p) = Between(X \cup {x}, p)
  BY <1>2, <1>5, <1>6, <1>7 DEF ReadEvent
<1> QED BY <1>8 DEF r

(* and the only event of an atomic DDL statement. *)
LEMMA ReadDdl ==
  ASSUME NEW X, NEW v, NEW x, NEW p, x \notin X
  PROVE  ReadEvent(Between(X, v), Event("DDL", x), p) = Between(X \cup {x}, p)
<1>1. Process(Between(X, v), Event("DDL", x)) = InsertXid(Between(X, v), x)
  BY DEF Process, Event, ProcessAtomicDdl, Between, ScanState
<1>2. AtBoundary(Between(X \cup {x}, v), Event("DDL", x)) /\ ~Between(X, v).is_malformed
  BY BetweenFields DEF AtBoundary, Event
<1> QED BY <1>1, <1>2, MovePos, InsertNew DEF ReadEvent

(* The events of a transaction, one by one. *)
LEMMA EventsOfTrx ==
  ASSUME NEW x
  PROVE  \/ /\ Len(EventsOf(x)) = 4 /\ DOMAIN EventsOf(x) = 1 .. 4
            /\ EventsOf(x)[1] = Event("GTID", x) /\ EventsOf(x)[2] = Event("BEGIN", x)
            /\ EventsOf(x)[3] = Event("ROWS", x) /\ EventsOf(x)[4] = Event("XID", x)
         \/ /\ Len(EventsOf(x)) = 2 /\ DOMAIN EventsOf(x) = 1 .. 2
            /\ EventsOf(x)[1] = Event("GTID", x) /\ EventsOf(x)[2] = Event("DDL", x)
BY DEF EventsOf

(* The loop of recover over the first n events of a file. *)
Scanned(f, events, n) ==
  f[0] = NewScan /\ \A i \in 1 .. n : f[i] = ReadEvent(f[i - 1], events[i], i)

(* There is such a loop for every file, and recover returns its result. *)
LEMMA ScanExists ==
  ASSUME NEW events, Len(events) \in Nat
  PROVE  \E f : Scanned(f, events, Len(events)) /\ Recover(events) = f[Len(events)]
<1> DEFINE L == Len(events)
           Body(k, f) == [i \in 0 .. k |-> IF i = 0 THEN NewScan
                                           ELSE ReadEvent(f[i - 1], events[i], i)]
<1> HIDE DEF L
<1>1. L \in Nat
  BY DEF L
<1>2. \A k \in 0 .. L : \E f : f = Body(k, f)
  <2> DEFINE bad == {k \in 0 .. L : ~\E f : f = Body(k, f)}
  <2>1. SUFFICES ASSUME bad # {} PROVE FALSE
    OBVIOUS
  <2>2. PICK k \in bad : \A j \in bad : k <= j
    <3>1. bad \in SUBSET Nat
      OBVIOUS
    <3> HIDE DEF bad
    <3> QED BY <3>1, <2>1, HasSmallest
  <2>3. k # 0
    <3> DEFINE f == [i \in 0 .. 0 |-> NewScan]
    <3>1. f = Body(0, f)
      OBVIOUS
    <3> QED BY <3>1, <2>2
  <2>4. k \in 1 .. L /\ k - 1 \in 0 .. L /\ k - 1 \notin bad
    <3>1. k \in 1 .. L /\ k - 1 \in 0 .. L /\ k - 1 < k
      BY <2>2, <2>3, <1>1
    <3> HIDE DEF bad
    <3> QED BY <3>1, <2>2
  <2>5. PICK f : f = Body(k - 1, f)
    BY <2>4
  <2> DEFINE g == [i \in 0 .. k |-> IF i = k THEN ReadEvent(f[k - 1], events[k], k) ELSE f[i]]
  <2>6. ASSUME NEW i \in 0 .. k
        PROVE  g[i] = IF i = 0 THEN NewScan ELSE ReadEvent(g[i - 1], events[i], i)
    <3>1. CASE i = 0
      <4>1. 0 \in 0 .. k - 1 /\ 0 # k
        BY <2>4
      <4>2. f[0] = NewScan
        BY <2>5, <4>1
      <4> QED BY <3>1, <4>1, <4>2
    <3>2. CASE i # 0
      <4>1. i - 1 \in 0 .. k /\ i - 1 # k
        BY <2>4, <3>2
      <4>2. g[i - 1] = f[i - 1]
        BY <4>1
      <4>3. CASE i = k
        BY <3>2, <4>2, <4>3
      <4>4. CASE i # k
        <5>1. i \in 0 .. k - 1
          BY <2>4, <4>4
        <5>2. f[i] = ReadEvent(f[i - 1], events[i], i)
          BY <2>5, <3>2, <5>1
        <5> QED BY <3>2, <4>2, <4>4, <5>2
      <4> QED BY <4>3, <4>4
    <3> QED BY <3>1, <3>2
  <2>7. g = Body(k, g)
    BY <2>6
  <2> QED BY <2>2, <2>7
<1>3. \E f : f = Body(L, f)
  <2> DEFINE Loops(k) == \E f : f = Body(k, f)
  <2>1. \A k \in 0 .. L : Loops(k)
    BY <1>2
  <2>2. L \in 0 .. L
    BY <1>1
  <2> HIDE DEF Loops
  <2>3. Loops(L)
    BY <2>1, <2>2
  <2> QED BY <2>3 DEF Loops
<1> DEFINE r == CHOOSE h : h = Body(L, h)
<1>4. r = Body(L, r)
  BY <1>3
<1>5. Recover(events) = r[L]
  BY DEF Recover, L
<1> HIDE DEF r
<1>6. Scanned(r, events, L)
  BY <1>1, <1>4 DEF Scanned
<1> QED BY <1>5, <1>6 DEF L

(* The file of the transactions from m + 1 on, as it grows. *)
Filled(F, m, k) ==
  F[m] = << >> /\ \A i \in (m + 1) .. k : F[i] = F[i - 1] \o EventsOf(binlog[i])

(* There are such files, and the last of them is EventsBetween. *)
LEMMA FileExists ==
  ASSUME NEW m \in Nat, NEW k \in Nat, m <= k
  PROVE  \E F : Filled(F, m, k) /\ EventsBetween(m, k) = F[k]
<1> DEFINE Body(n, f) == [i \in m .. n |-> IF i = m THEN << >>
                                           ELSE f[i - 1] \o EventsOf(binlog[i])]
<1>2. \A n \in m .. k : \E f : f = Body(n, f)
  <2> DEFINE Loops(n) == \E f : f = Body(n, f)
             bad == {n \in m .. k : ~Loops(n)}
  <2>1. SUFFICES ASSUME bad # {} PROVE FALSE
    OBVIOUS
  <2>2. PICK n \in bad : \A j \in bad : n <= j
    <3> HIDE DEF Loops
    <3>1. bad \in SUBSET Nat
      OBVIOUS
    <3> HIDE DEF bad
    <3> QED BY <3>1, <2>1, HasSmallest
  <2>3. n # m
    <3> DEFINE f == [i \in m .. m |-> << >>]
    <3>1. m .. m = {m}
      OBVIOUS
    <3>2. f = Body(m, f)
      BY <3>1
    <3> QED BY <3>2, <2>2
  <2>4. n \in (m + 1) .. k /\ n - 1 \in m .. k /\ n - 1 \notin bad
    <3>1. n \in (m + 1) .. k /\ n - 1 \in m .. k /\ n - 1 < n
      BY <2>2, <2>3
    <3> HIDE DEF bad
    <3> QED BY <3>1, <2>2
  <2>5. PICK f : f = Body(n - 1, f)
    BY <2>4
  <2> DEFINE g == [i \in m .. n |-> IF i = n THEN f[n - 1] \o EventsOf(binlog[n]) ELSE f[i]]
  <2>6. ASSUME NEW i \in m .. n
        PROVE  g[i] = IF i = m THEN << >> ELSE g[i - 1] \o EventsOf(binlog[i])
    <3>1. CASE i = m
      <4>1. m \in m .. n - 1 /\ m # n
        BY <2>4
      <4>2. f[m] = << >>
        BY <2>5, <4>1
      <4> QED BY <3>1, <4>1, <4>2
    <3>2. CASE i # m
      <4>1. i - 1 \in m .. n /\ i - 1 # n
        BY <2>4, <3>2
      <4>2. g[i - 1] = f[i - 1]
        BY <4>1
      <4>3. CASE i = n
        BY <3>2, <4>2, <4>3
      <4>4. CASE i # n
        <5>1. i \in m .. n - 1
          BY <2>4, <4>4
        <5>2. f[i] = f[i - 1] \o EventsOf(binlog[i])
          BY <2>5, <3>2, <5>1
        <5> QED BY <3>2, <4>2, <4>4, <5>2
      <4> QED BY <4>3, <4>4
    <3> QED BY <3>1, <3>2
  <2>7. g = Body(n, g)
    BY <2>6
  <2> QED BY <2>2, <2>7
<1>3. \E f : f = Body(k, f)
  <2> DEFINE Loops(n) == \E f : f = Body(n, f)
  <2>1. \A n \in m .. k : Loops(n)
    BY <1>2
  <2>2. k \in m .. k
    OBVIOUS
  <2> HIDE DEF Loops
  <2>3. Loops(k)
    BY <2>1, <2>2
  <2> QED BY <2>3 DEF Loops
<1> DEFINE r == CHOOSE h : h = Body(k, h)
<1>4. r = Body(k, r)
  BY <1>3
<1>5. EventsBetween(m, k) = r[k]
  BY DEF EventsBetween
<1> HIDE DEF r
<1>6. \A i \in m .. k : r[i] = IF i = m THEN << >> ELSE r[i - 1] \o EventsOf(binlog[i])
  BY <1>4
<1>7. m \in m .. k /\ \A i \in (m + 1) .. k : i \in m .. k /\ i # m
  OBVIOUS
<1>8. r[m] = << >> /\ \A i \in (m + 1) .. k : r[i] = r[i - 1] \o EventsOf(binlog[i])
  BY <1>6, <1>7
<1>9. Filled(r, m, k)
  BY <1>8 DEF Filled
<1> QED BY <1>5, <1>9

(* The scan of a whole transaction. *)
LEMMA ScanTrx ==
  ASSUME NEW f, NEW events, NEW L \in Nat, Scanned(f, events, L), NEW p \in Nat, NEW x, NEW X,
         NEW v, x \notin X, p + Len(EventsOf(x)) <= L,
         \A j \in DOMAIN EventsOf(x) : events[p + j] = EventsOf(x)[j], f[p] = Between(X, v)
  PROVE  f[p + Len(EventsOf(x))] = Between(X \cup {x}, p + Len(EventsOf(x)))
<1>1. \A j \in 1 .. 4 : p + j <= L => f[p + j] = ReadEvent(f[p + (j - 1)], events[p + j], p + j)
  <2> SUFFICES ASSUME NEW j \in 1 .. 4, p + j <= L
               PROVE  f[p + j] = ReadEvent(f[p + (j - 1)], events[p + j], p + j)
    OBVIOUS
  <2>1. p + j \in 1 .. L /\ (p + j) - 1 = p + (j - 1)
    OBVIOUS
  <2> QED BY <2>1 DEF Scanned
<1>2. CASE Len(EventsOf(x)) = 4
  <2>1. /\ events[p + 1] = Event("GTID", x) /\ events[p + 2] = Event("BEGIN", x)
        /\ events[p + 3] = Event("ROWS", x) /\ events[p + 4] = Event("XID", x)
    BY <1>2, EventsOfTrx
  <2>2. p + 1 <= L /\ p + 2 <= L /\ p + 3 <= L /\ p + 4 <= L /\ p + 0 = p
    BY <1>2
  <2>3. f[p + 1] = Between(X, v)
    BY <1>1, <2>1, <2>2, ReadGtid
  <2>4. f[p + 2] = Inside(X, v)
    BY <1>1, <2>1, <2>2, <2>3, ReadBegin
  <2>5. f[p + 3] = Inside(X, v)
    BY <1>1, <2>1, <2>2, <2>4, ReadRows
  <2>6. f[p + 4] = Between(X \cup {x}, p + 4)
    BY <1>1, <2>1, <2>2, <2>5, ReadXid
  <2> QED BY <1>2, <2>6
<1>3. CASE Len(EventsOf(x)) = 2
  <2>1. events[p + 1] = Event("GTID", x) /\ events[p + 2] = Event("DDL", x)
    BY <1>3, EventsOfTrx
  <2>2. p + 1 <= L /\ p + 2 <= L /\ p + 0 = p
    BY <1>3
  <2>3. f[p + 1] = Between(X, v)
    BY <1>1, <2>1, <2>2, ReadGtid
  <2>4. f[p + 2] = Between(X \cup {x}, p + 2)
    BY <1>1, <2>1, <2>2, <2>3, ReadDdl
  <2> QED BY <1>3, <2>4
<1> QED BY <1>2, <1>3, EventsOfTrx

(* The first e events of a transaction, those in front of the cut of a crash. *)
PartRead(events, p, x, e) ==
  e \in 0 .. Len(EventsOf(x)) - 1 /\ \A j \in 1 .. e : events[p + j] = EventsOf(x)[j]

(* The scan of the first events of a transaction the crash cut off. *)
LEMMA ScanPart ==
  ASSUME NEW f, NEW events, NEW p \in Nat, NEW e, NEW x, NEW X, NEW v, Scanned(f, events, p + e),
         PartRead(events, p, x, e), f[p] = Between(X, v)
  PROVE  f[p + e] \in {Between(X, v), Inside(X, v)}
<1> DEFINE L == p + e
<1>0. /\ e \in 0 .. Len(EventsOf(x)) - 1 /\ \A j \in 1 .. e : events[p + j] = EventsOf(x)[j]
      /\ Len(EventsOf(x)) \in {2, 4} /\ Scanned(f, events, L)
  BY EventsOfTrx DEF PartRead
<1>0a. L \in Nat /\ e \in Nat /\ \A j \in 1 .. 4 : j <= e => p + j <= L
  BY <1>0
<1> HIDE DEF L
<1>1. \A j \in 1 .. 4 : p + j <= L => f[p + j] = ReadEvent(f[p + (j - 1)], events[p + j], p + j)
  <2> SUFFICES ASSUME NEW j \in 1 .. 4, p + j <= L
               PROVE  f[p + j] = ReadEvent(f[p + (j - 1)], events[p + j], p + j)
    OBVIOUS
  <2>1. p + j \in 1 .. L /\ (p + j) - 1 = p + (j - 1)
    BY <1>0a
  <2> QED BY <1>0, <2>1 DEF Scanned
<1>3. CASE Len(EventsOf(x)) = 4
  <2>1. /\ EventsOf(x)[1] = Event("GTID", x) /\ EventsOf(x)[2] = Event("BEGIN", x)
        /\ EventsOf(x)[3] = Event("ROWS", x)
    BY <1>3, EventsOfTrx
  <2>2. e \in 0 .. 3 /\ p + 0 = p
    BY <1>0, <1>3
  <2>3. ASSUME e >= 1 PROVE f[p + 1] = Between(X, v)
    <3>1. 1 \in 1 .. e /\ p + 1 <= L
      BY <1>0a, <2>2, <2>3
    <3> QED BY <1>0, <1>1, <2>1, <2>2, <3>1, ReadGtid
  <2>4. ASSUME e >= 2 PROVE f[p + 2] = Inside(X, v)
    <3>1. 2 \in 1 .. e /\ p + 2 <= L /\ e >= 1
      BY <1>0a, <2>2, <2>4
    <3> QED BY <1>0, <1>1, <2>1, <2>3, <3>1, ReadBegin
  <2>5. ASSUME e = 3 PROVE f[p + 3] = Inside(X, v)
    <3>1. 3 \in 1 .. e /\ p + 3 <= L /\ e >= 2
      BY <1>0a, <2>2, <2>5
    <3> QED BY <1>0, <1>1, <2>1, <2>4, <3>1, ReadRows
  <2>6. e \in {0, 1, 2, 3}
    BY <2>2
  <2> QED BY <2>2, <2>3, <2>4, <2>5, <2>6
<1>4. CASE Len(EventsOf(x)) = 2
  <2>1. EventsOf(x)[1] = Event("GTID", x)
    BY EventsOfTrx
  <2>2. e \in {0, 1} /\ p + 0 = p
    BY <1>0, <1>4
  <2>3. ASSUME e = 1 PROVE f[p + 1] = Between(X, v)
    <3>1. 1 \in 1 .. e /\ p + 1 <= L
      BY <1>0a, <2>3
    <3> QED BY <1>0, <1>1, <2>1, <2>2, <3>1, ReadGtid
  <2> QED BY <2>2, <2>3
<1> QED BY <1>3, <1>4, EventsOfTrx

(* The events of transactions of T. *)
EventSet(T) == [type : EventTypes, xid : T]

(* The events of one transaction. *)
LEMMA EventsSeq ==
  ASSUME NEW T, NEW x \in T
  PROVE  EventsOf(x) \in Seq(EventSet(T)) /\ Len(EventsOf(x)) \in {2, 4}
<1>1. \A type \in EventTypes : Event(type, x) \in EventSet(T)
  BY DEF Event, EventSet
<1>2. /\ Event("GTID", x) \in EventSet(T) /\ Event("BEGIN", x) \in EventSet(T)
      /\ Event("ROWS", x) \in EventSet(T) /\ Event("XID", x) \in EventSet(T)
      /\ Event("DDL", x) \in EventSet(T)
  BY <1>1 DEF EventTypes
<1> DEFINE S == EventSet(T)
<1> HIDE DEF S
<1>3. \A a, b, c, d \in S : <<a, b>> \in Seq(S) /\ <<a, b, c, d>> \in Seq(S)
  OBVIOUS
<1>4. EventsOf(x) \in Seq(S)
  BY <1>2, <1>3 DEF EventsOf, S
<1> QED BY <1>4, EventsOfTrx DEF S

(* All of the transactions m + 1 to k are in T, and different. *)
AllIn(T, m, k) == \A i \in (m + 1) .. k : binlog[i] \in T

AllDifferent(m, k) == \A i, j \in (m + 1) .. k : binlog[i] = binlog[j] => i = j

(* Behind position p the file goes on with the events of x. *)
Continues(s, p, x) == \A j \in DOMAIN EventsOf(x) : s[p + j] = EventsOf(x)[j]

(* One transaction more in the file. *)
LEMMA FileStep ==
  ASSUME NEW T, NEW a \in Seq(EventSet(T)), NEW x \in T, NEW c, c = a \o EventsOf(x)
  PROVE  /\ c \in Seq(EventSet(T)) /\ Len(a) \in Nat
         /\ Len(c) = Len(a) + Len(EventsOf(x)) /\ Len(c) \in Nat
         /\ \A j \in 1 .. Len(a) : c[j] = a[j]
         /\ Continues(c, Len(a), x)
<1> DEFINE b == EventsOf(x)
<1>1. a \in Seq(EventSet(T)) /\ b \in Seq(EventSet(T)) /\ c = a \o b
  BY EventsSeq
<1> HIDE DEF b
<1>2. /\ c \in Seq(EventSet(T)) /\ Len(a) \in Nat /\ Len(b) \in Nat
      /\ DOMAIN c = 1 .. (Len(a) + Len(b)) /\ DOMAIN b = 1 .. Len(b)
      /\ \A j \in 1 .. Len(a) : c[j] = a[j]
      /\ \A j \in (Len(a) + 1) .. (Len(a) + Len(b)) : c[j] = b[j - Len(a)]
  BY <1>1, ConcatIndex
<1>3. Len(c) = Len(a) + Len(b)
  BY <1>1, ConcatProperties
<1>4. \A j \in DOMAIN b : c[Len(a) + j] = b[j]
  <2> SUFFICES ASSUME NEW j \in DOMAIN b PROVE c[Len(a) + j] = b[j]
    OBVIOUS
  <2>1. Len(a) + j \in (Len(a) + 1) .. (Len(a) + Len(b)) /\ (Len(a) + j) - Len(a) = j
    BY <1>2
  <2> QED BY <1>2, <2>1
<1>5. /\ c \in Seq(EventSet(T)) /\ Len(a) \in Nat
      /\ Len(c) = Len(a) + Len(b) /\ Len(c) \in Nat
      /\ \A j \in 1 .. Len(a) : c[j] = a[j]
      /\ \A j \in DOMAIN b : c[Len(a) + j] = b[j]
  BY <1>2, <1>3, <1>4
<1> QED BY <1>5 DEF Continues, b

(* Each file is a sequence of events, ... *)
LEMMA FilesAreSeqs ==
  ASSUME NEW T, NEW m \in Nat, NEW k \in Nat, NEW F, Filled(F, m, k), AllIn(T, m, k)
  PROVE  \A i \in m .. k : F[i] \in Seq(EventSet(T)) /\ Len(F[i]) \in Nat
<1> DEFINE bad == {i \in m .. k : F[i] \notin Seq(EventSet(T))}
<1>1. bad = {}
  <2> SUFFICES ASSUME bad # {} PROVE FALSE
    OBVIOUS
  <2>1. bad \in SUBSET Nat
    OBVIOUS
  <2>2. PICK i \in bad : \A j \in bad : i <= j
    <3> HIDE DEF bad
    <3> QED BY <2>1, HasSmallest
  <2>3. i # m
    <3>1. << >> \in Seq(EventSet(T))
      BY EmptySeq
    <3> QED BY <2>2, <3>1 DEF Filled
  <2>4. i \in (m + 1) .. k /\ i - 1 \in m .. k /\ i - 1 < i
    BY <2>2, <2>3
  <2>5. i - 1 \notin bad
    <3> HIDE DEF bad
    <3> QED BY <2>2, <2>4
  <2>6. F[i - 1] \in Seq(EventSet(T)) /\ F[i] = F[i - 1] \o EventsOf(binlog[i])
    BY <2>4, <2>5 DEF Filled
  <2>7. F[i] \in Seq(EventSet(T))
    BY <2>4, <2>6, FileStep DEF AllIn
  <2> QED BY <2>2, <2>7
<1> QED BY <1>1, LenProperties

(* b begins with a. *)
Starts(a, b) == Len(a) <= Len(b) /\ \A j \in 1 .. Len(a) : b[j] = a[j]

(* A file with more transactions begins with the one that has fewer. *)
LEMMA FilesGrow ==
  ASSUME NEW T, NEW m \in Nat, NEW k \in Nat, NEW F, Filled(F, m, k), AllIn(T, m, k),
         NEW i \in m .. k
  PROVE  Starts(F[i], F[k])
<1> DEFINE bad == {n \in i .. k : ~Starts(F[i], F[n])}
<1>1. bad = {}
  <2> SUFFICES ASSUME bad # {} PROVE FALSE
    OBVIOUS
  <2>1. bad \in SUBSET Nat
    OBVIOUS
  <2>2. PICK n \in bad : \A j \in bad : n <= j
    <3> HIDE DEF bad
    <3> QED BY <2>1, HasSmallest
  <2>3. Len(F[i]) \in Nat
    BY FilesAreSeqs
  <2>4. n # i
    BY <2>2, <2>3 DEF Starts
  <2>5. n \in (m + 1) .. k /\ n - 1 \in i .. k /\ n - 1 < n /\ n - 1 \in m .. k
    BY <2>2, <2>4
  <2>6. n - 1 \notin bad
    <3> HIDE DEF bad
    <3> QED BY <2>2, <2>5
  <2>7. Starts(F[i], F[n - 1])
    BY <2>5, <2>6
  <2>8. F[n - 1] \in Seq(EventSet(T)) /\ F[n] = F[n - 1] \o EventsOf(binlog[n]) /\ binlog[n] \in T
    <3>1. F[n - 1] \in Seq(EventSet(T))
      BY <2>5, FilesAreSeqs
    <3> QED BY <2>5, <3>1 DEF Filled, AllIn
  <2>9. /\ Len(F[n - 1]) \in Nat /\ Len(F[n]) = Len(F[n - 1]) + Len(EventsOf(binlog[n]))
        /\ \A j \in 1 .. Len(F[n - 1]) : F[n][j] = F[n - 1][j]
    <3> DEFINE a == F[n - 1]
               c == F[n]
               y == binlog[n]
    <3>1. a \in Seq(EventSet(T)) /\ y \in T /\ c = a \o EventsOf(y)
      BY <2>8
    <3> HIDE DEF a, c, y
    <3>2. /\ Len(a) \in Nat /\ Len(c) = Len(a) + Len(EventsOf(y))
          /\ \A j \in 1 .. Len(a) : c[j] = a[j]
      BY <3>1, FileStep
    <3> QED BY <3>2 DEF a, c, y
  <2>10. Len(EventsOf(binlog[n])) \in Nat
    BY <2>8, EventsSeq
  <2>11. Starts(F[i], F[n])
    <3> DEFINE l == Len(F[i])
               a == F[n - 1]
               c == F[n]
               d == Len(EventsOf(binlog[n]))
    <3>1. /\ l \in Nat /\ d \in Nat /\ Len(a) \in Nat /\ Len(c) = Len(a) + d /\ l <= Len(a)
          /\ \A j \in 1 .. l : a[j] = F[i][j]
          /\ \A j \in 1 .. Len(a) : c[j] = a[j]
      BY <2>3, <2>7, <2>9, <2>10 DEF Starts
    <3> HIDE DEF l, a, c, d
    <3>2. l <= Len(c) /\ \A j \in 1 .. l : c[j] = F[i][j]
      BY <3>1
    <3> QED BY <3>2 DEF Starts, l, c
  <2> QED BY <2>2, <2>11
<1> QED BY <1>1

(* The scan of whole transactions finds their XIDs. *)
LEMMA ScanFile ==
  ASSUME NEW T, NEW m \in Nat, NEW k \in Nat, m <= k, NEW F, Filled(F, m, k),
         AllIn(T, m, k), AllDifferent(m, k), NEW events, Len(events) \in Nat,
         NEW f, Scanned(f, events, Len(events)), Starts(F[k], events)
  PROVE  f[Len(F[k])] = Between(Logged(m + 1, k), Len(F[k]))
<1> DEFINE Good(i) == f[Len(F[i])] = Between(Logged(m + 1, i), Len(F[i]))
           bad == {i \in m .. k : ~Good(i)}
<1>1. bad = {}
  <2> SUFFICES ASSUME bad # {} PROVE FALSE
    OBVIOUS
  <2>1. bad \in SUBSET Nat
    <3> HIDE DEF Good
    <3> QED OBVIOUS
  <2>2. PICK i \in bad : \A j \in bad : i <= j
    <3> HIDE DEF bad
    <3> QED BY <2>1, HasSmallest
  <2>3. i # m
    <3>1. F[m] = << >> /\ Len(<< >>) = 0
      BY EmptySeq DEF Filled
    <3>2. Logged(m + 1, m) = {}
      BY DEF Logged
    <3>3. f[0] = Between({}, 0)
      BY DEF Scanned, NewScan, Between, ScanState
    <3>4. Good(m)
      BY <3>1, <3>2, <3>3
    <3> HIDE DEF Good
    <3> QED BY <2>2, <3>4
  <2>4. i \in (m + 1) .. k /\ i - 1 \in m .. k /\ i - 1 < i /\ i \in m .. k
    <3> HIDE DEF Good
    <3> QED BY <2>2, <2>3
  <2>5. i - 1 \notin bad
    <3> HIDE DEF bad
    <3> QED BY <2>2, <2>4
  <2> DEFINE x == binlog[i]
             X == Logged(m + 1, i - 1)
             p == Len(F[i - 1])
  <2>6. f[p] = Between(X, p)
    BY <2>4, <2>5
  <2>7. x \notin X
    <3> SUFFICES ASSUME NEW j \in (m + 1) .. (i - 1), binlog[j] = x PROVE FALSE
      BY DEF Logged
    <3>1. j \in (m + 1) .. k /\ j # i
      BY <2>4
    <3> QED BY <2>4, <3>1 DEF AllDifferent
  <2>8. X \cup {x} = Logged(m + 1, i)
    <3>1. (m + 1) .. i = ((m + 1) .. (i - 1)) \cup {i}
      BY <2>4
    <3> QED BY <3>1 DEF Logged
  <2>9. F[i - 1] \in Seq(EventSet(T)) /\ F[i] = F[i - 1] \o EventsOf(x) /\ x \in T
    <3>1. F[i - 1] \in Seq(EventSet(T))
      BY <2>4, FilesAreSeqs
    <3> QED BY <2>4, <3>1 DEF Filled, AllIn
  <2>10. /\ p \in Nat /\ Len(F[i]) = p + Len(EventsOf(x)) /\ Len(F[i]) \in Nat
         /\ \A j \in DOMAIN EventsOf(x) : F[i][p + j] = EventsOf(x)[j]
    <3> DEFINE a == F[i - 1]
               c == F[i]
    <3>1. a \in Seq(EventSet(T)) /\ x \in T /\ c = a \o EventsOf(x)
      BY <2>9
    <3> HIDE DEF a, c, x
    <3>2. Len(a) \in Nat /\ Len(c) = Len(a) + Len(EventsOf(x)) /\ Len(c) \in Nat
      BY <3>1, FileStep
    <3>3. Continues(c, Len(a), x)
      BY <3>1, FileStep
    <3> QED BY <3>2, <3>3 DEF Continues, a, c
  <2>11. Starts(F[i], F[k]) /\ Len(F[k]) \in Nat
    <3>1. k \in m .. k
      OBVIOUS
    <3> QED BY <2>4, <3>1, FilesGrow, FilesAreSeqs
  <2>12. DOMAIN EventsOf(x) = 1 .. Len(EventsOf(x)) /\ Len(EventsOf(x)) \in Nat
    BY EventsOfTrx
  <2> HIDE DEF x, X, p
  <2>13. \A j \in DOMAIN EventsOf(x) : events[p + j] = EventsOf(x)[j]
    <3> SUFFICES ASSUME NEW j \in DOMAIN EventsOf(x) PROVE events[p + j] = EventsOf(x)[j]
      OBVIOUS
    <3>1. p + j \in 1 .. Len(F[i]) /\ p + j \in 1 .. Len(F[k])
      BY <2>10, <2>11, <2>12 DEF Starts
    <3> QED BY <2>10, <2>11, <3>1 DEF Starts
  <2>14. p + Len(EventsOf(x)) <= Len(events)
    BY <2>10, <2>11 DEF Starts
  <2>15. f[p + Len(EventsOf(x))] = Between(X \cup {x}, p + Len(EventsOf(x)))
    BY <2>6, <2>7, <2>10, <2>13, <2>14, ScanTrx
  <2>16. Good(i)
    BY <2>8, <2>10, <2>15
  <2> HIDE DEF Good
  <2> QED BY <2>2, <2>16
<1> HIDE DEF Good
<1>2. Good(k)
  BY <1>1
<1> QED BY <1>2 DEF Good

(* The scan of the file a crash leaves behind. *)
LEMMA ScanLastFile ==
  ASSUME NEW T, NEW k \in Nat, rotated \in Nat, rotated <= k, k <= Len(binlog), Len(binlog) \in Nat,
         \A i \in 1 .. Len(binlog) : binlog[i] \in T,
         \A i, j \in 1 .. Len(binlog) : binlog[i] = binlog[j] => i = j,
         NEW e \in EventsOnDisk(k)
  PROVE  LET X == Logged(rotated + 1, k)
             v == Len(EventsBetween(rotated, k))
         IN Recover(LastFile(k, e)) \in {Between(X, v), Inside(X, v)}
<1> DEFINE m == rotated
           X == Logged(m + 1, k)
           events == LastFile(k, e)
           tail == IF e = 0 THEN << >> ELSE SubSeq(EventsOf(binlog[k + 1]), 1, e)
<1>1. PICK F : Filled(F, m, k) /\ EventsBetween(m, k) = F[k]
  BY FileExists
<1> DEFINE v == Len(F[k])
<1>2. AllIn(T, m, k) /\ AllDifferent(m, k) /\ k \in m .. k
  BY DEF AllIn, AllDifferent
<1>3. F[k] \in Seq(EventSet(T)) /\ v \in Nat
  BY <1>1, <1>2, FilesAreSeqs
<1>4. /\ e \in Nat /\ tail \in Seq(EventSet(T)) /\ Len(tail) = e
      /\ \A j \in 1 .. e : tail[j] = EventsOf(binlog[k + 1])[j]
      /\ e # 0 => k < Len(binlog) /\ e \in 0 .. Len(EventsOf(binlog[k + 1])) - 1
  <2>1. CASE e = 0
    BY <2>1, EmptySeq
  <2>2. CASE e # 0
    <3>1. k < Len(binlog) /\ e \in 0 .. Len(EventsOf(binlog[k + 1])) - 1
      BY <2>2 DEF EventsOnDisk
    <3>2. binlog[k + 1] \in T
      BY <3>1
    <3>3. EventsOf(binlog[k + 1]) \in Seq(EventSet(T)) /\ Len(EventsOf(binlog[k + 1])) \in {2, 4}
      BY <3>2, EventsSeq
    <3>4. e \in 0 .. Len(EventsOf(binlog[k + 1])) /\ e \in Nat
      BY <3>1, <3>3
    <3>5. tail = SubSeq(EventsOf(binlog[k + 1]), 1, e)
      BY <2>2
    <3> HIDE DEF tail
    <3> QED BY <3>1, <3>3, <3>4, <3>5, Beginnings
  <2> QED BY <2>1, <2>2
<1>5. events = F[k] \o tail
  BY <1>1 DEF LastFile
<1> HIDE DEF events, tail, v
<1>6. /\ Len(events) = v + e
      /\ \A j \in 1 .. v : events[j] = F[k][j]
      /\ \A j \in (v + 1) .. (v + e) : events[j] = tail[j - v] /\ j - v \in 1 .. e
  <2> DEFINE a == F[k]
  <2> HIDE DEF a
  <2>1. a \in Seq(EventSet(T)) /\ events = a \o tail /\ v = Len(a)
    BY <1>3, <1>5 DEF a, v
  <2>2. Len(events) = v + e
    BY <1>4, <2>1, ConcatProperties
  <2>3. /\ \A j \in 1 .. v : events[j] = a[j]
        /\ \A j \in (v + 1) .. (v + e) : events[j] = tail[j - v] /\ j - v \in 1 .. e
    BY <1>4, <2>1, ConcatIndex
  <2> QED BY <2>2, <2>3 DEF a
<1>7. PICK f : Scanned(f, events, Len(events)) /\ Recover(events) = f[Len(events)]
  BY <1>3, <1>4, <1>6, ScanExists
<1>8. v + e \in Nat /\ v <= v + e
  BY <1>3, <1>4
<1>9. f[v] = Between(X, v)
  <2>1. Starts(F[k], events) /\ Len(events) \in Nat
    BY <1>6, <1>8 DEF Starts, v
  <2> QED BY <1>1, <1>2, <1>7, <2>1, ScanFile DEF v
<1>10. f[v + e] \in {Between(X, v), Inside(X, v)}
  <2>1. CASE e = 0
    BY <1>3, <1>9, <2>1
  <2>2. CASE e # 0
    <3>1. \A j \in 1 .. e : events[v + j] = EventsOf(binlog[k + 1])[j]
      <4> SUFFICES ASSUME NEW j \in 1 .. e
                   PROVE  events[v + j] = EventsOf(binlog[k + 1])[j]
        OBVIOUS
      <4>1. v + j \in (v + 1) .. (v + e) /\ (v + j) - v = j
        BY <1>3, <1>4
      <4> QED BY <1>4, <1>6, <4>1
    <3>2. e \in 0 .. Len(EventsOf(binlog[k + 1])) - 1
      BY <1>4, <2>2
    <3> HIDE DEF X
    <3>3. Scanned(f, events, v + e)
      BY <1>6, <1>7
    <3>4. PartRead(events, v, binlog[k + 1], e)
      BY <3>1, <3>2 DEF PartRead
    <3> QED BY <1>3, <1>9, <3>3, <3>4, ScanPart
  <2> QED BY <2>1, <2>2
<1>11. Recover(events) \in {Between(X, v), Inside(X, v)}
  BY <1>6, <1>7, <1>10
<1> QED BY <1>1, <1>11 DEF events, v

(* What the inductive invariants say about a crash. *)
LEMMA RecoverableIsConsistent ==
  ASSUME IInv, Sending, LoggedOnce, Recoverable
  PROVE  CrashConsistent
<1>1. /\ binlog \in Seq(Trxs) /\ DOMAIN binlog = 1 .. Len(binlog) /\ Len(binlog) \in Nat
      /\ rotated \in Nat /\ synced \in Nat
  BY LenProperties DEF IInv, CommitTypeOK, StageTypeOK, LogTypeOK
<1>2. \A i \in 1 .. Len(binlog) : binlog[i] \in Trxs
  BY <1>1, ElementOfSeq
<1>3. \A i, j \in 1 .. Len(binlog) : binlog[i] = binlog[j] => i = j
  BY <1>1 DEF LoggedOnce, Distinct
<1>4. /\ redo_committed \subseteq Members(committed) /\ redo_prepared \subseteq prepared
      /\ \A i \in DOMAIN binlog : binlog[i] \in redo_prepared
      /\ rotated <= synced /\ \A i \in 1 .. rotated : binlog[i] \in redo_committed
      /\ \A x \in Members(committed) : \E i \in 1 .. synced : binlog[i] = x
  BY DEF Recoverable, RedoIsTrue, LoggedIsPrepared, RotatedIsCommitted, CommittedIsSynced
<1> SUFFICES ASSUME NEW k \in synced .. Len(binlog), NEW e \in EventsOnDisk(k)
             PROVE  LET scan == Recover(LastFile(k, e))
                    IN /\ ~scan.is_malformed
                       /\ scan.valid_pos = Len(EventsBetween(rotated, k))
                       /\ \A P \in SUBSET (prepared \ redo_prepared),
                             C \in SUBSET (Members(committed) \ redo_committed) :
                            redo_committed \cup C \cup RecoveredTrxs(scan, redo_prepared \cup P)
                              = Logged(1, k)
  BY DEF CrashConsistent
<1> DEFINE scan == Recover(LastFile(k, e))
           X == Logged(rotated + 1, k)
           v == Len(EventsBetween(rotated, k))
<1>5. k \in Nat /\ rotated <= k /\ k <= Len(binlog)
  BY <1>1, <1>4
<1>6. scan \in {Between(X, v), Inside(X, v)}
  BY <1>1, <1>2, <1>3, <1>5, ScanLastFile
<1> HIDE DEF scan, X, v
<1>7. ~scan.is_malformed /\ scan.internal_xids = X /\ scan.valid_pos = v
  <2>1. CASE scan = Between(X, v)
    BY <2>1, BetweenFields
  <2>2. CASE scan = Inside(X, v)
    BY <2>2, InsideFields
  <2> QED BY <1>6, <2>1, <2>2
<1>8. ASSUME NEW P \in SUBSET (prepared \ redo_prepared),
             NEW C \in SUBSET (Members(committed) \ redo_committed)
      PROVE  redo_committed \cup C \cup RecoveredTrxs(scan, redo_prepared \cup P) = Logged(1, k)
  <2>1. RecoveredTrxs(scan, redo_prepared \cup P) = (redo_prepared \cup P) \cap X
    BY <1>7 DEF RecoveredTrxs
  <2>2. ASSUME NEW x \in Members(committed) PROVE x \in Logged(1, k)
    <3>1. PICK i \in 1 .. synced : binlog[i] = x
      BY <1>4, <2>2
    <3>2. i \in 1 .. k
      BY <1>1, <3>1
    <3> QED BY <3>1, <3>2 DEF Logged
  <2>3. X \subseteq Logged(1, k)
    <3>1. \A i \in (rotated + 1) .. k : i \in 1 .. k
      BY <1>1, <1>5
    <3> QED BY <3>1 DEF X, Logged
  <2>4. ASSUME NEW i \in 1 .. k
        PROVE  binlog[i] \in redo_committed \cup (redo_prepared \cap X)
    <3>1. CASE i <= rotated
      <4>1. i \in 1 .. rotated
        BY <1>1, <1>5, <3>1
      <4> QED BY <1>4, <4>1
    <3>2. CASE i > rotated
      <4>1. i \in (rotated + 1) .. k /\ i \in DOMAIN binlog
        BY <1>1, <1>5, <3>2
      <4> QED BY <1>4, <4>1 DEF X, Logged
    <3> QED BY <1>1, <1>5, <3>1, <3>2
  <2>5. Logged(1, k) \subseteq redo_committed \cup (redo_prepared \cap X)
    BY <2>4 DEF Logged
  <2> QED BY <1>4, <2>1, <2>2, <2>3, <2>5
<1> QED BY <1>7, <1>8 DEF scan, v

(* open_binlog and ha_recover after a crash of ordered_commit at any       *)
(* moment, for any number of sessions, rotations and groups and with       *)
(* commits in any order: wherever the crash cuts off the binary log behind *)
(* what was synced, and whatever else of the redo log reached the disk,    *)
(* recovery finds the last file well formed, cuts it off behind a whole    *)
(* transaction and leaves the engine with exactly the transactions of the  *)
(* log - with sync_binlog=1, if the server stops on an error of the log    *)
(* and every cache can be written.  An fsync may fail.                     *)
THEOREM CrashConsistentHolds ==
  ASSUME NoOrderWorkers, StopsOnError, CachesFit, SyncPeriod = 1
  PROVE  Spec => []CrashConsistent
<1>1. Init => Durable /\ Recoverable
  BY InitDurable, InitRecoverable
<1>2. IInv /\ IInv' /\ Linked /\ Sending /\ Durable /\ [Next]_vars => Durable'
  BY NextDurable
<1>3. IInv /\ IInv' /\ Linked /\ Sending /\ PrepXidsCoverLog /\ Durable /\ Recoverable /\ [Next]_vars
        => Recoverable'
  BY NextRecoverable
<1>4. IInv /\ Sending /\ LoggedOnce /\ Recoverable => CrashConsistent
  BY RecoverableIsConsistent
<1>5. Spec => []IInv
  BY Invariance
<1> QED BY <1>1, <1>2, <1>3, <1>4, <1>5, LinkedInvariance, SendingInvariance, LoggedOnceInvariance,
        PrepXidsCoverLogHolds, PTL DEF Spec

-----------------------------------------------------------------------------
(***************************************************************************)
(* The numbers of the transactions in the pipeline.  The further a session *)
(* is, the smaller its number, because each part of the pipeline is taken  *)
(* over as a whole; so what the commit stage gives to gtid_executed are    *)
(* always the smallest numbers in use.                                     *)
(***************************************************************************)

(* How a session leaves a region. *)
Exits(S, C, t, u) ==
  \/ InPlaceAction(t) /\ pc[t] \in C /\ pc'[t] \notin C /\ u \in Members(list[t])
  \/ FetchAction(t) /\ pc[t] \in S /\ pc'[t] \notin C
  \/ ChangeAction(t) /\ pc[t] \in C /\ NextStage[pc[t]] \notin S /\ u \in Members(list[t])
  \/ Signal(t) /\ pc[t] \in C /\ u \in Members(list[t])

(* The elements of a are in c. *)
Contains(c, a) == \A k \in DOMAIN a : \E i \in DOMAIN c : c[i] = a[k]

(* A concatenation contains both its parts. *)
LEMMA ConcatKeeps ==
  ASSUME NEW S, NEW a \in Seq(S), NEW b \in Seq(S), NEW c, c = a \o b
  PROVE  Contains(c, a) /\ Contains(c, b)
<1>1. /\ Len(a) \in Nat /\ Len(b) \in Nat /\ DOMAIN a = 1 .. Len(a) /\ DOMAIN b = 1 .. Len(b)
      /\ DOMAIN c = 1 .. (Len(a) + Len(b))
      /\ \A i \in 1 .. Len(a) : c[i] = a[i]
      /\ \A i \in (Len(a) + 1) .. (Len(a) + Len(b)) : c[i] = b[i - Len(a)]
  BY ConcatIndex
<1>2. ASSUME NEW k \in DOMAIN b PROVE \E i \in DOMAIN c : c[i] = b[k]
  <2>1. /\ Len(a) + k \in (Len(a) + 1) .. (Len(a) + Len(b)) /\ (Len(a) + k) - Len(a) = k
        /\ Len(a) + k \in DOMAIN c
    BY <1>1
  <2>2. c[Len(a) + k] = b[k]
    BY <1>1, <2>1
  <2> QED BY <2>1, <2>2
<1>3. ASSUME NEW k \in DOMAIN a PROVE k \in DOMAIN c /\ c[k] = a[k]
  BY <1>1
<1> QED BY <1>2, <1>3 DEF Contains

(* Whoever is linked at p or q is linked at q when p was emptied into it. *)
LEMMA MoveKeeps ==
  ASSUME NoOrderWorkers, IInv, NEW t \in BinlogThds, NEW p \in Places, NEW q \in Places,
         MovesTo(t, p, q)
  PROVE  /\ \A k \in DOMAIN Held[p] : \E i \in DOMAIN Held'[q] : Held'[q][i] = Held[p][k]
         /\ \A k \in DOMAIN Held[q] : \E i \in DOMAIN Held'[q] : Held'[q][i] = Held[q][k]
<1> DEFINE a == Held[q]
           b == Held[p]
           c == Held'[q]
<1>1. a \in Seq(BinlogThds) /\ b \in Seq(BinlogThds) /\ c = a \o b
  BY HeldBefore DEF MovesTo
<1> HIDE DEF a, b, c
<1>2. Contains(c, a) /\ Contains(c, b)
  BY <1>1, ConcatKeeps
<1> QED BY <1>2 DEF Contains, a, b, c

(* A session that is in a region stays there, or leaves it. *)
LEMMA RegionStays ==
  ASSUME NoOrderWorkers, IInv, IInv', Linked, NEW CONSTANT S, NEW CONSTANT C,
         NEW t \in BinlogThds, Prepare(t) \/ FlushLogs(t) \/ BinlogStep(t),
         NEW u \in Region(S, C)
  PROVE  u \in Region(S, C)' \/ Exits(S, C, t, u)
<1>1. PICK q \in Places : InRegion(S, C, q) /\ \E i \in DOMAIN Held[q] : Held[q][i] = u
  BY DEF Region
<1>2. PICK i \in DOMAIN Held[q] : Held[q][i] = u
  BY <1>1
<1>3. u \in BinlogThds /\ InRegion(S, C, q) <=> IF q[1] = "queue" THEN q[2] \in S ELSE pc[q[2]] \in C
  BY DEF InRegion, Region
<1>4. ASSUME NEW p \in Places, IF p[1] = "queue" THEN p[2] \in S ELSE pc'[p[2]] \in C,
             NEW k \in DOMAIN Held'[p], Held'[p][k] = u
      PROVE  u \in Region(S, C)'
  <2>1. InRegion(S, C, p)'
    BY <1>4 DEF InRegion
  <2>2. u \in BinlogThds
    BY DEF Region
  <2> QED BY <1>4, <2>1, <2>2 DEF Region
<1>5. ASSUME Held'[q] = Held[q], q[1] = "queue" \/ pc'[q[2]] = pc[q[2]]
      PROVE  u \in Region(S, C)'
  <2>1. IF q[1] = "queue" THEN q[2] \in S ELSE pc'[q[2]] \in C
    BY <1>1, <1>5 DEF InRegion
  <2> HIDE DEF Held
  <2> QED BY <1>2, <1>4, <1>5, <2>1
<1> HIDE DEF Held
<1>6. CASE InPlaceAction(t)
  <2>1. PICK l : InPlace(t, l)
    BY <1>6, InPlaceActions
  <2>2. Held' = Held
    BY <2>1, InPlaceStep
  <2>3. pc'[t] = l /\ \A v \in BinlogThds \ {t} : pc'[v] = pc[v]
    BY <2>1, ThdsFacts DEF InPlace, Goto, IInv, CommitTypeOK, StageTypeOK, PcTypeOK
  <2>4. CASE q[1] = "queue" \/ q # <<"list", t>>
    BY <1>5, <2>2, <2>3, <2>4, PlaceCases
  <2>5. CASE q = <<"list", t>>
    <3>1. pc[t] \in C
      BY <1>1, <2>5, PlaceCases DEF InRegion
    <3>2. CASE pc'[t] \in C
      BY <1>2, <1>4, <2>2, <2>5, <3>2, PlaceCases
    <3>3. u \in Members(list[t])
      BY <1>2, <2>5, HeldBefore DEF Members
    <3> QED BY <1>6, <3>1, <3>2, <3>3 DEF Exits
  <2> QED BY <2>4, <2>5
<1>7. CASE StillAction(t)
  BY <1>5, <1>7, StillActions, StillStep
<1>8. CASE FetchAction(t)
  <2>1. PICK s \in Stages : MovesTo(t, <<"queue", s>>, <<"list", t>>) /\ pc[t] = s
    BY <1>8, FetchActions DEF Stages
  <2> DEFINE p == <<"queue", s>>
             r == <<"list", t>>
  <2>2. p \in Places /\ r \in Places /\ p # r /\ p[1] = "queue" /\ p[2] = s /\ r[1] # "queue" /\ r[2] = t
    BY PlaceCases
  <2>3. q # r
    <3>1. Held[r] = << >>
      BY <2>1, HeldBefore DEF Stages, LeaderPcs
    <3> QED BY <1>2, <3>1
  <2>4. CASE q # p
    <3>1. q[1] = "queue" \/ pc'[q[2]] = pc[q[2]]
      BY <2>1, <2>3, PlaceCases DEF MovesTo
    <3> QED BY <1>5, <2>1, <2>3, <2>4, <3>1 DEF MovesTo
  <2>5. CASE q = p
    <3>1. s \in S
      BY <1>1, <2>2, <2>5 DEF InRegion
    <3>2. \E k \in DOMAIN Held'[r] : Held'[r][k] = u
      BY <1>2, <2>1, <2>2, <2>5, MoveKeeps
    <3>3. CASE pc'[t] \in C
      BY <1>4, <2>2, <3>2, <3>3
    <3> QED BY <1>8, <2>1, <3>1, <3>3 DEF Exits
  <2> QED BY <2>4, <2>5
<1>9. CASE ChangeAction(t)
  <2>1. PICK s \in {"SYNC", "COMMIT", "AFTER_COMMIT"} :
          MovesTo(t, <<"list", t>>, <<"queue", s>>) /\ NextStage[pc[t]] = s
    BY <1>9, ChangeActions DEF NextStage
  <2> DEFINE p == <<"list", t>>
             r == <<"queue", s>>
  <2>2. p \in Places /\ r \in Places /\ p # r /\ r[1] = "queue" /\ r[2] = s /\ p[1] # "queue" /\ p[2] = t
    BY PlaceCases DEF Stages
  <2>3. CASE q = p
    <3>1. pc[t] \in C
      BY <1>1, <2>2, <2>3 DEF InRegion
    <3>2. \E k \in DOMAIN Held'[r] : Held'[r][k] = u
      BY <1>2, <2>1, <2>2, <2>3, MoveKeeps
    <3>3. CASE s \in S
      BY <1>4, <2>2, <3>2, <3>3
    <3>4. u \in Members(list[t])
      BY <1>2, <2>3, HeldBefore DEF Members
    <3> QED BY <1>9, <2>1, <3>1, <3>3, <3>4 DEF Exits
  <2>4. CASE q = r
    <3>1. \E k \in DOMAIN Held'[r] : Held'[r][k] = u
      BY <1>2, <2>1, <2>2, <2>4, MoveKeeps
    <3>2. s \in S
      BY <1>1, <2>2, <2>4 DEF InRegion
    <3> QED BY <1>4, <2>2, <3>1, <3>2
  <2>5. CASE q # p /\ q # r
    <3>1. q[1] = "queue" \/ pc'[q[2]] = pc[q[2]]
      BY <2>1, <2>5, PlaceCases DEF MovesTo
    <3> QED BY <1>5, <2>1, <2>5, <3>1 DEF MovesTo
  <2> QED BY <2>3, <2>4, <2>5
<1>10. CASE Signal(t)
  <2>1. \A p \in Places \ {<<"list", t>>} : Held'[p] = Held[p]
    BY <1>10, SignalStep
  <2>2. \A v \in BinlogThds \ {t} : pc'[v] = pc[v]
    BY <1>10, ThdsFacts DEF Signal, Goto, IInv, CommitTypeOK, StageTypeOK, PcTypeOK
  <2>3. CASE q = <<"list", t>>
    <3>1. pc[t] \in C
      BY <1>1, <2>3, PlaceCases DEF InRegion
    <3>2. u \in Members(list[t])
      BY <1>2, <2>3, HeldBefore DEF Members
    <3> QED BY <1>10, <3>1, <3>2 DEF Exits
  <2>4. CASE q # <<"list", t>>
    BY <1>5, <2>1, <2>2, <2>4, PlaceCases
  <2> QED BY <2>3, <2>4
<1>11. CASE OrderedCommit(t)
  <2> DEFINE r == <<"queue", "BINLOG_FLUSH">>
  <2>1. r \in Places /\ r[1] = "queue" /\ r[2] = "BINLOG_FLUSH"
    BY PlaceCases DEF Stages
  <2>2. \A p \in Places \ {r} : Held'[p] = Held[p]
    BY <1>11, JoinStep
  <2>3. /\ pc[t] = "prepared" /\ \A v \in BinlogThds \ {t} : pc'[v] = pc[v]
    BY <1>11, ThdsFacts DEF OrderedCommit, EnrollFor, IInv, CommitTypeOK, StageTypeOK, PcTypeOK
  <2>4. CASE q = r
    <3>1. Held[r] \in Seq(BinlogThds) /\ Held'[r] = Held[r] \o <<t>>
      <4>0. "BINLOG_FLUSH" \in Stages
        BY DEF Stages
      <4>1. queue["BINLOG_FLUSH"] \in Seq(BinlogThds) /\ Held[r] = queue["BINLOG_FLUSH"]
        BY <2>1, <4>0, HeldBefore
      <4>2. queue'["BINLOG_FLUSH"] = queue["BINLOG_FLUSH"] \o <<t>>
        BY <1>11, <4>0, <4>1 DEF OrderedCommit, EnrollFor, IInv, CommitTypeOK, StageTypeOK, QueueTypeOK
      <4> QED BY <4>0, <4>1, <4>2, HeldAfter
    <3>2. \E k \in DOMAIN Held'[r] : Held'[r][k] = u
      <4> DEFINE a == Held[r]
                 c == Held'[r]
      <4>1. a \in Seq(BinlogThds) /\ <<t>> \in Seq(BinlogThds) /\ c = a \o <<t>>
        BY <3>1, ShortSeqs
      <4> HIDE DEF a, c
      <4>2. Contains(c, a)
        BY <4>1, ConcatKeeps
      <4> QED BY <1>2, <2>4, <4>2 DEF Contains, a, c
    <3>3. "BINLOG_FLUSH" \in S
      BY <1>1, <2>1, <2>4 DEF InRegion
    <3> QED BY <1>4, <2>1, <3>2, <3>3
  <2>5. q # <<"list", t>>
    BY <1>2, <2>3, HeldBefore DEF LeaderPcs
  <2>6. CASE q # r
    BY <1>5, <2>2, <2>3, <2>5, <2>6, PlaceCases
  <2> QED BY <2>4, <2>6
<1>12. CASE BinlogLeader(t)
  BY <1>12, NeverHandedOver
<1> QED BY <1>6, <1>7, <1>8, <1>9, <1>10, <1>11, <1>12, ActionCases

CommittingPcs == {"commit_hook", "commit"}

(* The pipeline from its end: what the commit leader has, what it can have *)
(* next, and so on back to what the flush leader has written.              *)
Committing == Region({}, CommittingPcs)
ToCommit == Region({"COMMIT"}, CommittingPcs)
Syncing == Region({"COMMIT"}, CommittingPcs \cup SyncPcs)
ToSync == Region({"SYNC", "COMMIT"}, CommittingPcs \cup SyncPcs)
Flushed == Region({"SYNC", "COMMIT"}, CommittingPcs \cup SyncPcs \cup LoggedPcs)

(* A step in which no leader lets its group out of the order. *)
KeepsOrder(t) == pc[t] = "sync" => pc'[t] # "after_sync"

(* How the leaders move from one part of the pipeline to another. *)
LEMMA PipeMoves ==
  ASSUME NoOrderWorkers, IInv, IInv', Linked, NEW t \in BinlogThds,
         Prepare(t) \/ FlushLogs(t) \/ BinlogStep(t), KeepsOrder(t)
  PROVE  /\ InPlaceAction(t) =>
              /\ pc'[t] \in CommittingPcs => pc[t] \in CommittingPcs
              /\ pc'[t] \in SyncPcs => pc[t] \in SyncPcs
              /\ pc'[t] \in LoggedPcs => pc[t] \in LoggedPcs \/ WriteBinlog(t)
              /\ pc[t] \in CommittingPcs => pc'[t] \in CommittingPcs \/ CommitGroupDone(t)
              /\ pc[t] \in SyncPcs => pc'[t] \in SyncPcs
              /\ pc[t] \in LoggedPcs => pc'[t] \in LoggedPcs
         /\ FetchAction(t) =>
              \/ EnterCommit(t) /\ pc[t] = "COMMIT" /\ pc'[t] \in CommittingPcs
              \/ EnterSync(t) /\ pc[t] = "SYNC" /\ pc'[t] \in SyncPcs
              \/ /\ pc[t] \notin {"SYNC", "COMMIT"}
                 /\ pc'[t] \notin CommittingPcs \cup SyncPcs \cup LoggedPcs
         /\ ChangeAction(t) =>
              \/ LeaveFlush(t) /\ pc[t] \in LoggedPcs /\ NextStage[pc[t]] = "SYNC"
              \/ LeaveSync(t) /\ pc[t] \in SyncPcs /\ NextStage[pc[t]] = "COMMIT"
              \/ LeaveClosedFlush(t) /\ pc[t] = "to_commit_closed" /\ NextStage[pc[t]] = "COMMIT"
              \/ pc[t] = "to_after_commit" /\ NextStage[pc[t]] = "AFTER_COMMIT"
         /\ Signal(t) => pc[t] \notin CommittingPcs \cup SyncPcs \cup LoggedPcs
<1> USE DEF CommittingPcs, SyncPcs, LoggedPcs
<1>1. ASSUME InPlaceAction(t)
      PROVE  /\ pc'[t] \in CommittingPcs => pc[t] \in CommittingPcs
             /\ pc'[t] \in SyncPcs => pc[t] \in SyncPcs
             /\ pc'[t] \in LoggedPcs => pc[t] \in LoggedPcs \/ WriteBinlog(t)
             /\ pc[t] \in CommittingPcs => pc'[t] \in CommittingPcs \/ CommitGroupDone(t)
             /\ pc[t] \in SyncPcs => pc'[t] \in SyncPcs
             /\ pc[t] \in LoggedPcs => pc'[t] \in LoggedPcs
  <2>1. pc[t] \notin {"SYNC", "COMMIT", "BINLOG_FLUSH", "AFTER_COMMIT"}
    <3>1. PICK l : InPlace(t, l)
      BY <1>1, InPlaceActions
    <3> QED BY <3>1 DEF InPlace, LeaderPcs, QueueLeaderPcs
  <2>2. Path(t, pc'[t])
    BY Paths
  <2>3. ~EnterSync(t) /\ ~EnterCommit(t) /\ ~EnterFlush(t)
    BY <2>1 DEF EnterSync, EnterCommit, EnterFlush, EnterStage
  <2>4. /\ SyncBinlog(t) => pc[t] = "sync"
        /\ ChangeAction(t) => NextStage[pc[t]] \in {"SYNC", "COMMIT", "AFTER_COMMIT"}
    BY NextStages DEF SyncBinlog
  <2>5. /\ pc'[t] \in CommittingPcs => pc[t] \in CommittingPcs
        /\ pc'[t] \in SyncPcs => pc[t] \in SyncPcs
        /\ pc'[t] \in LoggedPcs => pc[t] \in LoggedPcs \/ WriteBinlog(t)
    BY <2>2, <2>3, <2>4 DEF Path, OutsideCommit, FlushPcs
  <2>7. \A l : Goto(t, l) => pc'[t] = l
    BY ThdsFacts DEF Goto, IInv, CommitTypeOK, StageTypeOK, PcTypeOK
  <2>8. pc[t] \in CommittingPcs => pc'[t] \in CommittingPcs \/ CommitGroupDone(t)
    <3>1. pc[t] \in CommittingPcs => AfterSyncHook(t) \/ CommitGroupDone(t)
      BY <1>1 DEF InPlaceAction, Prepare, FlushLogs, FlushEngine, FinishOrderList, WriteBinlog,
         CloseBinlog, SyncBinlog, LeaveClosedFlush, AfterCommit, HandleSyncError, FollowerWakes,
         FinishInEngine, FinishCommit, RotateLock, WaitForPrepXids, NewFile
    <3> QED BY <2>7, <3>1 DEF AfterSyncHook
  <2>9. pc[t] \in SyncPcs => pc'[t] \in SyncPcs
    <3>1. pc[t] \in SyncPcs => SyncBinlog(t)
      BY <1>1 DEF InPlaceAction, Prepare, FlushLogs, FlushEngine, FinishOrderList, WriteBinlog,
         CloseBinlog, LeaveClosedFlush, AfterSyncHook, CommitGroupDone, AfterCommit,
         HandleSyncError, FollowerWakes, FinishInEngine, FinishCommit, RotateLock,
         WaitForPrepXids, NewFile
    <3>2. SyncBinlog(t) => pc[t] = "sync" /\ (Goto(t, "to_commit") \/ Goto(t, "after_sync"))
      BY DEF SyncBinlog
    <3> QED BY <2>7, <3>1, <3>2 DEF KeepsOrder
  <2>10. pc[t] \in LoggedPcs => pc'[t] \in LoggedPcs
    <3>1. pc[t] \in LoggedPcs => CloseBinlog(t) /\ pc[t] = "close_flush"
      BY <1>1 DEF InPlaceAction, Prepare, FlushLogs, FlushEngine, FinishOrderList, WriteBinlog,
         CloseBinlog, SyncBinlog, LeaveClosedFlush, AfterSyncHook, CommitGroupDone, AfterCommit,
         HandleSyncError, FollowerWakes, FinishInEngine, FinishCommit, RotateLock,
         WaitForPrepXids, NewFile
    <3> QED BY <2>7, <3>1 DEF CloseBinlog
  <2> QED BY <2>5, <2>8, <2>9, <2>10
<1>2. ASSUME FetchAction(t)
      PROVE  \/ EnterCommit(t) /\ pc[t] = "COMMIT" /\ pc'[t] \in CommittingPcs
             \/ EnterSync(t) /\ pc[t] = "SYNC" /\ pc'[t] \in SyncPcs
             \/ /\ pc[t] \notin {"SYNC", "COMMIT"}
                /\ pc'[t] \notin CommittingPcs \cup SyncPcs \cup LoggedPcs
  <2>1. /\ pc[t] \in {"BINLOG_FLUSH", "SYNC", "COMMIT", "AFTER_COMMIT"}
        /\ pc[t] = "SYNC" => pc'[t] = "sync"
        /\ pc[t] = "COMMIT" => pc'[t] = "commit_hook"
        /\ pc[t] = "AFTER_COMMIT" => pc'[t] = "after_commit"
    BY <1>2, FetchActions
  <2>2. /\ pc[t] = "COMMIT" => EnterCommit(t)
        /\ pc[t] = "SYNC" => EnterSync(t)
        /\ pc[t] = "BINLOG_FLUSH" => EnterFlush(t)
    BY <1>2 DEF FetchAction, EnterFlush, EnterSync, EnterCommit, EnterAfterCommit, EnterStage
  <2>3. EnterFlush(t) => pc'[t] \in {"flush_engine", "to_commit_closed"}
    BY ThdsFacts DEF EnterFlush, Goto, IInv, CommitTypeOK, StageTypeOK, PcTypeOK
  <2> QED BY <2>1, <2>2, <2>3
<1>3. ASSUME ChangeAction(t)
      PROVE  \/ LeaveFlush(t) /\ pc[t] \in LoggedPcs /\ NextStage[pc[t]] = "SYNC"
             \/ LeaveSync(t) /\ pc[t] \in SyncPcs /\ NextStage[pc[t]] = "COMMIT"
             \/ LeaveClosedFlush(t) /\ pc[t] = "to_commit_closed" /\ NextStage[pc[t]] = "COMMIT"
             \/ pc[t] = "to_after_commit" /\ NextStage[pc[t]] = "AFTER_COMMIT"
  BY <1>3 DEF ChangeAction, LeaveFlush, LeaveSync, LeaveCommit, LeaveClosedFlush, NextStage
<1>4. Signal(t) => pc[t] \notin CommittingPcs \cup SyncPcs \cup LoggedPcs
  BY DEF Signal
<1> QED BY <1>1, <1>2, <1>3, <1>4

(* How far each part of the pipeline changes in a step. *)
LEMMA PipeSteps ==
  ASSUME NoOrderWorkers, IInv, IInv', Linked, NEW t \in BinlogThds,
         Prepare(t) \/ FlushLogs(t) \/ BinlogStep(t), KeepsOrder(t), NEW u \in BinlogThds,
         u \in Members(list[t]) => ~CommitGroupDone(t) /\ ~LeaveClosedFlush(t)
  PROVE  /\ EnterCommit(t) \/ (u \in Committing <=> u \in Committing')
         /\ LeaveSync(t) \/ (u \in ToCommit <=> u \in ToCommit')
         /\ EnterSync(t) \/ (u \in Syncing <=> u \in Syncing')
         /\ LeaveFlush(t) \/ (u \in ToSync <=> u \in ToSync')
         /\ (WriteBinlog(t) /\ u \in Members(list[t])) \/ (u \in Flushed <=> u \in Flushed')
<1> DEFINE C1 == CommittingPcs
           C2 == CommittingPcs \cup SyncPcs
           C3 == CommittingPcs \cup SyncPcs \cup LoggedPcs
<1>2. ASSUME NEW CONSTANT S, NEW CONSTANT C, ~Enters(S, C, t, u), ~Exits(S, C, t, u)
      PROVE  u \in Region(S, C) <=> u \in Region(S, C)'
  BY <1>2, RegionStep, RegionStays
<1>3. CommittingPcs \cap SyncPcs = {} /\ CommittingPcs \cap LoggedPcs = {} /\ SyncPcs \cap LoggedPcs = {}
      /\ "to_commit_closed" \notin C3 /\ "to_after_commit" \notin C3
  BY DEF CommittingPcs, SyncPcs, LoggedPcs
<1>4. EnterCommit(t) \/ (~Enters({}, C1, t, u) /\ ~Exits({}, C1, t, u))
  BY <1>3, PipeMoves DEF Enters, Exits
<1>5. LeaveSync(t) \/ (~Enters({"COMMIT"}, C1, t, u) /\ ~Exits({"COMMIT"}, C1, t, u))
  BY <1>3, PipeMoves DEF Enters, Exits
<1>6. EnterSync(t) \/ (~Enters({"COMMIT"}, C2, t, u) /\ ~Exits({"COMMIT"}, C2, t, u))
  BY <1>3, PipeMoves DEF Enters, Exits
<1>7. LeaveFlush(t) \/ (~Enters({"SYNC", "COMMIT"}, C2, t, u) /\ ~Exits({"SYNC", "COMMIT"}, C2, t, u))
  BY <1>3, PipeMoves DEF Enters, Exits
<1>8. \/ WriteBinlog(t) /\ u \in Members(list[t])
      \/ ~Enters({"SYNC", "COMMIT"}, C3, t, u) /\ ~Exits({"SYNC", "COMMIT"}, C3, t, u)
  BY <1>3, PipeMoves DEF Enters, Exits
<1> USE DEF CommittingPcs, SyncPcs, LoggedPcs
<1>9. EnterCommit(t) \/ (u \in Committing <=> u \in Committing')
  BY <1>2, <1>4 DEF Committing
<1>10. LeaveSync(t) \/ (u \in ToCommit <=> u \in ToCommit')
  BY <1>2, <1>5 DEF ToCommit
<1>11. EnterSync(t) \/ (u \in Syncing <=> u \in Syncing')
  BY <1>2, <1>6 DEF Syncing
<1>12. LeaveFlush(t) \/ (u \in ToSync <=> u \in ToSync')
  BY <1>2, <1>7 DEF ToSync
<1>13. (WriteBinlog(t) /\ u \in Members(list[t])) \/ (u \in Flushed <=> u \in Flushed')
  BY <1>2, <1>8 DEF Flushed
<1> QED BY <1>9, <1>10, <1>11, <1>12, <1>13

(* An empty queue adds nothing to a region, ... *)
LEMMA EmptyQueueAfter ==
  ASSUME NoOrderWorkers, IInv', NEW CONSTANT S, NEW CONSTANT C, NEW CONSTANT s \in Stages,
         queue'[s] = << >>
  PROVE  Region(S \cup {s}, C)' = Region(S, C)'
<1>1. ASSUME NEW u \in Region(S \cup {s}, C)' PROVE u \in Region(S, C)'
  <2>1. PICK p \in Places : InRegion(S \cup {s}, C, p)' /\ \E i \in DOMAIN Held'[p] : Held'[p][i] = u
    BY <1>1 DEF Region
  <2>2. p # <<"queue", s>>
    BY <2>1, HeldAfter
  <2>3. InRegion(S, C, p)'
    BY <2>1, <2>2, PlaceCases DEF InRegion
  <2>4. u \in BinlogThds
    BY <1>1 DEF Region
  <2> QED BY <2>1, <2>3, <2>4 DEF Region
<1>2. ASSUME NEW u \in Region(S, C)' PROVE u \in Region(S \cup {s}, C)'
  <2>1. PICK p \in Places : InRegion(S, C, p)' /\ \E i \in DOMAIN Held'[p] : Held'[p][i] = u
    BY <1>2 DEF Region
  <2>2. InRegion(S \cup {s}, C, p)'
    BY <2>1 DEF InRegion
  <2>3. u \in BinlogThds
    BY <1>2 DEF Region
  <2> QED BY <2>1, <2>2, <2>3 DEF Region
<1> QED BY <1>1, <1>2

(* ... and neither does a place of the code where nobody is. *)
LEMMA NobodyAfter ==
  ASSUME NEW CONSTANT S, NEW CONSTANT C, NEW CONSTANT D, \A v \in BinlogThds : pc'[v] \notin D
  PROVE  Region(S, C \cup D)' = Region(S, C)'
<1>1. \A p \in Places : InRegion(S, C \cup D, p)' <=> InRegion(S, C, p)'
  BY PlaceCases DEF InRegion
<1> QED BY <1>1 DEF Region

(* A leader that enters a stage has everything that was to come there, ... *)
LEMMA EnterTakesAll ==
  ASSUME NoOrderWorkers, IInv, IInv', NEW t \in BinlogThds
  PROVE  /\ EnterCommit(t) => Committing' = ToCommit'
         /\ EnterSync(t) => Syncing' = ToSync'
<1> USE DEF CommittingPcs, SyncPcs
<1>1. ASSUME EnterCommit(t) PROVE Committing' = ToCommit'
  <2>1. queue'["COMMIT"] = << >> /\ "COMMIT" \in Stages
    BY <1>1 DEF EnterCommit, EnterStage, FetchQueues, Stages
  <2>2. Region({} \cup {"COMMIT"}, CommittingPcs)' = Region({}, CommittingPcs)'
    BY <2>1, EmptyQueueAfter
  <2>3. {} \cup {"COMMIT"} = {"COMMIT"}
    OBVIOUS
  <2> QED BY <2>2, <2>3 DEF Committing, ToCommit
<1>2. ASSUME EnterSync(t) PROVE Syncing' = ToSync'
  <2>1. queue'["SYNC"] = << >> /\ "SYNC" \in Stages
    BY <1>2 DEF EnterSync, EnterStage, FetchQueues, Stages
  <2>2. Region({"COMMIT"} \cup {"SYNC"}, CommittingPcs \cup SyncPcs)'
          = Region({"COMMIT"}, CommittingPcs \cup SyncPcs)'
    BY <2>1, EmptyQueueAfter
  <2>3. {"COMMIT"} \cup {"SYNC"} = {"SYNC", "COMMIT"}
    OBVIOUS
  <2> QED BY <2>2, <2>3 DEF Syncing, ToSync
<1> QED BY <1>1, <1>2

(* ... and one that leaves a stage leaves nobody behind. *)
LEMMA LeaveTakesAll ==
  ASSUME NoOrderWorkers, IInv, IInv', NEW t \in BinlogThds
  PROVE  /\ LeaveSync(t) => ToCommit' = Syncing'
         /\ LeaveFlush(t) => ToSync' = Flushed'
<1> USE DEF CommittingPcs, SyncPcs, LoggedPcs
<1>0. ASSUME NEW m \in Mutexes, UnlockMutex(m)
      PROVE  \A v \in BinlogThds : pc'[v] \notin HolderPcs[m]
  <2>1. owner'[m] = NULL
    BY <1>0 DEF UnlockMutex, IInv, CommitTypeOK, StageTypeOK, SyncTypeOK
  <2>2. \A v \in BinlogThds : owner'[m] = v <=> pc'[v] \in HolderPcs[m]
    BY ThdsFacts DEF IInv, Structure, MutexOwners
  <2> QED BY <2>1, <2>2, ThdsFacts
<1>1. ASSUME LeaveSync(t) PROVE ToCommit' = Syncing'
  <2>1. \A v \in BinlogThds : pc'[v] \notin SyncPcs
    BY <1>0, <1>1 DEF LeaveSync, ChangeStage, Mutexes, HolderPcs
  <2>2. Region({"COMMIT"}, CommittingPcs \cup SyncPcs)' = Region({"COMMIT"}, CommittingPcs)'
    BY <2>1, NobodyAfter
  <2> QED BY <2>2 DEF ToCommit, Syncing
<1>2. ASSUME LeaveFlush(t) PROVE ToSync' = Flushed'
  <2>1. \A v \in BinlogThds : pc'[v] \notin LoggedPcs
    BY <1>0, <1>2 DEF LeaveFlush, ChangeStage, Mutexes, HolderPcs
  <2>2. Region({"SYNC", "COMMIT"}, (CommittingPcs \cup SyncPcs) \cup LoggedPcs)'
          = Region({"SYNC", "COMMIT"}, CommittingPcs \cup SyncPcs)'
    BY <2>1, NobodyAfter
  <2> QED BY <2>2 DEF ToSync, Flushed
<1> QED BY <1>1, <1>2

(* The sessions of R have smaller numbers than the others. *)
Ahead(R, g) ==
  \A u \in R, v \in BinlogThds \ R : g[u] # 0 /\ g[v] # 0 => g[u] < g[v]

(* The numbers in use follow those that were executed, only sessions of    *)
(* the pipeline have one, and the further a session is the smaller it is.  *)
FollowOn(k, g, n, E) ==
  k < n /\ E = 1 .. k /\ {g[t] : t \in BinlogThds} \ {0} = (k + 1) .. (n - 1)

Consecutive == \E k \in Nat : FollowOn(k, gno, next_gno, executed)

OwnedInPipe == \A u \in BinlogThds : gno[u] # 0 => u \in Flushed

SmallerFirst ==
  Ahead(Committing, gno) /\ Ahead(ToCommit, gno) /\ Ahead(Syncing, gno) /\ Ahead(ToSync, gno)

Numbered == Consecutive /\ OwnedInPipe /\ SmallerFirst

(* R and Q have the same sessions among those with a number. *)
Agree(R, Q, g, h) ==
  \A u \in BinlogThds : h[u] # 0 => h[u] = g[u] /\ (u \in R <=> u \in Q)

(* Where the sessions that have a number are the same, so is their order. *)
LEMMA AheadKept ==
  ASSUME NEW R, NEW Q, Q \subseteq BinlogThds, NEW g, NEW h, Ahead(R, g), Agree(R, Q, g, h)
  PROVE  Ahead(Q, h)
<1> SUFFICES ASSUME NEW u \in Q, NEW v \in BinlogThds \ Q, h[u] # 0, h[v] # 0
             PROVE  h[u] < h[v]
  BY DEF Ahead
<1>1. u \in R /\ h[u] = g[u] /\ v \notin R /\ h[v] = g[v]
  BY DEF Agree
<1>2. g[u] < g[v]
  BY <1>1 DEF Ahead
<1> QED BY <1>1, <1>2

(* The parts of the pipeline hold sessions. *)
LEMMA PartTypes ==
  /\ Committing' \subseteq BinlogThds /\ ToCommit' \subseteq BinlogThds
  /\ Syncing' \subseteq BinlogThds /\ ToSync' \subseteq BinlogThds
BY DEF Committing, ToCommit, Syncing, ToSync, Region

(* A step that gives no numbers, and takes them from nobody else than a *)
(* commit leader's list, keeps their order.                             *)
LEMMA NumbersMoveOn ==
  ASSUME NoOrderWorkers, IInv, IInv', Linked, NEW t \in BinlogThds,
         Prepare(t) \/ FlushLogs(t) \/ BinlogStep(t), KeepsOrder(t), ~WriteBinlog(t),
         OwnedInPipe, SmallerFirst,
         \A u \in BinlogThds : gno'[u] # 0 => gno'[u] = gno[u],
         CommitGroupDone(t) => \A u \in Members(list[t]) : gno'[u] = 0
  PROVE  OwnedInPipe' /\ SmallerFirst'
<1>1. ASSUME LeaveClosedFlush(t), NEW u \in Members(list[t]) PROVE gno[u] = 0
  <2>1. pc[t] = "to_commit_closed"
    BY <1>1 DEF LeaveClosedFlush
  <2>2. pc[t] \in LeaderPcs \ (CommittingPcs \cup SyncPcs \cup LoggedPcs)
    BY <2>1 DEF LeaderPcs, CommittingPcs, SyncPcs, LoggedPcs
  <2>3. u \notin Flushed /\ u \in BinlogThds
    BY <1>1, <2>2, ListApart, LeaderInList DEF Flushed
  <2> QED BY <2>3 DEF OwnedInPipe
<1>2. ASSUME NEW u \in BinlogThds, gno'[u] # 0
      PROVE  /\ EnterCommit(t) \/ (u \in Committing <=> u \in Committing')
             /\ LeaveSync(t) \/ (u \in ToCommit <=> u \in ToCommit')
             /\ EnterSync(t) \/ (u \in Syncing <=> u \in Syncing')
             /\ LeaveFlush(t) \/ (u \in ToSync <=> u \in ToSync')
             /\ (u \in Flushed <=> u \in Flushed')
  <2>1. u \in Members(list[t]) => ~CommitGroupDone(t) /\ ~LeaveClosedFlush(t)
    BY <1>1, <1>2
  <2> QED BY <1>2, <2>1, PipeSteps
<1>3. OwnedInPipe'
  BY <1>2 DEF OwnedInPipe
<1>4. Ahead(Flushed, gno)
  BY DEF OwnedInPipe, Ahead
<1>6. EnterCommit(t) => ~LeaveSync(t)
  BY DEF EnterCommit, EnterStage, LeaveSync
<1>7. EnterSync(t) => ~LeaveFlush(t)
  BY DEF EnterSync, EnterStage, LeaveFlush
<1>8. LeaveSync(t) => ~EnterSync(t)
  BY DEF EnterSync, EnterStage, LeaveSync
<1>9. Ahead(Committing', gno')
  <2>1. CASE EnterCommit(t)
    <3> DEFINE r == ToCommit
               q == Committing'
               g == gno
               h == gno'
    <3>1. q \subseteq BinlogThds /\ Ahead(r, g)
      BY PartTypes DEF SmallerFirst
    <3>2. Agree(r, q, g, h)
      BY <1>2, <1>6, <2>1, EnterTakesAll DEF Agree
    <3> HIDE DEF r, q, g, h
    <3>3. Ahead(q, h)
      BY <3>1, <3>2, AheadKept
    <3> QED BY <3>3 DEF q, h
  <2>2. CASE ~EnterCommit(t)
    <3> DEFINE r == Committing
               q == Committing'
               g == gno
               h == gno'
    <3>1. q \subseteq BinlogThds /\ Ahead(r, g)
      BY PartTypes DEF SmallerFirst
    <3>2. Agree(r, q, g, h)
      BY <1>2, <2>2 DEF Agree
    <3> HIDE DEF r, q, g, h
    <3>3. Ahead(q, h)
      BY <3>1, <3>2, AheadKept
    <3> QED BY <3>3 DEF q, h
  <2> QED BY <2>1, <2>2
<1>10. Ahead(ToCommit', gno')
  <2>1. CASE LeaveSync(t)
    <3> DEFINE r == Syncing
               q == ToCommit'
               g == gno
               h == gno'
    <3>1. q \subseteq BinlogThds /\ Ahead(r, g)
      BY PartTypes DEF SmallerFirst
    <3>2. Agree(r, q, g, h)
      BY <1>2, <1>8, <2>1, LeaveTakesAll DEF Agree
    <3> HIDE DEF r, q, g, h
    <3>3. Ahead(q, h)
      BY <3>1, <3>2, AheadKept
    <3> QED BY <3>3 DEF q, h
  <2>2. CASE ~LeaveSync(t)
    <3> DEFINE r == ToCommit
               q == ToCommit'
               g == gno
               h == gno'
    <3>1. q \subseteq BinlogThds /\ Ahead(r, g)
      BY PartTypes DEF SmallerFirst
    <3>2. Agree(r, q, g, h)
      BY <1>2, <2>2 DEF Agree
    <3> HIDE DEF r, q, g, h
    <3>3. Ahead(q, h)
      BY <3>1, <3>2, AheadKept
    <3> QED BY <3>3 DEF q, h
  <2> QED BY <2>1, <2>2
<1>11. Ahead(Syncing', gno')
  <2>1. CASE EnterSync(t)
    <3> DEFINE r == ToSync
               q == Syncing'
               g == gno
               h == gno'
    <3>1. q \subseteq BinlogThds /\ Ahead(r, g)
      BY PartTypes DEF SmallerFirst
    <3>2. Agree(r, q, g, h)
      BY <1>2, <1>7, <2>1, EnterTakesAll DEF Agree
    <3> HIDE DEF r, q, g, h
    <3>3. Ahead(q, h)
      BY <3>1, <3>2, AheadKept
    <3> QED BY <3>3 DEF q, h
  <2>2. CASE ~EnterSync(t)
    <3> DEFINE r == Syncing
               q == Syncing'
               g == gno
               h == gno'
    <3>1. q \subseteq BinlogThds /\ Ahead(r, g)
      BY PartTypes DEF SmallerFirst
    <3>2. Agree(r, q, g, h)
      BY <1>2, <2>2 DEF Agree
    <3> HIDE DEF r, q, g, h
    <3>3. Ahead(q, h)
      BY <3>1, <3>2, AheadKept
    <3> QED BY <3>3 DEF q, h
  <2> QED BY <2>1, <2>2
<1>12. Ahead(ToSync', gno')
  <2>1. CASE LeaveFlush(t)
    <3> DEFINE r == Flushed
               q == ToSync'
               g == gno
               h == gno'
    <3>1. q \subseteq BinlogThds /\ Ahead(r, g)
      BY <1>4, PartTypes DEF SmallerFirst
    <3>2. Agree(r, q, g, h)
      BY <1>2, <2>1, LeaveTakesAll DEF Agree
    <3> HIDE DEF r, q, g, h
    <3>3. Ahead(q, h)
      BY <3>1, <3>2, AheadKept
    <3> QED BY <3>3 DEF q, h
  <2>2. CASE ~LeaveFlush(t)
    <3> DEFINE r == ToSync
               q == ToSync'
               g == gno
               h == gno'
    <3>1. q \subseteq BinlogThds /\ Ahead(r, g)
      BY PartTypes DEF SmallerFirst
    <3>2. Agree(r, q, g, h)
      BY <1>2, <2>2 DEF Agree
    <3> HIDE DEF r, q, g, h
    <3>3. Ahead(q, h)
      BY <3>1, <3>2, AheadKept
    <3> QED BY <3>3 DEF q, h
  <2> QED BY <2>1, <2>2
<1>13. SmallerFirst'
  BY <1>9, <1>10, <1>11, <1>12 DEF SmallerFirst
<1> QED BY <1>3, <1>13

(* The commit leader's list is all that is being committed. *)
LEMMA CommittingIsList ==
  ASSUME NoOrderWorkers, IInv, NEW t \in BinlogThds, pc[t] \in CommittingPcs
  PROVE  Committing = Members(list[t])
<1>1. pc[t] \in LeaderPcs \cap CommittingPcs
  BY DEF CommittingPcs, LeaderPcs
<1>2. Members(list[t]) \subseteq Committing
  BY <1>1, ListRegion DEF Committing
<1>3. ASSUME NEW u \in Committing PROVE u \in Members(list[t])
  <2>1. PICK p \in Places : InRegion({}, CommittingPcs, p) /\ \E i \in DOMAIN Held[p] : Held[p][i] = u
    BY <1>3 DEF Committing, Region
  <2>2. PICK v \in BinlogThds : p = <<"list", v>>
    BY <2>1, PlaceCases DEF InRegion
  <2>3. pc[v] \in CommittingPcs
    BY <2>1, <2>2, PlaceCases DEF InRegion
  <2>4. owner["LOCK_commit"] = v /\ owner["LOCK_commit"] = t
    BY <1>1, <2>3, ThdsFacts DEF IInv, Structure, MutexOwners, HolderPcs, Mutexes, CommittingPcs
  <2>5. Held[p] = list[t]
    BY <1>1, <2>2, <2>4, HeldBefore
  <2> QED BY <2>1, <2>5 DEF Members
<1> QED BY <1>2, <1>3

(* Who gives and takes numbers. *)
LEMMA GnoCases ==
  ASSUME NEW t \in BinlogThds, Prepare(t) \/ FlushLogs(t) \/ BinlogStep(t)
  PROVE  WriteBinlog(t) \/ CommitGroupDone(t) \/ FinishCommit(t) \/ UNCHANGED <<gno, next_gno, executed>>
<1>1. Prepare(t) \/ FlushLogs(t) \/ OrderedCommit(t) \/ BinlogLeader(t) \/ EnterFlush(t)
      \/ FlushEngine(t) \/ FinishOrderList(t) \/ CloseBinlog(t) \/ LeaveFlush(t) \/ LeaveClosedFlush(t)
      => UNCHANGED <<gno, next_gno, executed>>
  BY DEF Prepare, FlushLogs, OrderedCommit, BinlogLeader, EnterFlush, FlushEngine, FinishOrderList,
     CloseBinlog, LeaveFlush, LeaveClosedFlush, ChangeStage, UpdateRelayGtids, gtidVars
<1>2. EnterSync(t) \/ SyncBinlog(t) \/ LeaveSync(t) \/ EnterCommit(t) \/ AfterSyncHook(t) \/ CommitNext(t)
      \/ LeaveCommit(t) \/ EnterAfterCommit(t) \/ AfterCommit(t) => UNCHANGED <<gno, next_gno, executed>>
  BY DEF EnterSync, SyncBinlog, LeaveSync, EnterCommit, AfterSyncHook, CommitNext, LeaveCommit,
     EnterAfterCommit, AfterCommit, ChangeStage, EnterStage, gtidVars
<1>3. HandleSyncError(t) \/ Signal(t) \/ FollowerWakes(t) \/ FinishInEngine(t) \/ RotateLock(t)
      \/ WaitForPrepXids(t) \/ NewFile(t) => UNCHANGED <<gno, next_gno, executed>>
  BY DEF HandleSyncError, Signal, FollowerWakes, FinishInEngine, RotateLock, WaitForPrepXids,
     NewFile, gtidVars
<1>4. WriteBinlog(t) \/ CommitGroupDone(t) \/ FinishCommit(t) \/ UNCHANGED <<gno, next_gno, executed>>
  BY <1>1, <1>2, <1>3 DEF BinlogStep
<1> QED BY <1>4

(* All numbers of A are smaller than those of B. *)
Below(A, B) == \A a \in A, b \in B : a < b

(* An interval split at a number is two intervals. *)
LEMMA FirstNumbers ==
  ASSUME NEW k \in Nat, NEW n \in Nat, k < n, NEW A, NEW B, A \cup B = (k + 1) .. (n - 1),
         Below(A, B)
  PROVE  \E m \in Nat : k <= m /\ m < n /\ A = (k + 1) .. m /\ B = (m + 1) .. (n - 1)
<1>1. B \cup {n} \in SUBSET Nat /\ B \cup {n} # {}
  OBVIOUS
<1>2. PICK b \in B \cup {n} : \A c \in B \cup {n} : b <= c
  BY <1>1, HasSmallest
<1>3. b \in Nat /\ k < b /\ b <= n
  BY <1>2
<1>4. \A a \in A : a \in (k + 1) .. (n - 1) /\ a < b
  BY <1>2 DEF Below
<1>5. \A c \in B : c \in (k + 1) .. (n - 1) /\ b <= c
  BY <1>2
<1>6. A = (k + 1) .. (b - 1) /\ B = b .. (n - 1)
  <2>1. \A x \in (k + 1) .. (b - 1) : x \in (k + 1) .. (n - 1) /\ ~(b <= x)
    BY <1>3
  <2>2. \A x \in b .. (n - 1) : x \in (k + 1) .. (n - 1) /\ ~(x < b)
    BY <1>3
  <2>3. (k + 1) .. (b - 1) \subseteq A /\ b .. (n - 1) \subseteq B
    BY <1>4, <1>5, <2>1, <2>2
  <2>4. A \subseteq (k + 1) .. (b - 1) /\ B \subseteq b .. (n - 1)
    BY <1>3, <1>4, <1>5
  <2> QED BY <2>3, <2>4
<1>7. b - 1 \in Nat /\ k <= b - 1 /\ b - 1 < n /\ (b - 1) + 1 = b
  BY <1>3
<1> QED BY <1>6, <1>7

(* assign_automatic_gtids_to_flush_group gives the numbers from next_gno   *)
(* on, without a gap, where those in use are consecutive.                  *)
LEMMA NumbersGiven ==
  ASSUME IInv, NEW ts \in Seq(BinlogThds), ts # << >>, Distinct(ts), AssignGtids(ts),
         NEW k \in Nat, FollowOn(k, gno, next_gno, executed)
  PROVE  /\ next_gno \in Nat /\ next_gno' \in Nat /\ next_gno < next_gno'
         /\ {gno'[u] : u \in Members(ts)} = next_gno .. (next_gno' - 1)
         /\ \A u \in BinlogThds \ Members(ts) : gno'[u] = gno[u]
<1>1. /\ next_gno \in Nat /\ k < next_gno /\ executed = 1 .. k
      /\ \A u \in BinlogThds : gno[u] \in Nat /\ gno[u] < next_gno
  <2>1. next_gno \in Nat /\ \A u \in BinlogThds : gno[u] \in Nat
    BY ThdsFacts DEF IInv, CommitTypeOK, GtidTypeOK
  <2>2. \A u \in BinlogThds : gno[u] = 0 \/ gno[u] \in (k + 1) .. (next_gno - 1)
    BY DEF FollowOn
  <2> QED BY <2>1, <2>2 DEF FollowOn
<1> DEFINE top == Cardinality(BinlogThds) * MaxTrx
<1>2. top \in Nat
  <2>1. Cardinality(BinlogThds) \in Nat /\ MaxTrx \in Nat
    BY ConfigAssumption, FS_CardinalityType
  <2> QED BY <2>1
<1>3. FreeGnos = next_gno .. top
  <2>1. \A g \in next_gno .. top : g \notin executed /\ \A u \in BinlogThds : gno[u] # g
    BY <1>1, <1>2
  <2> QED BY <2>1 DEF FreeGnos
<1> HIDE DEF top
<1>4. PICK f \in [DOMAIN ts -> FreeGnos] :
        /\ \A i, j \in DOMAIN ts : i < j => f[i] < f[j]
        /\ \A g \in FreeGnos : g < f[Len(ts)] => \E i \in DOMAIN ts : f[i] = g
        /\ gno' = [u \in Thds |-> IF u \in Members(ts)
                                  THEN f[CHOOSE i \in DOMAIN ts : ts[i] = u]
                                  ELSE gno[u]]
        /\ next_gno' = f[Len(ts)] + 1
  BY DEF AssignGtids
<1>4a. \A g \in FreeGnos : g < f[Len(ts)] => \E i \in DOMAIN ts : f[i] = g
  BY <1>4
<1>5. DOMAIN ts = 1 .. Len(ts) /\ Len(ts) \in Nat /\ Len(ts) \in DOMAIN ts
  BY EmptySeq, LenProperties
<1>6. \A i \in DOMAIN ts : f[i] \in Nat /\ next_gno <= f[i] /\ f[i] <= f[Len(ts)] /\ f[i] <= top
  <2>1. \A i \in DOMAIN ts : f[i] \in next_gno .. top
    BY <1>3, <1>4
  <2>2. \A i \in DOMAIN ts : i = Len(ts) \/ f[i] < f[Len(ts)]
    BY <1>4, <1>5
  <2> QED BY <1>1, <1>2, <1>5, <2>1, <2>2
<1>7. next_gno' \in Nat /\ next_gno < next_gno' /\ next_gno' - 1 = f[Len(ts)]
  BY <1>1, <1>4, <1>5, <1>6
<1>8. \A u \in BinlogThds \ Members(ts) : gno'[u] = gno[u]
  BY <1>4, ThdsFacts
<1>9. \A i \in DOMAIN ts : ts[i] \in Members(ts) /\ gno'[ts[i]] = f[i]
  <2> SUFFICES ASSUME NEW i \in DOMAIN ts PROVE ts[i] \in Members(ts) /\ gno'[ts[i]] = f[i]
    OBVIOUS
  <2>1. ts[i] \in Members(ts) /\ ts[i] \in Thds
    BY <1>5, ThdsFacts DEF Members
  <2>2. (CHOOSE j \in DOMAIN ts : ts[j] = ts[i]) = i
    BY DEF Distinct
  <2> QED BY <1>4, <2>1, <2>2
<1>10. \A u \in Members(ts) : \E i \in DOMAIN ts : u = ts[i]
  BY DEF Members
<1>11. ASSUME NEW g \in {gno'[u] : u \in Members(ts)} PROVE g \in next_gno .. (next_gno' - 1)
  <2>1. PICK i \in DOMAIN ts : g = f[i]
    BY <1>9, <1>10
  <2> QED BY <1>1, <1>6, <1>7, <2>1
<1>12. ASSUME NEW g \in next_gno .. (next_gno' - 1) PROVE g \in {gno'[u] : u \in Members(ts)}
  <2>0. f[Len(ts)] \in Nat /\ f[Len(ts)] <= top
    BY <1>5, <1>6
  <2>1. g \in next_gno .. top /\ (g < f[Len(ts)] \/ g = f[Len(ts)])
    <3>1. g \in next_gno .. f[Len(ts)]
      BY <1>7
    <3> QED BY <1>1, <1>2, <2>0, <3>1
  <2>2. CASE g < f[Len(ts)]
    <3>1. g \in FreeGnos
      BY <1>3, <2>1
    <3>2. PICK i \in DOMAIN ts : f[i] = g
      BY <1>4a, <2>2, <3>1
    <3> QED BY <1>9, <3>2
  <2>3. CASE g = f[Len(ts)]
    BY <1>5, <1>9, <2>3
  <2> QED BY <2>1, <2>2, <2>3
<1>13. {gno'[u] : u \in Members(ts)} = next_gno .. (next_gno' - 1)
  BY <1>11, <1>12
<1> QED BY <1>1, <1>7, <1>8, <1>13

(* The commit stage moves a beginning of the numbers in use to gtid_executed. *)
LEMMA CommitConsecutive ==
  ASSUME NoOrderWorkers, IInv, NEW t \in BinlogThds, CommitGroupDone(t),
         Consecutive, Ahead(Committing, gno)
  PROVE  Consecutive'
<1>1. PICK k \in Nat : FollowOn(k, gno, next_gno, executed)
  BY DEF Consecutive
<1> DEFINE L == Members(list[t])
           A == {gno[u] : u \in L} \ {0}
           B == {gno[u] : u \in BinlogThds \ L} \ {0}
<1>2. pc[t] \in CommittingPcs /\ pc[t] \in LeaderPcs
  BY DEF CommitGroupDone, CommittingPcs, LeaderPcs
<1>3. L = Committing /\ L \subseteq BinlogThds
  BY <1>2, CommittingIsList, LeaderInList
<1>4. A \cup B = (k + 1) .. (next_gno - 1) /\ k < next_gno /\ executed = 1 .. k /\ next_gno \in Nat
  BY <1>1, <1>3 DEF FollowOn, IInv, CommitTypeOK, GtidTypeOK
<1>5. Below(A, B)
  BY <1>3 DEF Ahead, Below
<1>6. executed' = executed \cup A /\ next_gno' = next_gno
  BY DEF CommitGroupDone, UpdateCommitGroup
<1>7. {gno'[u] : u \in BinlogThds} \ {0} = B
  <2>1. \A u \in BinlogThds : gno'[u] = IF u \in L THEN 0 ELSE gno[u]
    BY ThdsFacts DEF CommitGroupDone, UpdateCommitGroup
  <2> QED BY <2>1
<1> HIDE DEF A, B
<1>8. PICK m \in Nat : k <= m /\ m < next_gno /\ A = (k + 1) .. m /\ B = (m + 1) .. (next_gno - 1)
  BY <1>4, <1>5, FirstNumbers
<1>9. executed' = 1 .. m
  BY <1>4, <1>6, <1>8
<1>10. FollowOn(m, gno', next_gno', executed')
  BY <1>6, <1>7, <1>8, <1>9 DEF FollowOn
<1> QED BY <1>10 DEF Consecutive

(* After a step a leader inside a region has its list there. *)
LEMMA ListRegionAfter ==
  ASSUME NoOrderWorkers, IInv', NEW CONSTANT S, NEW CONSTANT C, NEW t \in BinlogThds,
         pc'[t] \in LeaderPcs \cap C, NEW u \in Members(list'[t])
  PROVE  u \in Region(S, C)'
<1> DEFINE r == <<"list", t>>
<1>1. r \in Places /\ Held'[r] = list'[t] /\ list'[t] \in Seq(BinlogThds)
  BY HeldAfter, PlaceCases
<1>2. PICK i \in DOMAIN Held'[r] : Held'[r][i] = u
  BY <1>1 DEF Members
<1>3. InRegion(S, C, r)'
  BY PlaceCases DEF InRegion
<1>4. u \in BinlogThds
  BY <1>1, <1>2
<1> HIDE DEF Held
<1> QED BY <1>1, <1>2, <1>3, <1>4 DEF Region

(* A write gives the sessions of L numbers from n on, and the others keep *)
(* their own, which are smaller.                                          *)
Given(L, g, h, n) ==
  /\ \A u \in BinlogThds \ L : h[u] = g[u] /\ g[u] < n
  /\ \A u \in L : n <= h[u]

(* Numbers given to sessions that are not ahead keep the order. *)
LEMMA AheadGrows ==
  ASSUME NEW R, R \subseteq BinlogThds, NEW L, R \cap L = {}, NEW n \in Nat,
         NEW g \in [BinlogThds -> Nat], NEW h \in [BinlogThds -> Nat], Ahead(R, g), Given(L, g, h, n)
  PROVE  Ahead(R, h)
<1> SUFFICES ASSUME NEW u \in R, NEW v \in BinlogThds \ R, h[u] # 0, h[v] # 0 PROVE h[u] < h[v]
  BY DEF Ahead
<1>1. u \in BinlogThds \ L /\ h[u] \in Nat /\ h[v] \in Nat
  OBVIOUS
<1>2. h[u] = g[u] /\ g[u] < n
  BY <1>1 DEF Given
<1>3. CASE v \in L
  <2>1. n <= h[v]
    BY <1>3 DEF Given
  <2> QED BY <1>1, <1>2, <2>1
<1>4. CASE v \notin L
  <2>1. h[v] = g[v]
    BY <1>4 DEF Given
  <2>2. g[u] < g[v]
    BY <1>2, <2>1 DEF Ahead
  <2> QED BY <1>2, <2>1, <2>2
<1> QED BY <1>3, <1>4

(* A write numbers its group right behind the numbers in use. *)
LEMMA WriteNumbers ==
  ASSUME NoOrderWorkers, IInv, IInv', Linked, NEW t \in BinlogThds, WriteBinlog(t), Numbered
  PROVE  Numbered'
<1> DEFINE L == Members(list[t])
<1>1. pc[t] = "write" /\ pc[t] \in LeaderPcs
  BY DEF WriteBinlog, LeaderPcs
<1>2. list[t] \in Seq(BinlogThds) /\ list[t] # << >> /\ Distinct(list[t]) /\ L \subseteq BinlogThds
  BY <1>1, ListDistinct, LeaderInList DEF IInv, CommitTypeOK, LeaderTypeOK, Structure, LeaderHeadsList
<1>3. PICK k \in Nat : FollowOn(k, gno, next_gno, executed)
  BY DEF Numbered, Consecutive
<1>4. /\ next_gno \in Nat /\ next_gno' \in Nat /\ next_gno < next_gno'
      /\ {gno'[u] : u \in L} = next_gno .. (next_gno' - 1)
      /\ \A u \in BinlogThds \ L : gno'[u] = gno[u]
  <2>1. AssignGtids(list[t])
    BY DEF WriteBinlog
  <2> QED BY <1>2, <1>3, <2>1, NumbersGiven
<1>5. pc[t] \in LeaderPcs \ (CommittingPcs \cup SyncPcs \cup LoggedPcs)
  BY <1>1 DEF CommittingPcs, SyncPcs, LoggedPcs
<1>6. \A u \in L : gno[u] = 0
  <2>1. L \cap Flushed = {}
    BY <1>5, ListApart DEF Flushed
  <2> QED BY <1>2, <2>1 DEF Numbered, OwnedInPipe
<1>7. Consecutive'
  <2>1. executed' = executed /\ k < next_gno /\ executed = 1 .. k
    BY <1>3 DEF WriteBinlog, FollowOn
  <2>2. {gno[u] : u \in BinlogThds \ L} \ {0} = (k + 1) .. (next_gno - 1)
    BY <1>2, <1>3, <1>6 DEF FollowOn
  <2>3. {gno'[u] : u \in BinlogThds} \ {0}
          = ((k + 1) .. (next_gno - 1)) \cup (next_gno .. (next_gno' - 1))
    <3>1. {gno'[u] : u \in BinlogThds} = {gno[u] : u \in BinlogThds \ L} \cup {gno'[u] : u \in L}
      BY <1>2, <1>4
    <3>2. 0 \notin next_gno .. (next_gno' - 1)
      <4>1. 0 < next_gno /\ next_gno \in Nat /\ next_gno' \in Nat
        BY <1>4, <2>1
      <4> DEFINE a == next_gno
                 b == next_gno' - 1
      <4>2. a \in Int /\ b \in Int /\ ~(a <= 0)
        BY <4>1
      <4> HIDE DEF a, b
      <4>3. 0 \notin a .. b
        BY <4>2
      <4> QED BY <4>3 DEF a, b
    <3> QED BY <1>4, <2>2, <3>1, <3>2
  <2>4. ((k + 1) .. (next_gno - 1)) \cup (next_gno .. (next_gno' - 1)) = (k + 1) .. (next_gno' - 1)
    BY <1>4, <2>1
  <2>5. FollowOn(k, gno', next_gno', executed')
    BY <1>4, <2>1, <2>3, <2>4 DEF FollowOn
  <2> QED BY <2>5 DEF Consecutive
<1>8. pc'[t] \in LoggedPcs /\ list' = list /\ pc'[t] \in LeaderPcs
  BY ThdsFacts DEF WriteBinlog, Goto, LoggedPcs, LeaderPcs, IInv, CommitTypeOK, StageTypeOK, PcTypeOK
<1>9. KeepsOrder(t) /\ ~CommitGroupDone(t) /\ ~LeaveClosedFlush(t) /\ ~EnterCommit(t) /\ ~LeaveSync(t)
      /\ ~EnterSync(t) /\ ~LeaveFlush(t) /\ BinlogStep(t)
  BY <1>1 DEF KeepsOrder, CommitGroupDone, LeaveClosedFlush, EnterCommit, EnterSync, EnterStage,
     LeaveSync, LeaveFlush, BinlogStep
<1>10. ASSUME NEW u \in BinlogThds
       PROVE  /\ u \in Committing <=> u \in Committing'
              /\ u \in ToCommit <=> u \in ToCommit'
              /\ u \in Syncing <=> u \in Syncing'
              /\ u \in ToSync <=> u \in ToSync'
              /\ u \notin L => (u \in Flushed <=> u \in Flushed')
  BY <1>9, PipeSteps
<1>11. OwnedInPipe'
  <2> SUFFICES ASSUME NEW u \in BinlogThds, gno'[u] # 0 PROVE u \in Flushed'
    BY DEF OwnedInPipe
  <2>1. CASE u \in L
    <3> DEFINE C == CommittingPcs \cup SyncPcs \cup LoggedPcs
    <3>1. u \in Members(list'[t]) /\ pc'[t] \in LeaderPcs \cap C
      BY <1>8, <2>1
    <3>2. u \in Region({"SYNC", "COMMIT"}, C)'
      <4> USE DEF CommittingPcs, SyncPcs, LoggedPcs
      <4> QED BY <3>1, ListRegionAfter
    <3> QED BY <3>2 DEF Flushed
  <2>2. CASE u \notin L
    BY <1>4, <1>10, <2>2 DEF Numbered, OwnedInPipe
  <2> QED BY <2>1, <2>2
<1>12. L \cap Committing = {} /\ L \cap ToCommit = {} /\ L \cap Syncing = {} /\ L \cap ToSync = {}
  BY <1>5, ListApart DEF Committing, ToCommit, Syncing, ToSync
<1>13. /\ Committing = Committing' /\ ToCommit = ToCommit' /\ Syncing = Syncing' /\ ToSync = ToSync'
       /\ Committing \subseteq BinlogThds /\ ToCommit \subseteq BinlogThds
       /\ Syncing \subseteq BinlogThds /\ ToSync \subseteq BinlogThds
  <2>1. /\ Committing \subseteq BinlogThds /\ ToCommit \subseteq BinlogThds
        /\ Syncing \subseteq BinlogThds /\ ToSync \subseteq BinlogThds
    BY DEF Committing, ToCommit, Syncing, ToSync, Region
  <2> QED BY <1>10, <2>1, PartTypes
<1> DEFINE g == [u \in BinlogThds |-> gno[u]]
           h == [u \in BinlogThds |-> gno'[u]]
<1>14. g \in [BinlogThds -> Nat] /\ h \in [BinlogThds -> Nat]
  BY ThdsFacts DEF IInv, CommitTypeOK, GtidTypeOK
<1>15. Given(L, g, h, next_gno)
  <2>1. \A u \in L : next_gno <= h[u]
    <3>1. \A u \in L : gno'[u] \in next_gno .. (next_gno' - 1)
      BY <1>4
    <3> QED BY <1>2, <1>4, <3>1
  <2>2. \A u \in BinlogThds \ L : h[u] = g[u]
    BY <1>4
  <2>3. \A u \in BinlogThds : gno[u] < next_gno
    <3>1. \A u \in BinlogThds : gno[u] = 0 \/ gno[u] \in (k + 1) .. (next_gno - 1)
      BY <1>3 DEF FollowOn
    <3> QED BY <1>3, <1>4, <3>1 DEF FollowOn
  <2> QED BY <2>1, <2>2, <2>3 DEF Given
<1>16. ASSUME NEW R, R \subseteq BinlogThds PROVE (Ahead(R, g) <=> Ahead(R, gno)) /\ (Ahead(R, h) <=> Ahead(R, gno'))
  BY <1>16 DEF Ahead
<1>17. ASSUME NEW R, R \subseteq BinlogThds, L \cap R = {}, Ahead(R, gno) PROVE Ahead(R, gno')
  <2>1. Ahead(R, g)
    BY <1>16, <1>17
  <2> DEFINE n == next_gno
  <2>2. n \in Nat /\ Given(L, g, h, n) /\ R \cap L = {}
    BY <1>4, <1>15, <1>17
  <2> HIDE DEF L, g, h, n
  <2>3. Ahead(R, h)
    BY <1>14, <1>17, <2>1, <2>2, AheadGrows
  <2> QED BY <1>16, <1>17, <2>3
<1>18. SmallerFirst'
  <2>1. Ahead(Committing, gno')
    <3> DEFINE R == Committing
    <3>1. R \subseteq BinlogThds /\ L \cap R = {} /\ Ahead(R, gno)
      BY <1>12, <1>13 DEF Numbered, SmallerFirst
    <3> HIDE DEF R
    <3>2. Ahead(R, gno')
      BY <1>17, <3>1
    <3> QED BY <3>2 DEF R
  <2>2. Ahead(ToCommit, gno')
    <3> DEFINE R == ToCommit
    <3>1. R \subseteq BinlogThds /\ L \cap R = {} /\ Ahead(R, gno)
      BY <1>12, <1>13 DEF Numbered, SmallerFirst
    <3> HIDE DEF R
    <3>2. Ahead(R, gno')
      BY <1>17, <3>1
    <3> QED BY <3>2 DEF R
  <2>3. Ahead(Syncing, gno')
    <3> DEFINE R == Syncing
    <3>1. R \subseteq BinlogThds /\ L \cap R = {} /\ Ahead(R, gno)
      BY <1>12, <1>13 DEF Numbered, SmallerFirst
    <3> HIDE DEF R
    <3>2. Ahead(R, gno')
      BY <1>17, <3>1
    <3> QED BY <3>2 DEF R
  <2>4. Ahead(ToSync, gno')
    <3> DEFINE R == ToSync
    <3>1. R \subseteq BinlogThds /\ L \cap R = {} /\ Ahead(R, gno)
      BY <1>12, <1>13 DEF Numbered, SmallerFirst
    <3> HIDE DEF R
    <3>2. Ahead(R, gno')
      BY <1>17, <3>1
    <3> QED BY <3>2 DEF R
  <2> QED BY <1>13, <2>1, <2>2, <2>3, <2>4 DEF SmallerFirst
<1> QED BY <1>7, <1>11, <1>18 DEF Numbered

(* A group never goes round the commit stage: a failing sync does not do   *)
(* it, because no sync fails or because the server goes on.                *)
LEMMA OrderIsKept ==
  ASSUME AlwaysOrdered, SyncWorks \/ ~AbortServer, SettingsTypeOK, IInv, NEW t \in BinlogThds,
         Prepare(t) \/ FlushLogs(t) \/ BinlogStep(t)
  PROVE  KeepsOrder(t)
<1> SUFFICES ASSUME pc[t] = "sync" PROVE pc'[t] # "after_sync"
  BY DEF KeepsOrder
<1>1. order_commits
  BY ConfigAssumption DEF AlwaysOrdered, SettingsTypeOK
<1>2. SyncBinlog(t)
  BY DEF BinlogStep, Prepare, FlushLogs, OrderedCommit, BinlogLeader, BinlogLeaderWakes, EnterFlush,
     FlushEngine, FinishOrderList, WriteBinlog, CloseBinlog, LeaveFlush, LeaveClosedFlush, EnterSync,
     LeaveSync, EnterCommit, AfterSyncHook, CommitNext, CommitGroupDone, LeaveCommit,
     EnterAfterCommit, AfterCommit, HandleSyncError, Signal, FollowerWakes, FinishInEngine,
     FinishCommit, EnterStage, RotateLock, WaitForPrepXids, NewFile
<1>3. Goto(t, "to_commit")
  BY <1>1, <1>2 DEF SyncBinlog, SyncWorks
<1> QED BY <1>3, ThdsFacts DEF Goto, IInv, CommitTypeOK, StageTypeOK, PcTypeOK

(* Every step keeps the numbers in order. *)
LEMMA NextNumbered ==
  ASSUME NoOrderWorkers, AlwaysOrdered, SyncWorks \/ ~AbortServer, SettingsTypeOK, IInv, IInv',
         Linked, Numbered, [Next]_vars
  PROVE  Numbered'
<1>1. ASSUME NEW t \in BinlogThds, Prepare(t) \/ FlushLogs(t) \/ BinlogStep(t) PROVE Numbered'
  <2>1. KeepsOrder(t)
    BY <1>1, OrderIsKept
  <2>2. CASE WriteBinlog(t)
    BY <2>2, WriteNumbers
  <2>3. CASE CommitGroupDone(t)
    <3>1. Consecutive'
      BY <2>3, CommitConsecutive DEF Numbered, SmallerFirst
    <3>2. \A u \in BinlogThds : gno'[u] = IF u \in Members(list[t]) THEN 0 ELSE gno[u]
      BY <2>3, ThdsFacts DEF CommitGroupDone, UpdateCommitGroup
    <3>3. Members(list[t]) \subseteq BinlogThds /\ ~WriteBinlog(t)
      <4>1. pc[t] \in LeaderPcs /\ pc[t] = "commit"
        BY <2>3 DEF CommitGroupDone, LeaderPcs
      <4> QED BY <4>1, LeaderInList DEF WriteBinlog
    <3>4. /\ \A u \in BinlogThds : gno'[u] # 0 => gno'[u] = gno[u]
          /\ \A u \in Members(list[t]) : gno'[u] = 0
      BY <3>2, <3>3
    <3>5. OwnedInPipe' /\ SmallerFirst'
      BY <1>1, <2>1, <3>3, <3>4, NumbersMoveOn DEF Numbered
    <3> QED BY <3>1, <3>5 DEF Numbered
  <2>4. CASE ~WriteBinlog(t) /\ ~CommitGroupDone(t)
    <3>1. FinishCommit(t) => gno[t] = 0
      <4>1. FinishCommit(t) => pc[t] \in {"finish", "finish_low"}
        BY DEF FinishCommit
      <4>2. FinishCommit(t) => t \notin Flushed
        BY <4>1, OutsideRegion DEF Flushed, LeaderPcs, QueueLeaderPcs
      <4> QED BY <4>2 DEF Numbered, OwnedInPipe
    <3>2. FinishCommit(t) => UNCHANGED <<gno, next_gno, executed>>
      BY <3>1, ThdsFacts DEF FinishCommit, UpdateOwnGtid, IInv, CommitTypeOK, GtidTypeOK
    <3>3. UNCHANGED <<gno, next_gno, executed>>
      BY <1>1, <2>4, <3>2, GnoCases
    <3>4. Consecutive'
      BY <3>3 DEF Numbered, Consecutive
    <3>5. OwnedInPipe' /\ SmallerFirst'
      BY <1>1, <2>1, <2>4, <3>3, NumbersMoveOn DEF Numbered
    <3> QED BY <3>4, <3>5 DEF Numbered
  <2> QED BY <2>2, <2>3, <2>4
<1>2. CASE SetOrderCommits \/ Stop \/ UNCHANGED vars
  <2>1. UNCHANGED <<stageVars, leaderVars, gtidVars>>
    BY <1>2 DEF SetOrderCommits, Stop, vars
  <2>2. UNCHANGED <<pc, queue, list, gno, next_gno, executed>>
    BY <2>1 DEF stageVars, leaderVars, gtidVars
  <2>3. Held' = Held
    BY <2>2 DEF Held
  <2>4. /\ Committing' = Committing /\ ToCommit' = ToCommit /\ Syncing' = Syncing
        /\ ToSync' = ToSync /\ Flushed' = Flushed
    BY <2>2, <2>3 DEF Committing, ToCommit, Syncing, ToSync, Flushed, Region, InRegion
  <2> QED BY <2>2, <2>4 DEF Numbered, Consecutive, OwnedInPipe, SmallerFirst
<1> QED BY <1>1, <1>2 DEF Next, NoOrderWorkers

(* At first no number is given. *)
LEMMA InitNumbered ==
  ASSUME Init PROVE Numbered
<1>1. (\A u \in BinlogThds : gno[u] = 0) /\ next_gno = 1 /\ executed = {}
  BY ThdsFacts DEF Init
<1>2. FollowOn(0, gno, next_gno, executed)
  BY <1>1 DEF FollowOn
<1>3. Consecutive
  BY <1>2 DEF Consecutive
<1>4. OwnedInPipe
  BY <1>1 DEF OwnedInPipe
<1>5. /\ Committing \subseteq BinlogThds /\ ToCommit \subseteq BinlogThds
      /\ Syncing \subseteq BinlogThds /\ ToSync \subseteq BinlogThds
  BY DEF Committing, ToCommit, Syncing, ToSync, Region
<1>6. SmallerFirst
  BY <1>1, <1>5 DEF SmallerFirst, Ahead
<1> QED BY <1>3, <1>4, <1>6 DEF Numbered

(* ordered_commit, "keep gtid_executed as a single interval at all times", *)
(* for any number of sessions, rotations and groups, and with failing      *)
(* flushes and hooks: while binlog_order_commits is never switched off,    *)
(* the transactions of this server that are in gtid_executed are those     *)
(* numbered from 1 on, without a gap - if no fsync of the log fails or the *)
(* server goes on after one (a group whose fsync fails on a server that    *)
(* then stops goes round the commit stage, past the groups before it).     *)
THEOREM GtidExecutedIsIntervalHolds ==
  ASSUME NoOrderWorkers, SyncWorks \/ ~AbortServer PROVE Spec => []GtidExecutedIsInterval
<1>1. ASSUME AlwaysOrdered PROVE Spec => []GtidExecutedIsInterval
  <2>1. Init => Numbered
    BY InitNumbered
  <2>2. SettingsTypeOK /\ IInv /\ IInv' /\ Linked /\ Numbered /\ [Next]_vars => Numbered'
    BY <1>1, NextNumbered
  <2>3. Numbered => GtidExecutedIsInterval
    <3> SUFFICES ASSUME Numbered PROVE executed = 1 .. Cardinality(executed)
      BY DEF GtidExecutedIsInterval
    <3>1. PICK k \in Nat : executed = 1 .. k
      BY DEF Numbered, Consecutive, FollowOn
    <3>2. Cardinality(1 .. k) = k
      BY FS_Interval
    <3> QED BY <3>1, <3>2
  <2>4. TypeOK => SettingsTypeOK
    BY DEF TypeOK
  <2> QED BY <2>1, <2>2, <2>3, <2>4, Invariance, LinkedInvariance, TypeCorrect, PTL DEF Spec
<1>2. ASSUME ~AlwaysOrdered PROVE Spec => []GtidExecutedIsInterval
  <2>1. GtidExecutedIsInterval
    BY <1>2 DEF GtidExecutedIsInterval
  <2> QED BY <2>1, PTL
<1> QED BY <1>1, <1>2
=============================================================================
