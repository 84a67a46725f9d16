------------------------- MODULE ThreadCacheProofs -------------------------
(***************************************************************************)
(* The list of handed-over connections always fits the idle threads, the   *)
(* cache keeps its limit and the server the limit on its connections, for  *)
(* any number of connections, threads and sessions that resize the cache.  *)
(***************************************************************************)
EXTENDS ThreadCache, FiniteSetTheorems, TLAPS

(* The threads inside the wait loop of block_until_new_connection. *)
Blocked == {t \in Pthreads : pc[t] = "blocked"}

(* The part of the type invariant the argument rests on. *)
CacheTypes ==
  /\ waiting_channel_info_list \in Seq(Connections)
  /\ wake_pthread \in Nat
  /\ blocked_pthread_count \in Nat
  /\ max_blocked_pthreads \in CacheSizes
  /\ pc \in [Pthreads -> ThreadPlaces]
  /\ rpc \in [Callers -> {"idle", "lock", "waiting", "done"}]
  /\ size \in [Callers -> CacheSizes \cup {0}]

(* The counter counts the threads that wait. *)
CountedIsBlocked == blocked_pthread_count = Cardinality(Blocked)

(* A SET GLOBAL shrinks the cache to no more than the value in force, and  *)
(* so does a FLUSH THREADS, whose parameter is the initial 0.              *)
SettersAim ==
  \A k \in Setters :
    /\ rpc[k] = "idle" => size[k] = 0
    /\ rpc[k] \in {"lock", "waiting"} => size[k] <= max_blocked_pthreads

IInv == CacheTypes /\ CountedIsBlocked /\ HandOver /\ SettersAim /\ CacheLimit

-----------------------------------------------------------------------------
(* The set of waiting threads is finite, and so the counter is a number. *)
LEMMA BlockedFinite ==
  ASSUME NEW S \in SUBSET Pthreads
  PROVE  IsFiniteSet(S) /\ Cardinality(S) \in Nat
BY FS_Subset, FS_CardinalityType, ThreadCacheAssumption

(* A thread that moves between places outside the cache leaves the set. *)
LEMMA BlockedSame ==
  ASSUME pc \in [Pthreads -> ThreadPlaces], NEW t \in Pthreads,
         NEW place \in ThreadPlaces, pc' = [pc EXCEPT ![t] = place],
         pc[t] # "blocked", place # "blocked"
  PROVE  Blocked' = Blocked
BY DEF Blocked

(* One more thread waits. *)
LEMMA BlockedMore ==
  ASSUME pc \in [Pthreads -> ThreadPlaces], NEW t \in Pthreads,
         pc' = [pc EXCEPT ![t] = "blocked"], pc[t] # "blocked"
  PROVE  Cardinality(Blocked') = Cardinality(Blocked) + 1
<1>1. Blocked' = Blocked \cup {t} /\ t \notin Blocked
  BY DEF Blocked
<1>2. IsFiniteSet(Blocked)
  BY BlockedFinite DEF Blocked
<1> QED BY <1>1, <1>2, FS_AddElement

(* One thread fewer waits; there was one. *)
LEMMA BlockedLess ==
  ASSUME pc \in [Pthreads -> ThreadPlaces], NEW t \in Pthreads,
         NEW place \in ThreadPlaces, place # "blocked",
         pc' = [pc EXCEPT ![t] = place], pc[t] = "blocked"
  PROVE  /\ Cardinality(Blocked) \in Nat /\ Cardinality(Blocked) > 0
         /\ Cardinality(Blocked') = Cardinality(Blocked) - 1
<1>1. Blocked' = Blocked \ {t} /\ t \in Blocked
  BY DEF Blocked
<1>2. IsFiniteSet(Blocked) /\ Cardinality(Blocked) \in Nat
  BY BlockedFinite DEF Blocked
<1>3. Cardinality(Blocked) # 0
  BY <1>1, <1>2, FS_EmptySet
<1> QED BY <1>1, <1>2, <1>3, FS_RemoveElement

-----------------------------------------------------------------------------
(* The argument for Init *)
LEMMA InitIInv == Init => IInv
<1> SUFFICES ASSUME Init PROVE IInv
  OBVIOUS
<1>1. Blocked = {}
  BY DEF Init, Blocked
<1>2. CountedIsBlocked
  BY <1>1, FS_EmptySet DEF Init, CountedIsBlocked
<1>3. CacheTypes
  BY DEF Init, CacheTypes, ThreadPlaces
<1>4. HandOver
  BY DEF Init, HandOver
<1>5. SettersAim
  BY DEF Init, SettersAim, Callers
<1>6. CacheLimit
  BY ThreadCacheAssumption DEF Init, CacheLimit
<1> QED BY <1>2, <1>3, <1>4, <1>5, <1>6 DEF IInv

(***************************************************************************)
(* What concerns only the threads outside the cache, the acceptor and the  *)
(* count of connections disturbs no part of the invariant.                 *)
(***************************************************************************)
LEMMA OutsideCache ==
  ASSUME IInv, UNCHANGED <<cacheVars, callerVars>>,
         pc' \in [Pthreads -> ThreadPlaces], Blocked' = Blocked
  PROVE  IInv'
BY DEF IInv, CacheTypes, CountedIsBlocked, HandOver, SettersAim, CacheLimit,
       cacheVars, callerVars

(* A thread that stays outside the cache goes from place to place. *)
LEMMA ThreadMoves ==
  ASSUME IInv, UNCHANGED <<cacheVars, callerVars>>, NEW t \in Pthreads,
         NEW place \in ThreadPlaces, NEW c, GoTo(t, place, c),
         pc[t] # "blocked", place # "blocked"
  PROVE  IInv'
<1>1. pc \in [Pthreads -> ThreadPlaces] /\ pc' = [pc EXCEPT ![t] = place]
  BY DEF IInv, CacheTypes, GoTo
<1>2. Blocked' = Blocked
  BY <1>1, BlockedSame
<1>3. pc' \in [Pthreads -> ThreadPlaces]
  BY <1>1
<1> QED BY <1>2, <1>3, OutsideCache

(* A connection is handed over only to a thread that is still idle. *)
LEMMA EnqueueIInv ==
  ASSUME IInv, NEW c \in Connections, EnqueueConnection(c)
  PROVE  IInv'
<1> USE DEF EnqueueConnection, callerVars, IInv, CacheTypes
<1>1. CacheTypes'
  OBVIOUS
<1>2. CountedIsBlocked'
  BY DEF CountedIsBlocked, Blocked
<1>3. HandOver'
  BY DEF HandOver, IdleThread
<1>4. SettersAim' /\ CacheLimit'
  BY DEF SettersAim, CacheLimit
<1> QED BY <1>1, <1>2, <1>3, <1>4

(***************************************************************************)
(* A thread leaves the cache, with the first connection of the list or     *)
(* without one.  If nobody is to be woken up, the list is empty.           *)
(***************************************************************************)
LEMMA LeaveCacheIInv ==
  ASSUME IInv, UNCHANGED callerVars, NEW t \in Pthreads, NEW n \in Nat,
         LeaveCache(t, n), n <= blocked_pthread_count,
         n = Cardinality(Blocked)',
         wake_pthread > 0 => wake_pthread - 1 <= n
  PROVE  IInv'
<1>1. pc' \in [Pthreads -> ThreadPlaces]
  BY DEF IInv, CacheTypes, LeaveCache, GoTo, ThreadPlaces
<1>2. CacheTypes' /\ HandOver'
  <2>1. CASE wake_pthread > 0
    <3>1. /\ waiting_channel_info_list \in Seq(Connections)
          /\ waiting_channel_info_list # << >>
          /\ wake_pthread = Len(waiting_channel_info_list)
      BY <2>1 DEF IInv, CacheTypes, HandOver
    <3>2. /\ Tail(waiting_channel_info_list) \in Seq(Connections)
          /\ Len(Tail(waiting_channel_info_list)) = wake_pthread - 1
      BY <3>1
    <3>3. /\ waiting_channel_info_list' = Tail(waiting_channel_info_list)
          /\ wake_pthread' = wake_pthread - 1
          /\ blocked_pthread_count' = n
          /\ UNCHANGED <<max_blocked_pthreads, rpc, size>>
      BY <2>1 DEF LeaveCache, callerVars
    <3>4. CacheTypes'
      BY <1>1, <2>1, <3>2, <3>3 DEF IInv, CacheTypes
    <3>5. HandOver'
      BY <2>1, <3>2, <3>3 DEF IInv, CacheTypes, HandOver
    <3> QED BY <3>4, <3>5
  <2>2. CASE ~(wake_pthread > 0)
    BY <1>1, <2>2 DEF IInv, CacheTypes, HandOver, LeaveCache, callerVars
  <2> QED BY <2>1, <2>2
<1>3. CountedIsBlocked'
  BY DEF CountedIsBlocked, LeaveCache
<1>4. SettersAim'
  BY DEF IInv, SettersAim, LeaveCache, callerVars
<1>5. CacheLimit'
  BY ThreadCacheAssumption
  DEF IInv, CacheTypes, CacheLimit, LeaveCache, callerVars
<1> QED BY <1>2, <1>3, <1>4, <1>5 DEF IInv

(* A thread enters the cache only below its limit. *)
LEMMA BlockThreadIInv ==
  ASSUME IInv, NEW t \in Pthreads, BlockThread(t)
  PROVE  IInv'
<1>1. /\ pc \in [Pthreads -> ThreadPlaces] /\ pc[t] # "blocked"
      /\ blocked_pthread_count \in Nat /\ wake_pthread \in Nat
  BY DEF IInv, CacheTypes, BlockThread
<1>2. CASE /\ blocked_pthread_count < max_blocked_pthreads /\ ~shrink_cache
           /\ KeepWaiting
  <2>1. /\ blocked_pthread_count' = blocked_pthread_count + 1
        /\ pc' = [pc EXCEPT ![t] = "blocked"]
        /\ UNCHANGED <<waiting_channel_info_list, wake_pthread,
                       max_blocked_pthreads, rpc, size>>
    BY <1>2 DEF BlockThread, GoTo, callerVars
  <2>2. CountedIsBlocked'
    BY <1>1, <2>1, BlockedMore DEF IInv, CountedIsBlocked
  <2>3. CacheTypes'
    BY <2>1 DEF IInv, CacheTypes, ThreadPlaces
  <2>4. HandOver'
    BY <1>1, <2>1 DEF IInv, HandOver
  <2>5. SettersAim'
    BY <2>1 DEF IInv, SettersAim
  <2>6. CacheLimit'
    BY <1>1, <1>2, <2>1, ThreadCacheAssumption DEF IInv, CacheTypes, CacheLimit
  <2> QED BY <2>2, <2>3, <2>4, <2>5, <2>6 DEF IInv
<1>3. CASE /\ blocked_pthread_count < max_blocked_pthreads /\ ~shrink_cache
           /\ ~KeepWaiting
  <2>1. LeaveCache(t, blocked_pthread_count) /\ UNCHANGED callerVars
    BY <1>3 DEF BlockThread
  <2>2. PICK place \in {"got", "none"} : pc' = [pc EXCEPT ![t] = place]
    BY <2>1 DEF LeaveCache, GoTo
  <2>3. Blocked' = Blocked
    BY <1>1, <2>2, BlockedSame DEF ThreadPlaces
  <2> QED BY <1>1, <2>1, <2>3, LeaveCacheIInv
          DEF IInv, CountedIsBlocked, HandOver
<1>4. CASE ~(blocked_pthread_count < max_blocked_pthreads /\ ~shrink_cache)
  <2>1. GoTo(t, "none", NULL) /\ UNCHANGED <<cacheVars, callerVars>>
    BY <1>4 DEF BlockThread
  <2> QED BY <1>1, <2>1, ThreadMoves DEF ThreadPlaces
<1> QED BY <1>2, <1>3, <1>4

(* A thread that wakes goes to sleep again or leaves the cache. *)
LEMMA UnblockThreadIInv ==
  ASSUME IInv, NEW t \in Pthreads, UnblockThread(t)
  PROVE  IInv'
<1>1. /\ pc \in [Pthreads -> ThreadPlaces] /\ pc[t] = "blocked"
      /\ blocked_pthread_count \in Nat /\ wake_pthread \in Nat
  BY DEF IInv, CacheTypes, UnblockThread
<1>2. CASE KeepWaiting
  <2>1. UNCHANGED <<cacheVars, callerVars, pc>>
    BY <1>2 DEF UnblockThread
  <2>2. Blocked' = Blocked
    BY <2>1 DEF Blocked
  <2> QED BY <1>1, <2>1, <2>2, OutsideCache
<1>3. CASE ~KeepWaiting
  <2>1. LeaveCache(t, blocked_pthread_count - 1) /\ UNCHANGED callerVars
    BY <1>3 DEF UnblockThread
  <2>2. PICK place \in {"got", "none"} : pc' = [pc EXCEPT ![t] = place]
    BY <2>1 DEF LeaveCache, GoTo
  <2>3. /\ Cardinality(Blocked) > 0
        /\ Cardinality(Blocked') = Cardinality(Blocked) - 1
    BY <1>1, <2>2, BlockedLess DEF ThreadPlaces
  <2>4. /\ blocked_pthread_count - 1 \in Nat
        /\ blocked_pthread_count - 1 = Cardinality(Blocked')
        /\ wake_pthread > 0 => wake_pthread - 1 <= blocked_pthread_count - 1
    BY <1>1, <2>3 DEF IInv, CountedIsBlocked, HandOver
  <2> QED BY <1>1, <2>1, <2>4, LeaveCacheIInv
<1> QED BY <1>2, <1>3

(***************************************************************************)
(* The callers of modify_thread_cache_size touch neither list nor count;   *)
(* one that ends leaves no more threads than it asked for.                 *)
(***************************************************************************)
LEMMA CallerIInv ==
  ASSUME IInv, NEW k \in Callers,
         \/ \E n \in CacheSizes : SetThreadCacheSize(k, n)
         \/ KillBlockedPthreads(k)
         \/ CallerStep(k)
  PROVE  IInv'
<1>1. UNCHANGED <<waiting_channel_info_list, wake_pthread,
                  blocked_pthread_count, pc>>
  BY DEF SetThreadCacheSize, KillBlockedPthreads, CallerStep,
         ModifyThreadCacheSize, CacheIsShrunk, cacheVars
<1>2. CountedIsBlocked' /\ HandOver'
  BY <1>1 DEF IInv, CountedIsBlocked, HandOver, Blocked
<1>3. CASE \E n \in CacheSizes : SetThreadCacheSize(k, n)
  <2>1. PICK n \in CacheSizes : SetThreadCacheSize(k, n)
    BY <1>3
  <2>2. CacheTypes'
    BY <1>1, <2>1 DEF SetThreadCacheSize, IInv, CacheTypes
  <2>3. SettersAim'
    BY <2>1, ThreadCacheAssumption
    DEF SetThreadCacheSize, IInv, CacheTypes, SettersAim, Callers
  <2>4. CacheLimit'
    BY <2>1 DEF SetThreadCacheSize, IInv, CacheTypes, CacheLimit
  <2> QED BY <1>2, <2>2, <2>3, <2>4 DEF IInv
<1>4. CASE KillBlockedPthreads(k)
  <2>1. CacheTypes'
    BY <1>1, <1>4 DEF KillBlockedPthreads, IInv, CacheTypes, cacheVars
  <2>2. SettersAim'
    BY <1>4, ThreadCacheAssumption
    DEF KillBlockedPthreads, IInv, CacheTypes, SettersAim, Callers, cacheVars
  <2>3. CacheLimit'
    BY <1>4 DEF KillBlockedPthreads, IInv, CacheTypes, CacheLimit, cacheVars
  <2> QED BY <1>2, <2>1, <2>2, <2>3 DEF IInv
<1>5. CASE CallerStep(k)
  <2>1. CacheTypes'
    BY <1>1, <1>5 DEF CallerStep, ModifyThreadCacheSize, CacheIsShrunk, IInv,
                      CacheTypes
  <2>2. SettersAim'
    BY <1>5 DEF CallerStep, ModifyThreadCacheSize, CacheIsShrunk, IInv,
                CacheTypes, SettersAim, Callers
  <2>3. CacheLimit'
    <3> SUFFICES ASSUME blocked_pthread_count > max_blocked_pthreads
                 PROVE  \E j \in Setters : rpc'[j] \in {"lock", "waiting"}
      BY <1>1, <1>5 DEF CallerStep, ModifyThreadCacheSize, CacheIsShrunk,
                        CacheLimit
    <3>1. PICK j \in Setters : rpc[j] \in {"lock", "waiting"}
      BY DEF IInv, CacheLimit
    <3>2. j \in Callers /\ size[j] <= max_blocked_pthreads
      BY <3>1 DEF IInv, SettersAim, Callers
    <3>3. /\ size[j] \in Nat /\ max_blocked_pthreads \in Nat
          /\ blocked_pthread_count \in Nat
      <4>1. size[j] \in CacheSizes \cup {0}
        BY <3>2 DEF IInv, CacheTypes
      <4>2. CacheSizes \subseteq Nat /\ 0 \in Nat
        BY ThreadCacheAssumption
      <4>3. max_blocked_pthreads \in CacheSizes /\ blocked_pthread_count \in Nat
        BY DEF IInv, CacheTypes
      <4>4. size[j] \in Nat
        BY <4>1, <4>2, Zenon
      <4>5. max_blocked_pthreads \in Nat
        BY <4>2, <4>3, Zenon
      <4> QED BY <4>3, <4>4, <4>5
    <3>4. ~(size[j] >= blocked_pthread_count) /\ blocked_pthread_count > size[j]
      BY <3>2, <3>3
    <3>5. rpc \in [Callers -> {"idle", "lock", "waiting", "done"}]
      BY DEF IInv, CacheTypes
    <3>6. CASE j # k
      BY <1>5, <3>1, <3>2, <3>5, <3>6
      DEF CallerStep, ModifyThreadCacheSize, CacheIsShrunk
    <3>7. CASE j = k
      BY <1>5, <3>1, <3>2, <3>4, <3>5, <3>7
      DEF CallerStep, ModifyThreadCacheSize, CacheIsShrunk
    <3> QED BY <3>6, <3>7
  <2> QED BY <1>2, <2>1, <2>2, <2>3 DEF IInv
<1> QED BY <1>3, <1>4, <1>5

(* Every step preserves the invariant. *)
LEMMA NextIInv == IInv /\ [Next]_vars => IInv'
<1> SUFFICES ASSUME IInv, [Next]_vars PROVE IInv'
  OBVIOUS
<1>0. pc \in [Pthreads -> ThreadPlaces]
  BY DEF IInv, CacheTypes
<1>1. CASE UNCHANGED <<cacheVars, callerVars, pc>>
  <2>1. Blocked' = Blocked
    BY <1>1 DEF Blocked
  <2> QED BY <1>0, <1>1, <2>1, OutsideCache
<1>2. ASSUME NEW c \in Connections, CheckAndIncrConnCount(c) \/ AcceptorStep(c)
      PROVE  IInv'
  <2>1. CASE CheckAndIncrConnCount(c) \/ CreateThreadFails(c)
    BY <1>1, <2>1 DEF CheckAndIncrConnCount, CreateThreadFails
  <2>2. CASE EnqueueConnection(c)
    BY <2>2, EnqueueIInv
  <2>3. ASSUME NEW t \in Pthreads, CreateThread(c, t) PROVE IInv'
    <3>1. /\ GoTo(t, "start", c) /\ UNCHANGED <<cacheVars, callerVars>>
          /\ pc[t] # "blocked"
      BY <2>3 DEF CreateThread
    <3> QED BY <3>1, ThreadMoves DEF ThreadPlaces
  <2> QED BY <1>2, <2>1, <2>2, <2>3 DEF AcceptorStep
<1>3. ASSUME NEW t \in Pthreads, ThreadStep(t) \/ EndConnection(t) PROVE IInv'
  <2>1. CASE BlockThread(t)
    BY <2>1, BlockThreadIInv
  <2>2. CASE UnblockThread(t)
    BY <2>2, UnblockThreadIInv
  <2>3. CASE StartServing(t) \/ StartFails(t) \/ EndConnection(t)
             \/ NextConnection(t)
    <3>1. /\ UNCHANGED <<cacheVars, callerVars>> /\ pc[t] # "blocked"
          /\ \E place \in ThreadPlaces \ {"blocked"}, c \in {serves[t], NULL} :
               GoTo(t, place, c)
      BY <2>3 DEF StartServing, StartFails, EndConnection, NextConnection,
                  ThreadPlaces
    <3> QED BY <3>1, ThreadMoves
  <2> QED BY <1>3, <2>1, <2>2, <2>3 DEF ThreadStep
<1>4. CASE AllAtRest \/ UNCHANGED vars
  BY <1>1, <1>4 DEF AllAtRest, vars, callerVars
<1> QED BY <1>2, <1>3, <1>4, CallerIInv DEF Next

-----------------------------------------------------------------------------
(* The invariant holds in every state. *)
LEMMA Inductive == Spec => []IInv
<1> QED BY InitIInv, NextIInv, PTL DEF Spec

(***************************************************************************)
(* Whatever leaves the cache for whatever reason, a thread that is told to *)
(* take a connection finds one in the list, and every connection in the    *)
(* list has a thread that waits for it (block_until_new_connection).       *)
(***************************************************************************)
THEOREM HandOverHolds == Spec => []HandOver
<1>1. IInv => HandOver
  BY DEF IInv
<1> QED BY <1>1, Inductive, PTL

(***************************************************************************)
(* The cache outgrows thread_cache_size only while a SET GLOBAL that       *)
(* lowers it is under way (block_until_new_connection and                  *)
(* modify_thread_cache_size).                                              *)
(***************************************************************************)
THEOREM CacheKeepsLimit == Spec => []CacheLimit
<1>1. IInv => CacheLimit
  BY DEF IInv
<1> QED BY <1>1, Inductive, PTL
-----------------------------------------------------------------------------
(* The count of connections *)

LiveConnections == {c \in Connections : status[c] \in Live}

(* Those that do not come in through the administrators' interface. *)
LiveClients == {c \in Connections \ Admins : status[c] \in Live}

(* Threads that have a connection. *)
AtWork == {t \in Pthreads : pc[t] \in {"start", "serving", "got"}}

ConnectionTypes ==
  /\ shrink_cache \in BOOLEAN /\ aborted \in BOOLEAN
  /\ serves \in [Pthreads -> Connections \cup {NULL}]
  /\ woken \subseteq Pthreads \cup Callers
  /\ status \in [Connections -> Live \cup {"none", "closed", "refused"}]

(* The counter counts the connections not yet taken down. *)
CountedIsLive ==
  /\ IsFiniteSet(LiveConnections)
  /\ connection_count = Cardinality(LiveConnections)

(* No two threads have the same connection. *)
ServedOnce ==
  /\ \A t \in AtWork : serves[t] \in Connections /\ status[serves[t]] = "handed"
  /\ \A t, u \in AtWork : serves[t] = serves[u] => t = u

(* Nor is a connection twice in the list. *)
ListedOnce ==
  /\ \A i \in 1 .. Len(waiting_channel_info_list) :
       status[waiting_channel_info_list[i]] = "queued"
  /\ \A i, j \in 1 .. Len(waiting_channel_info_list) :
       waiting_channel_info_list[i] = waiting_channel_info_list[j] => i = j

CInv ==
  /\ ConnectionTypes /\ CountedIsLive /\ ServedOnce /\ ListedOnce
  /\ ConnectionLimit

(* A connection goes on from one place to the next: the count stays. *)
LEMMA LiveSame ==
  ASSUME ConnectionTypes, CountedIsLive, ConnectionLimit, NEW c \in Connections,
         NEW s, SetStatus(c, s), status[c] \in Live <=> s \in Live,
         UNCHANGED connection_count
  PROVE  CountedIsLive' /\ ConnectionLimit'
<1>1. LiveConnections' = LiveConnections /\ LiveClients' = LiveClients
  BY DEF LiveConnections, LiveClients, SetStatus, ConnectionTypes
<1> QED BY <1>1 DEF CountedIsLive, ConnectionLimit, LiveClients

(* One is accepted: a client only while the counter allows it. *)
LEMMA LiveMore ==
  ASSUME ConnectionTypes, CountedIsLive, ConnectionLimit, NEW c \in Connections,
         NEW s \in Live, SetStatus(c, s), status[c] \notin Live,
         c \notin Admins => ~(connection_count > max_connections),
         connection_count' = connection_count + 1
  PROVE  CountedIsLive' /\ ConnectionLimit'
<1>1. LiveConnections' = LiveConnections \cup {c} /\ c \notin LiveConnections
  BY DEF LiveConnections, SetStatus, ConnectionTypes
<1>2. CountedIsLive'
  BY <1>1, FS_AddElement DEF CountedIsLive
<1>3. LiveClients \in SUBSET LiveConnections
  BY DEF LiveClients, LiveConnections
<1>4. /\ IsFiniteSet(LiveClients) /\ Cardinality(LiveClients) \in Nat
      /\ Cardinality(LiveConnections) \in Nat
      /\ Cardinality(LiveClients) <= Cardinality(LiveConnections)
  BY <1>3, FS_Subset, FS_CardinalityType DEF CountedIsLive
<1>5. Cardinality(LiveClients') <= max_connections + 1
  <2>1. CASE c \in Admins
    <3>1. LiveClients' = LiveClients
      BY <2>1 DEF LiveClients, SetStatus, ConnectionTypes
    <3> QED BY <3>1 DEF ConnectionLimit, LiveClients
  <2>2. CASE c \notin Admins
    <3>1. LiveClients' = LiveClients \cup {c} /\ c \notin LiveClients
      BY <2>2 DEF LiveClients, SetStatus, ConnectionTypes
    <3>2. Cardinality(LiveClients') = Cardinality(LiveClients) + 1
      BY <3>1, <1>4, FS_AddElement
    <3> QED BY <2>2, <3>2, <1>4, ThreadCacheAssumption DEF CountedIsLive
  <2> QED BY <2>1, <2>2
<1> QED BY <1>2, <1>5 DEF ConnectionLimit, LiveClients

(* One is taken down. *)
LEMMA LiveLess ==
  ASSUME ConnectionTypes, CountedIsLive, ConnectionLimit, NEW c \in Connections,
         NEW s, s \notin Live, SetStatus(c, s), status[c] \in Live,
         connection_count' = connection_count - 1
  PROVE  CountedIsLive' /\ ConnectionLimit'
<1>1. /\ LiveConnections' = LiveConnections \ {c} /\ c \in LiveConnections
      /\ LiveClients' \in SUBSET LiveClients
      /\ LiveClients \in SUBSET LiveConnections
  BY DEF LiveConnections, LiveClients, SetStatus, ConnectionTypes
<1>2. CountedIsLive'
  BY <1>1, FS_RemoveElement DEF CountedIsLive
<1>3. IsFiniteSet(LiveClients) /\ Cardinality(LiveClients) \in Nat
  BY <1>1, FS_Subset, FS_CardinalityType DEF CountedIsLive
<1>4. /\ Cardinality(LiveClients') <= Cardinality(LiveClients)
      /\ Cardinality(LiveClients') \in Nat
  BY <1>1, <1>3, FS_Subset, FS_CardinalityType
<1> QED BY <1>2, <1>3, <1>4, ThreadCacheAssumption
        DEF ConnectionLimit, LiveClients

(* The invariant holds at first. *)
LEMMA InitCInv == Init => CInv
<1> SUFFICES ASSUME Init PROVE CInv
  OBVIOUS
<1>1. LiveConnections = {} /\ LiveClients = {} /\ AtWork = {}
  BY DEF Init, LiveConnections, LiveClients, AtWork, Live
<1>2. CountedIsLive /\ ConnectionLimit
  <2>1. IsFiniteSet({}) /\ Cardinality({}) = 0 /\ 0 <= max_connections + 1
    BY FS_EmptySet, ThreadCacheAssumption
  <2>2. CountedIsLive
    BY <1>1, <2>1 DEF Init, CountedIsLive
  <2>3. Cardinality(LiveClients) <= max_connections + 1
    BY <1>1, <2>1
  <2> QED BY <2>2, <2>3 DEF ConnectionLimit, LiveClients
<1>3. ConnectionTypes
  BY DEF Init, ConnectionTypes
<1>4. ServedOnce /\ ListedOnce
  BY <1>1 DEF Init, ServedOnce, ListedOnce
<1> QED BY <1>2, <1>3, <1>4 DEF CInv

(* The acceptor counts a connection, hands it over or gives it up. *)
LEMMA AcceptorCInv ==
  ASSUME IInv, CInv, NEW c \in Connections,
         CheckAndIncrConnCount(c) \/ AcceptorStep(c)
  PROVE  CInv'
<1> USE DEF CInv
<1>0. pc \in [Pthreads -> ThreadPlaces]
      /\ waiting_channel_info_list \in Seq(Connections)
  BY DEF IInv, CacheTypes
<1>1. CASE CheckAndIncrConnCount(c)
  <2>1. PICK s \in {"refused", "counted"} : SetStatus(c, s)
    BY <1>1 DEF CheckAndIncrConnCount
  <2>2. /\ status[c] = "none"
        /\ UNCHANGED <<waiting_channel_info_list, shrink_cache, aborted, pc,
                       serves, woken>>
    BY <1>1 DEF CheckAndIncrConnCount, cacheVars
  <2>3. ConnectionTypes' /\ ServedOnce' /\ ListedOnce'
    BY <1>0, <2>1, <2>2
    DEF ConnectionTypes, ServedOnce, ListedOnce, AtWork, SetStatus, Live
  <2>4. CountedIsLive' /\ ConnectionLimit'
    <3>1. CASE aborted \/ (connection_count > max_connections /\ c \notin Admins)
      BY <1>1, <2>2, <3>1, LiveSame DEF CheckAndIncrConnCount, Live
    <3>2. CASE ~(aborted \/ (connection_count > max_connections
                             /\ c \notin Admins))
      BY <1>1, <2>2, <3>2, LiveMore DEF CheckAndIncrConnCount, Live
    <3> QED BY <3>1, <3>2
  <2> QED BY <2>3, <2>4
<1>2. CASE EnqueueConnection(c)
  <2>1. /\ status[c] = "counted" /\ SetStatus(c, "queued")
        /\ waiting_channel_info_list' = Append(waiting_channel_info_list, c)
        /\ UNCHANGED <<shrink_cache, aborted, pc, serves, connection_count>>
    BY <1>2 DEF EnqueueConnection
  <2>2. CountedIsLive' /\ ConnectionLimit'
    BY <2>1, LiveSame DEF Live
  <2>3. woken' \subseteq Pthreads \cup Callers
    BY <1>2 DEF EnqueueConnection, Signalled, Sleeping, ConnectionTypes
  <2>4. ConnectionTypes' /\ ServedOnce'
    BY <1>0, <2>1, <2>3 DEF ConnectionTypes, ServedOnce, AtWork, SetStatus, Live
  <2>5. ListedOnce'
    BY <1>0, <2>1 DEF ConnectionTypes, ListedOnce, SetStatus
  <2> QED BY <2>2, <2>4, <2>5
<1>3. ASSUME NEW t \in Pthreads, CreateThread(c, t) PROVE CInv'
  <2>1. /\ status[c] = "counted" /\ SetStatus(c, "handed")
        /\ pc[t] = "none" /\ GoTo(t, "start", c)
        /\ UNCHANGED <<waiting_channel_info_list, shrink_cache, aborted,
                       connection_count, woken>>
    BY <1>3 DEF CreateThread, cacheVars
  <2>2. CountedIsLive' /\ ConnectionLimit'
    BY <2>1, LiveSame DEF Live
  <2>3. ConnectionTypes' /\ ListedOnce'
    BY <1>0, <2>1 DEF ConnectionTypes, ListedOnce, SetStatus, GoTo, Live
  <2>4. ServedOnce'
    BY <1>0, <2>1 DEF ConnectionTypes, ServedOnce, AtWork, SetStatus, GoTo
  <2> QED BY <2>2, <2>3, <2>4
<1>4. CASE CreateThreadFails(c)
  <2>1. /\ status[c] = "counted" /\ SetStatus(c, "refused")
        /\ connection_count' = connection_count - 1
        /\ UNCHANGED <<waiting_channel_info_list, shrink_cache, aborted, pc,
                       serves, woken>>
    BY <1>4 DEF CreateThreadFails, cacheVars
  <2>2. CountedIsLive' /\ ConnectionLimit'
    BY <2>1, LiveLess DEF Live
  <2>3. ConnectionTypes' /\ ServedOnce' /\ ListedOnce'
    BY <1>0, <2>1
    DEF ConnectionTypes, ServedOnce, ListedOnce, AtWork, SetStatus, Live
  <2> QED BY <2>2, <2>3
<1> QED BY <1>1, <1>2, <1>3, <1>4 DEF AcceptorStep

(* A thread that had a connection ends it and has none afterwards. *)
LEMMA ReleaseCInv ==
  ASSUME IInv, CInv, NEW t \in AtWork, NEW place \in {"none", "left"},
         Release(serves[t]), GoTo(t, place, NULL),
         UNCHANGED <<waiting_channel_info_list, shrink_cache, aborted, woken>>
  PROVE  CInv'
<1> USE DEF CInv
<1>0. /\ pc \in [Pthreads -> ThreadPlaces] /\ t \in Pthreads
      /\ waiting_channel_info_list \in Seq(Connections)
  BY DEF IInv, CacheTypes, AtWork
<1>1. serves[t] \in Connections /\ status[serves[t]] = "handed"
  BY DEF ServedOnce
<1>2. CountedIsLive' /\ ConnectionLimit'
  BY <1>1, LiveLess DEF Live, Release
<1>3. ConnectionTypes' /\ ListedOnce'
  BY <1>0, <1>1
  DEF ConnectionTypes, ListedOnce, SetStatus, GoTo, Release, Live
<1>4. AtWork' = AtWork \ {t}
  BY <1>0 DEF AtWork, GoTo
<1>5. \A u \in AtWork' : serves'[u] = serves[u] /\ u \in AtWork /\ u # t
  BY <1>0, <1>4 DEF GoTo, ConnectionTypes, AtWork
<1>6. \A d \in Connections : d # serves[t] => status'[d] = status[d]
  BY DEF Release, SetStatus, ConnectionTypes
<1>7. ServedOnce'
  BY <1>5, <1>6 DEF ServedOnce
<1> QED BY <1>2, <1>3, <1>7

(* A thread leaves the cache, with the head of the list or without. *)
LEMMA LeaveCacheCInv ==
  ASSUME IInv, CInv, NEW t \in Pthreads, t \notin AtWork, NEW n,
         LeaveCache(t, n), UNCHANGED <<connection_count, aborted>>
  PROVE  CInv'
<1> USE DEF CInv
<1> DEFINE list == waiting_channel_info_list
<1>0. /\ pc \in [Pthreads -> ThreadPlaces]
      /\ list \in Seq(Connections)
      /\ wake_pthread \in Nat /\ wake_pthread = Len(list)
  BY DEF IInv, CacheTypes, HandOver
<1>1. woken' \subseteq Pthreads \cup Callers /\ UNCHANGED shrink_cache
  BY DEF LeaveCache, ConnectionTypes, WaitingCallers
<1>2. CASE wake_pthread > 0
  <2>1. /\ list # << >> /\ list' = Tail(list)
        /\ GoTo(t, "got", Head(list)) /\ SetStatus(Head(list), "handed")
    BY <1>0, <1>2 DEF LeaveCache
  <2>2. /\ Head(list) \in Connections /\ Head(list) = list[1]
        /\ Len(Tail(list)) = Len(list) - 1
        /\ \A i \in 1 .. Len(Tail(list)) : Tail(list)[i] = list[i + 1]
    BY <1>0, <2>1
  <2>3. status[Head(list)] = "queued"
    BY <1>0, <1>2, <2>2 DEF ListedOnce
  <2>4. CountedIsLive' /\ ConnectionLimit'
    BY <2>1, <2>2, <2>3, LiveSame DEF Live
  <2>5. ConnectionTypes'
    BY <1>1, <2>1, <2>2 DEF ConnectionTypes, SetStatus, GoTo, Live
  <2>6. ListedOnce'
    <3>1. \A i \in 1 .. Len(Tail(list)) : i + 1 \in 1 .. Len(list) /\ i + 1 # 1
      BY <1>0, <2>2
    <3>2. \A i \in 1 .. Len(Tail(list)) :
            list[i + 1] # Head(list) /\ list[i + 1] \in Connections
      BY <1>0, <1>2, <2>2, <3>1 DEF ListedOnce
    <3>3. \A i \in 1 .. Len(Tail(list)) : status'[list[i + 1]] = "queued"
      BY <2>1, <3>1, <3>2 DEF ListedOnce, SetStatus, ConnectionTypes
    <3>4. \A i, j \in 1 .. Len(Tail(list)) : list[i + 1] = list[j + 1] => i = j
      BY <1>0, <2>2, <3>1 DEF ListedOnce
    <3>5. /\ \A i \in 1 .. Len(Tail(list)) : status'[Tail(list)[i]] = "queued"
          /\ \A i, j \in 1 .. Len(Tail(list)) :
               Tail(list)[i] = Tail(list)[j] => i = j
      BY <2>2, <3>3, <3>4
    <3> QED BY <2>1, <3>5 DEF ListedOnce
  <2>7. ServedOnce'
    BY <1>0, <2>1, <2>2, <2>3
    DEF ConnectionTypes, ServedOnce, AtWork, SetStatus, GoTo
  <2> QED BY <2>4, <2>5, <2>6, <2>7
<1>3. CASE ~(wake_pthread > 0)
  <2>1. /\ GoTo(t, "none", NULL)
        /\ UNCHANGED <<waiting_channel_info_list, status>>
    BY <1>3 DEF LeaveCache
  <2>2. CountedIsLive' /\ ConnectionLimit' /\ ListedOnce'
    BY <2>1 DEF CountedIsLive, ConnectionLimit, LiveConnections, ListedOnce
  <2>3. ConnectionTypes' /\ ServedOnce'
    BY <1>0, <1>1, <2>1 DEF ConnectionTypes, ServedOnce, AtWork, GoTo
  <2> QED BY <2>2, <2>3
<1> QED BY <1>2, <1>3

(* A thread without a connection goes somewhere without one; a thread with *)
(* one keeps it.                                                           *)
LEMMA MovesCInv ==
  ASSUME IInv, CInv, NEW t \in Pthreads, NEW place \in ThreadPlaces,
         \/ /\ place \in {"start", "serving", "got"} /\ t \in AtWork
            /\ GoTo(t, place, serves[t])
         \/ place \in {"none", "blocked"} /\ GoTo(t, place, NULL),
         woken' \subseteq woken,
         UNCHANGED <<waiting_channel_info_list, shrink_cache, aborted, status,
                     connection_count>>
  PROVE  CInv'
<1> USE DEF CInv
<1>0. pc \in [Pthreads -> ThreadPlaces]
  BY DEF IInv, CacheTypes
<1>1. CountedIsLive' /\ ConnectionLimit' /\ ListedOnce'
  BY DEF CountedIsLive, ConnectionLimit, LiveConnections, ListedOnce
<1>2. ConnectionTypes' /\ ServedOnce'
  BY <1>0 DEF ConnectionTypes, ServedOnce, AtWork, GoTo
<1> QED BY <1>1, <1>2

(* A step of a thread that serves connections keeps the count. *)
LEMMA ThreadCInv ==
  ASSUME IInv, CInv, NEW t \in Pthreads, ThreadStep(t) \/ EndConnection(t)
  PROVE  CInv'
<1>1. CASE StartServing(t)
  BY <1>1, MovesCInv DEF StartServing, AtWork, cacheVars, ThreadPlaces
<1>2. CASE StartFails(t)
  BY <1>2, ReleaseCInv DEF StartFails, AtWork, cacheVars
<1>3. CASE EndConnection(t)
  BY <1>3, ReleaseCInv DEF EndConnection, AtWork, cacheVars
<1>4. CASE NextConnection(t)
  <2>1. CASE aborted
    BY <1>4, <2>1, ReleaseCInv DEF NextConnection, AtWork, cacheVars
  <2>2. CASE ~aborted
    BY <1>4, <2>2, MovesCInv DEF NextConnection, AtWork, cacheVars, ThreadPlaces
  <2> QED BY <2>1, <2>2
<1>5. CASE BlockThread(t)
  <2>0. t \notin AtWork
    BY <1>5 DEF BlockThread, AtWork
  <2>1. CASE LeaveCache(t, blocked_pthread_count)
    BY <1>5, <2>0, <2>1, LeaveCacheCInv DEF BlockThread
  <2>2. CASE ~LeaveCache(t, blocked_pthread_count)
    <3>1. /\ \E place \in {"none", "blocked"} : GoTo(t, place, NULL)
          /\ woken' = woken
          /\ UNCHANGED <<waiting_channel_info_list, shrink_cache, aborted,
                         status, connection_count>>
      BY <1>5, <2>2 DEF BlockThread, cacheVars
    <3> QED BY <3>1, MovesCInv DEF ThreadPlaces
  <2> QED BY <2>1, <2>2
<1>6. CASE UnblockThread(t)
  <2>0. t \notin AtWork
    BY <1>6 DEF UnblockThread, AtWork
  <2>1. CASE ~KeepWaiting
    BY <1>6, <2>0, <2>1, LeaveCacheCInv DEF UnblockThread
  <2>2. CASE KeepWaiting
    <3>1. /\ woken' \subseteq woken
          /\ UNCHANGED <<cacheVars, pc, serves, status, connection_count,
                         aborted>>
      BY <1>6, <2>2 DEF UnblockThread
    <3> QED BY <3>1 DEF CInv, ConnectionTypes, CountedIsLive, ServedOnce,
                        ListedOnce, ConnectionLimit, LiveConnections, AtWork,
                        cacheVars
  <2> QED BY <2>1, <2>2
<1> QED BY <1>1, <1>2, <1>3, <1>4, <1>5, <1>6 DEF ThreadStep

(* The callers of modify_thread_cache_size have nothing to do with it. *)
LEMMA CallerCInv ==
  ASSUME CInv, NEW k \in Callers,
         \/ \E n \in CacheSizes : SetThreadCacheSize(k, n)
         \/ KillBlockedPthreads(k)
         \/ CallerStep(k)
  PROVE  CInv'
<1>1. UNCHANGED <<waiting_channel_info_list, connection_count, pc, serves,
                  status>>
  BY DEF SetThreadCacheSize, KillBlockedPthreads, CallerStep,
         ModifyThreadCacheSize, CacheIsShrunk, cacheVars
<1>2. shrink_cache' \in BOOLEAN /\ aborted' \in BOOLEAN
  BY DEF SetThreadCacheSize, KillBlockedPthreads, CallerStep, CInv,
         ConnectionTypes, ModifyThreadCacheSize, CacheIsShrunk, cacheVars
<1>3. woken' \subseteq Pthreads \cup Callers
  BY DEF SetThreadCacheSize, KillBlockedPthreads, CallerStep, CInv,
         ConnectionTypes, ModifyThreadCacheSize, CacheIsShrunk, cacheVars,
         Signalled, Sleeping
<1> QED BY <1>1, <1>2, <1>3
        DEF CInv, ConnectionTypes, CountedIsLive, ServedOnce, ListedOnce,
            ConnectionLimit, LiveConnections, AtWork

(* Every step preserves the invariant. *)
LEMMA NextCInv == IInv /\ CInv /\ [Next]_vars => CInv'
<1> SUFFICES ASSUME IInv, CInv, [Next]_vars PROVE CInv'
  OBVIOUS
<1>1. CASE UNCHANGED vars
  BY <1>1 DEF vars, cacheVars, CInv, ConnectionTypes, CountedIsLive,
              ServedOnce, ListedOnce, ConnectionLimit, LiveConnections, AtWork
<1> QED BY <1>1, AcceptorCInv, ThreadCInv, CallerCInv DEF Next, AllAtRest

(* This invariant holds in every state. *)
LEMMA InductiveCount == Spec => []CInv
<1> QED BY InitCInv, NextCInv, Inductive, PTL DEF Spec

(***************************************************************************)
(* However connections end, fail or are refused, and whoever takes them    *)
(* down, there are never more of them than max_connections and the one     *)
(* reserved for SUPER, besides the administrators' (check_and_incr_conn_   *)
(* count and dec_connection_count), for any number of clients.             *)
(***************************************************************************)
THEOREM ConnectionLimitHolds == Spec => []ConnectionLimit
<1>1. CInv => ConnectionLimit
  BY DEF CInv
<1> QED BY <1>1, InductiveCount, PTL

(***************************************************************************)
(* With finitely many clients every counter stays in its range: no client  *)
(* is twice in the list, none is served by two threads, and neither        *)
(* connection_count nor wake_pthread ever falls below zero.                *)
(***************************************************************************)
THEOREM TypeCorrect ==
  ASSUME IsFiniteSet(Connections)
  PROVE  Spec => []TypeOK
<1>1. IInv /\ CInv => TypeOK
  <2> SUFFICES ASSUME IInv, CInv PROVE TypeOK
    OBVIOUS
  <2> DEFINE list == waiting_channel_info_list
  <2>1. Cardinality(Connections) \in Nat /\ Cardinality(Pthreads) \in Nat
    BY FS_CardinalityType, ThreadCacheAssumption
  <2>2. connection_count \in 0 .. Cardinality(Connections)
    <3>1. LiveConnections \in SUBSET Connections
      BY DEF LiveConnections
    <3>2. /\ Cardinality(LiveConnections) \in Nat
          /\ Cardinality(LiveConnections) <= Cardinality(Connections)
      BY <3>1, FS_Subset, FS_CardinalityType
    <3> QED BY <2>1, <3>2 DEF CInv, CountedIsLive
  <2>3. blocked_pthread_count \in 0 .. Cardinality(Pthreads)
    <3>1. Blocked \in SUBSET Pthreads
      BY DEF Blocked
    <3>2. /\ Cardinality(Blocked) \in Nat
          /\ Cardinality(Blocked) <= Cardinality(Pthreads)
      BY <3>1, FS_Subset, FS_CardinalityType, ThreadCacheAssumption
    <3> QED BY <2>1, <3>2 DEF IInv, CountedIsBlocked
  <2>4. wake_pthread \in 0 .. Cardinality(Connections)
    <3>1. list \in Seq(Connections) /\ Len(list) \in Nat
          /\ wake_pthread = Len(list)
      BY DEF IInv, CacheTypes, HandOver
    <3>2. list \in Injection(1 .. Len(list), Connections)
      BY <3>1 DEF CInv, ListedOnce, Injection, IsInjective
    <3>3. Cardinality(1 .. Len(list)) <= Cardinality(Connections)
      BY <3>2, FS_Injection
    <3>4. Cardinality(1 .. Len(list)) = Len(list)
      <4>1. \A n \in Nat : n \in Int /\ (1 > n => n = 0) /\ n - 1 + 1 = n
        OBVIOUS
      <4>2. \A n \in Nat :
              Cardinality(1 .. n) = IF 1 > n THEN 0 ELSE n - 1 + 1
        BY <4>1, FS_Interval, 1 \in Int
      <4> QED BY <3>1, <4>1, <4>2
    <3>5. Len(list) <= Cardinality(Connections)
      BY <3>3, <3>4
    <3> QED BY <2>1, <3>1, <3>5
  <2> QED BY <2>2, <2>3, <2>4
          DEF TypeOK, IInv, CacheTypes, CountedIsBlocked, Blocked, CInv,
              ConnectionTypes
<1> QED BY <1>1, Inductive, InductiveCount, PTL
=============================================================================
