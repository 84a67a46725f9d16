---------------------------- MODULE ThreadCache ----------------------------
(***************************************************************************)
(* One thread per connection with a cache of idle threads                  *)
(* (Per_thread_connection_handler in sql/conn_handler), and the count of   *)
(* connections around it (Connection_handler_manager).  A thread whose     *)
(* client has left waits for another connection; new connections are       *)
(* handed over in a list, with a counter of the threads to be woken up.    *)
(* The cache is emptied by FLUSH THREADS and by a shutdown, and cut down   *)
(* by SET GLOBAL thread_cache_size, while connections come and go.         *)
(*                                                                         *)
(* Everything but the count of connections is under LOCK_thread_cache.  An *)
(* action is what a thread does without giving up that mutex.              *)
(***************************************************************************)
EXTENDS Naturals, FiniteSets, Sequences

CONSTANTS
  Connections,     \* clients
  Admins,          \* those of them that are connected to the admin interface
  Pthreads,        \* threads the server can create
  Flushers,        \* sessions that run FLUSH THREADS
  Setters,         \* sessions that run SET GLOBAL thread_cache_size
  CacheSizes,      \* values of thread_cache_size
  max_connections,
  NULL

ASSUME ThreadCacheAssumption ==
  /\ Admins \subseteq Connections
  /\ CacheSizes \subseteq Nat /\ CacheSizes # {}
  /\ max_connections \in Nat
  /\ IsFiniteSet(Pthreads)
  /\ NULL \notin Connections

Shutdown == "shutdown" \* the thread that runs close_connections
Callers == Flushers \cup Setters \cup {Shutdown}

VARIABLES
  waiting_channel_info_list, \* connections handed to idle threads
  wake_pthread,              \* threads being woken up for them
  blocked_pthread_count,
  max_blocked_pthreads,      \* thread_cache_size
  shrink_cache,
  connection_count,
  aborted,                   \* connection_events_loop_aborted
  pc,                        \* where each thread stands
  serves,                    \* the connection a thread has
  woken,                     \* threads and callers that were signalled
  status,                    \* what has become of each connection
  rpc,                       \* where each caller of modify_thread_cache_size is
  size                       \* its parameter

cacheVars == <<waiting_channel_info_list, wake_pthread, blocked_pthread_count,
               max_blocked_pthreads, shrink_cache>>
vars == <<cacheVars, connection_count, aborted, pc, serves, woken, status,
          rpc, size>>

ThreadPlaces == {"none", "start", "serving", "left", "blocked", "got"}

(* Connections the manager has accepted and not yet taken down. *)
Live == {"counted", "queued", "handed"}

TypeOK ==
  /\ waiting_channel_info_list \in Seq(Connections)
  /\ wake_pthread \in 0 .. Cardinality(Connections)
  /\ blocked_pthread_count \in 0 .. Cardinality(Pthreads)
  /\ blocked_pthread_count = Cardinality({t \in Pthreads : pc[t] = "blocked"})
  /\ max_blocked_pthreads \in CacheSizes
  /\ shrink_cache \in BOOLEAN /\ aborted \in BOOLEAN
  /\ connection_count \in 0 .. Cardinality(Connections)
  /\ pc \in [Pthreads -> ThreadPlaces]
  /\ serves \in [Pthreads -> Connections \cup {NULL}]
  /\ woken \subseteq Pthreads \cup Callers
  /\ status \in [Connections -> Live \cup {"none", "closed", "refused"}]
  /\ rpc \in [Callers -> {"idle", "lock", "waiting", "done"}]
  /\ size \in [Callers -> CacheSizes \cup {0}]

Init ==
  /\ waiting_channel_info_list = << >> /\ wake_pthread = 0
  /\ blocked_pthread_count = 0 /\ max_blocked_pthreads \in CacheSizes
  /\ shrink_cache = FALSE /\ aborted = FALSE
  /\ connection_count = 0
  /\ pc = [t \in Pthreads |-> "none"]
  /\ serves = [t \in Pthreads |-> NULL]
  /\ woken = {}
  /\ status = [c \in Connections |-> "none"]
  /\ rpc = [k \in Callers |-> "idle"]
  /\ size = [k \in Callers |-> 0]

callerVars == <<rpc, size>>

GoTo(t, place, c) ==
  /\ pc' = [pc EXCEPT ![t] = place]
  /\ serves' = [serves EXCEPT ![t] = c]

SetStatus(c, s) == status' = [status EXCEPT ![c] = s]

(* Threads that wait on COND_thread_cache. *)
Sleeping == {t \in Pthreads : pc[t] = "blocked" /\ t \notin woken}

(* n signals on COND_thread_cache: each wakes one thread, if one waits. *)
Signalled(n) ==
  IF Cardinality(Sleeping) <= n THEN {Sleeping}
  ELSE {S \in SUBSET Sleeping : Cardinality(S) = n}

-----------------------------------------------------------------------------
(* New connections *)

(* mutant: the reserved connection is granted twice *)
CheckAndIncrConnCount_OneMore(c) ==
  /\ status[c] = "none"
  /\ IF aborted \/ (connection_count > max_connections + 1 /\ c \notin Admins)
     THEN SetStatus(c, "refused") /\ UNCHANGED connection_count
     ELSE /\ SetStatus(c, "counted")
          /\ connection_count' = connection_count + 1
  /\ UNCHANGED <<cacheVars, aborted, pc, serves, woken, callerVars>>

(* process_new_connection up to the counter: max_connections + 1 clients. *)
CheckAndIncrConnCount(c) ==
  /\ status[c] = "none"
  /\ IF aborted \/ (connection_count > max_connections /\ c \notin Admins)
     THEN SetStatus(c, "refused") /\ UNCHANGED connection_count
     ELSE /\ SetStatus(c, "counted")
          /\ connection_count' = connection_count + 1
  /\ UNCHANGED <<cacheVars, aborted, pc, serves, woken, callerVars>>

(* mutant: one more than the threads that wait are taken for idle *)
IdleThread_OneMore == blocked_pthread_count >= wake_pthread

IdleThread == blocked_pthread_count > wake_pthread

(* mutant: a thread is signalled only when the list was empty *)
EnqueueConnection_FirstOnly(c) ==
  /\ status[c] = "counted"
  /\ IdleThread
  /\ waiting_channel_info_list' = Append(waiting_channel_info_list, c)
  /\ wake_pthread' = wake_pthread + 1
  /\ \E S \in Signalled(IF wake_pthread = 0 THEN 1 ELSE 0) :
       woken' = woken \cup S
  /\ SetStatus(c, "queued")
  /\ UNCHANGED <<blocked_pthread_count, max_blocked_pthreads, shrink_cache,
                 connection_count, aborted, pc, serves, callerVars>>

(* check_idle_thread_and_enqueue_connection finds an idle thread. *)
EnqueueConnection(c) ==
  /\ status[c] = "counted"
  /\ IdleThread
  /\ waiting_channel_info_list' = Append(waiting_channel_info_list, c)
  /\ wake_pthread' = wake_pthread + 1
  /\ \E S \in Signalled(1) : woken' = woken \cup S
  /\ SetStatus(c, "queued")
  /\ UNCHANGED <<blocked_pthread_count, max_blocked_pthreads, shrink_cache,
                 connection_count, aborted, pc, serves, callerVars>>

(* It finds none, and add_connection creates a thread. *)
CreateThread(c, t) ==
  /\ status[c] = "counted"
  /\ ~IdleThread
  /\ pc[t] = "none"
  /\ GoTo(t, "start", c)
  /\ SetStatus(c, "handed")
  /\ UNCHANGED <<cacheVars, connection_count, aborted, woken, callerVars>>

(* No thread can be created. *)
CreateThreadFails(c) ==
  /\ status[c] = "counted"
  /\ ~IdleThread
  /\ SetStatus(c, "refused")
  /\ connection_count' = connection_count - 1
  /\ UNCHANGED <<cacheVars, aborted, pc, serves, woken, callerVars>>

-----------------------------------------------------------------------------
(* handle_connection *)

(* init_new_thd, for the first connection of a thread and for later ones. *)
StartServing(t) ==
  /\ pc[t] = "start"
  /\ GoTo(t, "serving", serves[t])
  /\ UNCHANGED <<cacheVars, connection_count, aborted, woken, status,
                 callerVars>>

(* The connection is taken down and no longer counted. *)
Release(c) ==
  /\ SetStatus(c, "closed")
  /\ connection_count' = connection_count - 1

(* There is no memory for the THD: the thread ends. *)
StartFails(t) ==
  /\ pc[t] = "start"
  /\ Release(serves[t])
  /\ GoTo(t, "none", NULL)
  /\ UNCHANGED <<cacheVars, aborted, woken, callerVars>>

(* The client leaves, or is killed by the shutdown. *)
EndConnection(t) ==
  /\ pc[t] = "serving"
  /\ Release(serves[t])
  /\ GoTo(t, IF aborted THEN "none" ELSE "left", NULL)
  /\ UNCHANGED <<cacheVars, aborted, woken, callerVars>>

-----------------------------------------------------------------------------
(* block_until_new_connection *)

KeepWaiting == ~aborted /\ wake_pthread = 0 /\ ~shrink_cache

(* Callers that wait on COND_flush_thread_cache. *)
WaitingCallers == {k \in Callers : rpc[k] = "waiting" /\ k \notin woken}

(***************************************************************************)
(* A thread takes a connection from the list if there is one to be woken   *)
(* up for; blocked is the number of threads that stay in the cache.  t is  *)
(* no longer among the woken, one of the waiting callers may come to be.   *)
(***************************************************************************)
LeaveCache(t, blocked) ==
  /\ blocked_pthread_count' = blocked
  /\ IF shrink_cache /\ blocked <= max_blocked_pthreads /\ WaitingCallers # {}
     THEN \E k \in WaitingCallers : woken' = (woken \ {t}) \cup {k}
     ELSE woken' = woken \ {t}
  /\ IF wake_pthread > 0
     THEN /\ wake_pthread' = wake_pthread - 1
          /\ waiting_channel_info_list' = Tail(waiting_channel_info_list)
          /\ GoTo(t, "got", Head(waiting_channel_info_list))
          /\ SetStatus(Head(waiting_channel_info_list), "handed")
     ELSE /\ GoTo(t, "none", NULL)
          /\ UNCHANGED <<wake_pthread, waiting_channel_info_list, status>>
  /\ UNCHANGED <<max_blocked_pthreads, shrink_cache>>

(* mutant: a thread that finds no room sleeps in the cache all the same *)
BlockThread_Full(t) ==
  /\ pc[t] = "left"
  /\ IF ~shrink_cache
     THEN IF KeepWaiting
          THEN /\ blocked_pthread_count' = blocked_pthread_count + 1
               /\ GoTo(t, "blocked", NULL)
               /\ UNCHANGED <<waiting_channel_info_list, wake_pthread,
                              max_blocked_pthreads, shrink_cache, woken,
                              status>>
          ELSE LeaveCache(t, blocked_pthread_count)
     ELSE GoTo(t, "none", NULL) /\ UNCHANGED <<cacheVars, woken, status>>
  /\ UNCHANGED <<connection_count, aborted, callerVars>>

(* A thread without a client enters the cache, if there is room. *)
BlockThread(t) ==
  /\ pc[t] = "left"
  /\ IF blocked_pthread_count < max_blocked_pthreads /\ ~shrink_cache
     THEN IF KeepWaiting
          THEN /\ blocked_pthread_count' = blocked_pthread_count + 1
               /\ GoTo(t, "blocked", NULL)
               /\ UNCHANGED <<waiting_channel_info_list, wake_pthread,
                              max_blocked_pthreads, shrink_cache, woken,
                              status>>
          ELSE LeaveCache(t, blocked_pthread_count)
     ELSE GoTo(t, "none", NULL) /\ UNCHANGED <<cacheVars, woken, status>>
  /\ UNCHANGED <<connection_count, aborted, callerVars>>

(* mutant: a thread that leaves is still counted among the idle ones *)
UnblockThread_StillCounted(t) ==
  /\ pc[t] = "blocked" /\ t \in woken
  /\ IF KeepWaiting
     THEN woken' = woken \ {t} /\ UNCHANGED <<cacheVars, pc, serves, status>>
     ELSE LeaveCache(t, blocked_pthread_count)
  /\ UNCHANGED <<connection_count, aborted, callerVars>>

(* A thread that was woken up looks for the reason. *)
UnblockThread(t) ==
  /\ pc[t] = "blocked" /\ t \in woken
  /\ IF KeepWaiting
     THEN woken' = woken \ {t} /\ UNCHANGED <<cacheVars, pc, serves, status>>
     ELSE LeaveCache(t, blocked_pthread_count - 1)
  /\ UNCHANGED <<connection_count, aborted, callerVars>>

(* It serves the connection it was given, unless the server shuts down. *)
NextConnection(t) ==
  /\ pc[t] = "got"
  /\ IF aborted
     THEN Release(serves[t]) /\ GoTo(t, "none", NULL)
     ELSE /\ GoTo(t, "start", serves[t])
          /\ UNCHANGED <<status, connection_count>>
  /\ UNCHANGED <<cacheVars, aborted, woken, callerVars>>

-----------------------------------------------------------------------------
(* modify_thread_cache_size *)

(* SET GLOBAL changes the variable first; one such statement at a time. *)
SetThreadCacheSize(k, n) ==
  /\ k \in Setters /\ rpc[k] = "idle"
  /\ \A j \in Setters : rpc[j] \in {"idle", "done"}
  /\ max_blocked_pthreads' = n
  /\ rpc' = [rpc EXCEPT ![k] = "lock"]
  /\ size' = [size EXCEPT ![k] = n]
  /\ UNCHANGED <<waiting_channel_info_list, wake_pthread,
                 blocked_pthread_count, shrink_cache, connection_count,
                 aborted, pc, serves, woken, status>>

(* FLUSH THREADS empties the cache, and so does a shutdown. *)
KillBlockedPthreads(k) ==
  /\ k \in Flushers \cup {Shutdown} /\ rpc[k] = "idle"
  /\ aborted' = (aborted \/ k = Shutdown)
  /\ rpc' = [rpc EXCEPT ![k] = "lock"]
  /\ UNCHANGED <<cacheVars, connection_count, pc, serves, woken, status, size>>

ModifyThreadCacheSize(k) ==
  /\ rpc[k] = "lock"
  /\ IF size[k] >= blocked_pthread_count
     THEN /\ rpc' = [rpc EXCEPT ![k] = "done"]
          /\ UNCHANGED <<shrink_cache, woken>>
     ELSE /\ rpc' = [rpc EXCEPT ![k] = "waiting"]
          /\ shrink_cache' = TRUE
          /\ \E S \in Signalled(blocked_pthread_count - size[k]) :
               woken' = woken \cup S
  /\ UNCHANGED <<waiting_channel_info_list, wake_pthread,
                 blocked_pthread_count, max_blocked_pthreads,
                 connection_count, aborted, pc, serves, status, size>>

CacheIsShrunk(k) ==
  /\ rpc[k] = "waiting" /\ k \in woken
  /\ woken' = woken \ {k}
  /\ IF blocked_pthread_count > size[k]
     THEN UNCHANGED <<rpc, shrink_cache>>
     ELSE rpc' = [rpc EXCEPT ![k] = "done"] /\ shrink_cache' = FALSE
  /\ UNCHANGED <<waiting_channel_info_list, wake_pthread,
                 blocked_pthread_count, max_blocked_pthreads,
                 connection_count, aborted, pc, serves, status, size>>

-----------------------------------------------------------------------------
AcceptorStep(c) ==
  \/ EnqueueConnection(c)
  \/ \E t \in Pthreads : CreateThread(c, t)
  \/ CreateThreadFails(c)

ThreadStep(t) ==
  \/ StartServing(t) \/ StartFails(t)
  \/ BlockThread(t) \/ UnblockThread(t) \/ NextConnection(t)

CallerStep(k) == ModifyThreadCacheSize(k) \/ CacheIsShrunk(k)

(* All connections have been and gone, and no thread has anything to do. *)
AllAtRest ==
  /\ \A c \in Connections : status[c] \in {"closed", "refused"}
  /\ \A t \in Pthreads : pc[t] = "none" \/ t \in Sleeping
  /\ UNCHANGED vars

Next ==
  \/ \E c \in Connections : CheckAndIncrConnCount(c) \/ AcceptorStep(c)
  \/ \E t \in Pthreads : ThreadStep(t) \/ EndConnection(t)
  \/ \E k \in Callers :
       \/ \E n \in CacheSizes : SetThreadCacheSize(k, n)
       \/ KillBlockedPthreads(k)
       \/ CallerStep(k)
  \/ AllAtRest

Spec == Init /\ [][Next]_vars

(***************************************************************************)
(* Threads and the acceptor run; nobody is obliged to connect, to leave or *)
(* to resize the cache.                                                    *)
(***************************************************************************)
FairSpec ==
  /\ Spec
  /\ \A c \in Connections : WF_vars(AcceptorStep(c))
  /\ \A t \in Pthreads : WF_vars(ThreadStep(t))
  /\ \A k \in Callers : WF_vars(CallerStep(k))

-----------------------------------------------------------------------------
(* Properties *)

(***************************************************************************)
(* Whatever leaves the cache meanwhile, there is an idle thread for every  *)
(* connection that was handed over, and a connection for every thread to   *)
(* be woken up (the assert(0) in block_until_new_connection).              *)
(***************************************************************************)
HandOver ==
  /\ wake_pthread = Len(waiting_channel_info_list)
  /\ wake_pthread <= blocked_pthread_count

(***************************************************************************)
(* However connections end, fail or are refused, the server never has more *)
(* of them than max_connections and the one reserved for SUPER, besides    *)
(* those of the administrators' interface.                                 *)
(***************************************************************************)
ConnectionLimit ==
  Cardinality({c \in Connections \ Admins : status[c] \in Live})
    <= max_connections + 1

(***************************************************************************)
(* The cache holds no more idle threads than thread_cache_size allows,     *)
(* except while a SET GLOBAL that lowers it is under way.                  *)
(***************************************************************************)
CacheLimit ==
  blocked_pthread_count > max_blocked_pthreads =>
    \E k \in Setters : rpc[k] \in {"lock", "waiting"}

(***************************************************************************)
(* No connection is left in the list: each one that was accepted is served *)
(* or refused, also when threads are leaving the cache at the same time.   *)
(***************************************************************************)
EveryConnectionIsTaken ==
  \A c \in Connections : []<>(status[c] \notin {"counted", "queued"})
=============================================================================
