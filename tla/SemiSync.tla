------------------------------ MODULE SemiSync ------------------------------
(***************************************************************************)
(* The source side of semi-synchronous replication (ReplSemiSyncMaster in  *)
(* plugin/semisync): sessions that have written their transactions to the  *)
(* binary log wait in commitTrx until enough replicas have acknowledged    *)
(* them; a wait that times out switches semi-synchronous replication off,  *)
(* an acknowledgement of everything written switches it on again.          *)
(*                                                                         *)
(* All state of the plugin is under one mutex, LOCK_binlog_.  A session    *)
(* gives it up while it waits; every action is what happens between two    *)
(* such points.  Replicas, their connections and the dump threads are      *)
(* modelled from how the plugin uses them.                                 *)
(*                                                                         *)
(* A position of the binary log is a number, Start being its beginning; 0  *)
(* stands for a position that is not initialised.                          *)
(***************************************************************************)
EXTENDS AckContainer, FiniteSets, Functions

CONSTANTS
  Sessions,
  Replicas,
  WaitCounts,  \* values of rpl_semi_sync_source_wait_for_replica_count
  MaxPos,      \* bound: positions of the binary log
  MaxFaults,   \* bound: lost connections and failed allocations
  MaxCommands  \* bound: administrator's commands, shutdown included

ASSUME SemiSyncAssumption ==
  /\ IsFiniteSet(Sessions)
  /\ IsFiniteSet(Replicas) /\ NoServer \notin Replicas
  /\ WaitCounts \subseteq Nat \ {0} /\ WaitCounts # {}
  /\ MaxPos \in Nat \ {0} /\ MaxFaults \in Nat /\ MaxCommands \in Nat

VARIABLES
  semi,      \* the state of the plugin
  flushed,   \* end of the binary log
  pc,        \* where each session stands
  pos,       \* the binlog position of its transaction
  entry,     \* the TranxNode it waits at; 0: none
  asked,     \* smallest number of replicas to wait for since it was written
  yes,       \* the last transaction counted as semi-synchronous
  connected, \* replicas with a dump thread
  received,  \* up to where each replica has the binary log
  acks,      \* acknowledgements on their way from each replica
  aborted,   \* connection_events_loop_aborted
  faults, commands

sessionVars == <<flushed, pc, pos, entry, asked, yes>>
replicaVars == <<connected, received, acks>>
budget == <<faults, commands>>
vars == <<semi, sessionVars, replicaVars, aborted, budget>>

Start == 1
Positions == 0 .. MaxPos

TypeOK ==
  /\ semi.enabled \in BOOLEAN /\ semi.on \in BOOLEAN
  /\ semi.on => semi.enabled
  /\ semi.wait_no_replica \in BOOLEAN /\ semi.count \in WaitCounts
  /\ semi.reply \in Positions /\ semi.commit \in Positions
  /\ semi.wait \in Positions /\ semi.wait_inited \in BOOLEAN
  /\ semi.nodes \subseteq Positions
  /\ semi.signalled \subseteq Sessions
  /\ Len(semi.container.slots) = semi.count - 1
  /\ semi.container.greatest \in Positions
  /\ flushed \in Start .. MaxPos
  /\ pc \in [Sessions -> {"idle", "written", "waiting"}]
  /\ pos \in [Sessions -> Positions] /\ entry \in [Sessions -> Positions]
  /\ asked \in [Sessions -> WaitCounts \cup {0}]
  /\ yes \in [pos : Positions, asked : WaitCounts \cup {0}]
  /\ connected \subseteq Replicas
  /\ received \in [Replicas -> Start .. MaxPos]
  /\ acks \in [Replicas -> Seq(Positions)]
  /\ aborted \in BOOLEAN
  /\ faults \in 0 .. MaxFaults /\ commands \in 0 .. MaxCommands

(* The server has started with the plugin enabled; no replica has come yet. *)
Init ==
  /\ \E n \in WaitCounts, w \in BOOLEAN :
       semi = [enabled |-> TRUE, on |-> w, wait_no_replica |-> w,
               count |-> n, reply |-> 0, wait |-> 0,
               wait_inited |-> FALSE, commit |-> 0, nodes |-> {},
               signalled |-> {}, container |-> NewContainer(n)]
  /\ flushed = Start
  /\ pc = [s \in Sessions |-> "idle"]
  /\ pos = [s \in Sessions |-> 0] /\ entry = [s \in Sessions |-> 0]
  /\ asked = [s \in Sessions |-> 0]
  /\ yes = [pos |-> 0, asked |-> 0]
  /\ connected = {}
  /\ received = [r \in Replicas |-> Start]
  /\ acks = [r \in Replicas |-> << >>]
  /\ aborted = FALSE
  /\ faults = 0 /\ commands = 0

clients == Cardinality(connected)

-----------------------------------------------------------------------------
(* The list of active transactions *)

WaitersAt(n) == {s \in Sessions : pc[s] = "waiting" /\ entry[s] = n}

(* Sessions that wait at one of these nodes. *)
WaitersIn(N) == UNION {WaitersAt(n) : n \in N}

Smallest(N) == CHOOSE n \in N : \A k \in N : n <= k

(* find_active_tranx_node: the node of the group the transaction was in. *)
FindNode(m, p) ==
  LET later == {n \in m.nodes : n >= p}
  IN  IF later = {} THEN 0 ELSE Smallest(later)

(* mutant: nodes at which other sessions wait are removed as well *)
ClearNodes_Waited(m, p, s) == [m EXCEPT !.nodes = {n \in @ : n > p}]

(* clear_active_tranx_nodes, called by s: up to p, or the first waited at. *)
ClearNodes(m, p, s) ==
  [m EXCEPT !.nodes =
     {n \in @ : \E k \in m.nodes : k <= n /\ (k > p \/ WaitersAt(k) \ {s} # {})}]

-----------------------------------------------------------------------------
(* Switching off and on *)

SwitchOff(m) ==
  [m EXCEPT !.on = FALSE, !.wait_inited = FALSE, !.reply = 0,
            !.signalled = @ \cup WaitersIn(m.nodes)]

TrySwitchOn(m, p) == [m EXCEPT !.on = @ \/ p >= m.commit]

(* mutant: the sessions at the acknowledged position itself sleep on *)
SignalUpTo_Before(m, p) ==
  [m EXCEPT !.signalled = @ \cup WaitersIn({n \in m.nodes : n < p})]

SignalUpTo(m, p) ==
  [m EXCEPT !.signalled = @ \cup WaitersIn({n \in m.nodes : n <= p})]

(***************************************************************************)
(* reportReplyBinlog: enough replicas have everything up to p.  The        *)
(* waiting sessions are released if the smallest position waited for is    *)
(* among it.                                                               *)
(***************************************************************************)
ReportReply(m, p) ==
  LET m1 == TrySwitchOn(m, p)
      m2 == [m1 EXCEPT !.reply = IF p < @ THEN @ ELSE p]
      release == (\E s \in Sessions : pc[s] = "waiting") /\ m2.reply >= m2.wait
  IN  IF ~m.enabled THEN m
      ELSE IF release
      THEN SignalUpTo([m2 EXCEPT !.wait_inited = FALSE], m2.reply)
      ELSE m2

HandleAck(m, r, p) ==
  LET ins == Insert(m.container, r, p)
      kept == [m EXCEPT !.container = ins.container]
  IN  IF m.count = 1 THEN ReportReply(m, p)
      ELSE IF ins.report = 0 THEN kept
      ELSE ReportReply(kept, ins.report)

-----------------------------------------------------------------------------
(* Sessions *)

(* mutant: while it is off, positions are not recorded *)
WriteTranx_OnlyOn(m, p) ==
  IF m.on THEN [m EXCEPT !.commit = p, !.nodes = @ \cup {p}] ELSE m

(* writeTranxInBinlog *)
WriteTranx(m, p) ==
  LET m1 == [m EXCEPT !.commit = p]
  IN  IF ~m.enabled THEN m
      ELSE IF m.on THEN [m1 EXCEPT !.nodes = @ \cup {p}]
      ELSE m1

(***************************************************************************)
(* A group of sessions is written to the binary log; the plugin is told    *)
(* the end of the group.                                                   *)
(***************************************************************************)
Flush(G) ==
  /\ G # {}
  /\ \A s \in G : pc[s] = "idle"
  /\ flushed + Cardinality(G) <= MaxPos
  /\ ~aborted
  /\ \E place \in Bijection(G, 1 .. Cardinality(G)) :
       pos' = [s \in Sessions |->
                IF s \in G THEN flushed + place[s] ELSE pos[s]]
  /\ flushed' = flushed + Cardinality(G)
  /\ pc' = [s \in Sessions |-> IF s \in G THEN "written" ELSE pc[s]]
  /\ asked' = [s \in Sessions |-> IF s \in G THEN semi.count ELSE asked[s]]
  /\ \/ /\ semi' = WriteTranx(semi, flushed')
        /\ UNCHANGED faults
     \/ /\ semi.on /\ faults < MaxFaults \* insert_tranx_node fails
        /\ semi' = SwitchOff([semi EXCEPT !.commit = flushed'])
        /\ faults' = faults + 1
  /\ UNCHANGED <<entry, yes, replicaVars, aborted, commands>>

(* The end of commitTrx: the last session to leave removes the node. *)
Leave(s, m, e, semi_sync) ==
  /\ semi' = LET m1 == [m EXCEPT !.signalled = @ \ {s}]
             IN  IF e # 0 /\ WaitersAt(e) \ {s} = {}
                 THEN ClearNodes(m1, pos[s], s) ELSE m1
  /\ pc' = [pc EXCEPT ![s] = "idle"]
  /\ pos' = [pos EXCEPT ![s] = 0]
  /\ entry' = [entry EXCEPT ![s] = 0]
  /\ asked' = [asked EXCEPT ![s] = 0]
  /\ yes' = IF semi_sync THEN [pos |-> pos[s], asked |-> asked[s]] ELSE yes

(* The smallest position that is waited for. *)
UpdateWait(m, p) ==
  IF m.wait_inited /\ p > m.wait THEN m
  ELSE [m EXCEPT !.wait = p, !.wait_inited = TRUE]

(* One round of the loop of commitTrx, up to the wait. *)
WaitOrLeave(s, m, e) ==
  LET m1 == UpdateWait(m, pos[s]) IN
  IF ~m.on
  THEN Leave(s, m, e, FALSE)
  ELSE IF m.reply >= pos[s]
  THEN Leave(s, m, e, TRUE)
  ELSE IF e = 0
  THEN Leave(s, m, e, FALSE)
  ELSE IF aborted /\ clients = m.count - 1
  THEN Leave(s, SwitchOff(m1), e, FALSE)
  ELSE /\ semi' = [m1 EXCEPT !.signalled = @ \ {s}]
       /\ pc' = [pc EXCEPT ![s] = "waiting"]
       /\ entry' = [entry EXCEPT ![s] = e]
       /\ UNCHANGED <<pos, asked, yes>>

CommitTrx(s) ==
  /\ pc[s] = "written"
  /\ LET e == FindNode(semi, pos[s])
     IN  WaitOrLeave(s, semi, e)
  /\ UNCHANGED <<flushed, replicaVars, aborted, budget>>

WakeUp(s) ==
  /\ pc[s] = "waiting"
  /\ s \in semi.signalled
  /\ WaitOrLeave(s, semi, entry[s])
  /\ UNCHANGED <<flushed, replicaVars, aborted, budget>>

(* The wait has timed out, even if an acknowledgement comes in just now. *)
Timeout(s) ==
  /\ pc[s] = "waiting"
  /\ WaitOrLeave(s, SwitchOff(semi), entry[s])
  /\ UNCHANGED <<flushed, replicaVars, aborted, budget>>

-----------------------------------------------------------------------------
(* Replicas *)

(* updateSyncHeader: is the replica asked to acknowledge the event at p? *)
AckRequested(p) ==
  /\ semi.enabled
  /\ IF semi.on
     THEN /\ p > semi.reply
          /\ semi.wait_inited => p >= semi.wait
          /\ p \in semi.nodes
     ELSE p >= semi.commit

(* A dump thread sends the next transaction; the replica stores it. *)
Send(r) ==
  /\ r \in connected
  /\ received[r] < flushed
  /\ received' = [received EXCEPT ![r] = @ + 1]
  /\ acks' = [acks EXCEPT ![r] =
               IF AckRequested(received[r] + 1)
               THEN Append(@, received[r] + 1) ELSE @]
  /\ UNCHANGED <<semi, sessionVars, connected, aborted, budget>>

(* The acknowledgement receiver hands one to reportReplyPacket. *)
ReceiveAck(r) ==
  /\ acks[r] # << >>
  /\ semi' = HandleAck(semi, r, Head(acks[r]))
  /\ acks' = [acks EXCEPT ![r] = Tail(@)]
  /\ UNCHANGED <<sessionVars, connected, received, aborted, budget>>

(***************************************************************************)
(* repl_semi_binlog_dump_start: the replica is taken to have acknowledged  *)
(* everything before the position it asks for.                             *)
(***************************************************************************)
DumpStart(r) ==
  /\ r \notin connected
  /\ ~aborted
  /\ connected' = connected \cup {r}
  /\ semi' = HandleAck(semi, r, received[r])
  /\ UNCHANGED <<sessionVars, received, acks, aborted, budget>>

(* repl_semi_binlog_dump_end, and remove_slave; what was under way is lost. *)
DumpEnd(r) ==
  LET left == connected \ {r} IN
  /\ r \in connected
  /\ faults < MaxFaults \/ aborted
  /\ faults' = IF aborted THEN faults ELSE faults + 1
  /\ connected' = left
  /\ acks' = [acks EXCEPT ![r] = << >>]
  /\ semi' = IF /\ semi.enabled /\ semi.on
                /\ Cardinality(left) = semi.count - 1
                /\ ~semi.wait_no_replica \/ aborted
             THEN SwitchOff(semi) ELSE semi
  /\ UNCHANGED <<sessionVars, received, aborted, commands>>

-----------------------------------------------------------------------------
(* Administration *)

EnableMaster ==
  /\ ~semi.enabled
  /\ semi' = [semi EXCEPT
       !.enabled = TRUE, !.commit = 0, !.reply = 0, !.wait_inited = FALSE,
       !.on = semi.wait_no_replica \/ clients >= semi.count]

(* mutant: waiting transactions are not released first *)
DisableMaster_StaysOn ==
  /\ semi.enabled
  /\ semi' = [semi EXCEPT
       !.enabled = FALSE, !.commit = 0, !.reply = 0, !.wait_inited = FALSE,
       !.container = ClearContainer(semi.container)]

DisableMaster ==
  /\ semi.enabled
  /\ semi' = [SwitchOff(semi) EXCEPT
       !.enabled = FALSE, !.commit = 0,
       !.container = ClearContainer(semi.container)]

SetWaitNoReplica(w) ==
  LET m == [semi EXCEPT !.wait_no_replica = w] IN
  /\ w # semi.wait_no_replica
  /\ semi' = IF ~w /\ clients = 0 /\ m.on THEN SwitchOff(m)
             ELSE IF w /\ m.enabled THEN [m EXCEPT !.on = TRUE]
             ELSE m

SetWaitSlaveCount(n) ==
  LET res == Resize(semi.container, n)
      m == [semi EXCEPT !.container = res.container, !.count = n]
  IN
  /\ n # semi.count
  /\ semi' = IF res.report = 0 THEN m ELSE ReportReply(m, res.report)

Command ==
  /\ commands < MaxCommands
  /\ commands' = commands + 1
  /\ \/ /\ \/ EnableMaster \/ DisableMaster
           \/ \E w \in BOOLEAN : SetWaitNoReplica(w)
           \/ \E n \in WaitCounts : SetWaitSlaveCount(n)
        /\ UNCHANGED aborted
     \/ ~aborted /\ aborted' = TRUE /\ UNCHANGED semi
  /\ asked' = [s \in Sessions |->
                IF semi'.count < asked[s] THEN semi'.count ELSE asked[s]]
  /\ UNCHANGED <<flushed, pc, pos, entry, yes, replicaVars, faults>>

-----------------------------------------------------------------------------
(* Nobody waits, and the log is full or the server has shut down. *)
AllAtRest ==
  /\ flushed = MaxPos \/ aborted
  /\ \A s \in Sessions : pc[s] = "idle"
  /\ UNCHANGED vars

Next ==
  \/ \E G \in SUBSET Sessions : Flush(G)
  \/ \E s \in Sessions : CommitTrx(s) \/ WakeUp(s) \/ Timeout(s)
  \/ \E r \in Replicas :
       Send(r) \/ ReceiveAck(r) \/ DumpStart(r) \/ DumpEnd(r)
  \/ Command
  \/ AllAtRest

Spec == Init /\ [][Next]_vars

-----------------------------------------------------------------------------
(* Properties *)

Holders(p) == {r \in Replicas : received[r] >= p}

(***************************************************************************)
(* A transaction that commitTrx counts as semi-synchronous is on as many   *)
(* replicas as were asked for, whatever was lost, repeated or reordered    *)
(* between them ("The number of replicas that need to acknowledge [...]    *)
(* before the transaction can complete on the source").                    *)
(***************************************************************************)
AckedByEnough == Cardinality(Holders(yes.pos)) >= yes.asked

(***************************************************************************)
(* The node a session waits at is not removed by another session: the      *)
(* pointer to it, and the condition variable in it, stay valid.            *)
(***************************************************************************)
NodeOutlivesWait ==
  \A s \in Sessions : pc[s] = "waiting" => entry[s] \in semi.nodes

(***************************************************************************)
(* Semi-synchronous replication comes back by itself only when as many     *)
(* replicas as are asked for have caught up with all that was written to   *)
(* the binary log while it was off.                                        *)
(***************************************************************************)
OnAgainIsCaughtUp ==
  [][ /\ ~semi.on /\ semi'.on
      /\ semi.enabled /\ semi'.wait_no_replica = semi.wait_no_replica
      /\ semi.commit # 0
      => Cardinality(Holders(flushed)) >= semi'.count ]_vars

(***************************************************************************)
(* No session sleeps through its release: it is woken when semi-           *)
(* synchronous replication is switched off, and when its node is           *)
(* acknowledged, unless a later transaction is being waited for, whose     *)
(* acknowledgement releases both.                                          *)
(***************************************************************************)
NoLostWakeUp ==
  \A s \in Sessions : pc[s] = "waiting" /\ s \notin semi.signalled =>
    /\ semi.on
    /\ entry[s] <= semi.reply =>
         \E u \in Sessions : pc[u] = "waiting" /\ pos[u] > semi.reply
=============================================================================
