--------------------------- MODULE SemiSyncProofs ---------------------------
(***************************************************************************)
(* The source of semi-synchronous replication, for any number of sessions  *)
(* and replicas: its state stays well-formed through every resizing of     *)
(* the container, nobody's node is removed, nobody sleeps through the      *)
(* release, and, as long as at most two replicas are waited for, what is   *)
(* counted as acknowledged is on that many replicas.                       *)
(***************************************************************************)
EXTENDS SemiSync, FiniteSetTheorems, WellFoundedInduction, TLAPS

(* The values of an AckContainer and of the state of the plugin. *)
Slots == [server : Replicas \cup {NoServer}, pos : Positions]

Containers == [slots : Seq(Slots), greatest : Positions]

SemiStates ==
  [enabled : BOOLEAN, on : BOOLEAN, wait_no_replica : BOOLEAN,
   count : WaitCounts, reply : Positions, wait : Positions,
   wait_inited : BOOLEAN, commit : Positions, nodes : SUBSET Positions,
   signalled : SUBSET Sessions, container : Containers]

-----------------------------------------------------------------------------
(* The container *)

(* A non-empty set of numbers has a smallest element. *)
LEMMA HasSmallest ==
  ASSUME NEW N \in SUBSET Nat, N # {}
  PROVE  \E n \in N : \A k \in N : n <= k
<1>1. PICK n \in N : \A k \in N : ~(<<k, n>> \in OpToRel(<, Nat))
  BY NatLessThanWellFounded, WFMin
<1>2. \A k \in N : ~(k < n)
  BY <1>1 DEF OpToRel
<1> QED BY <1>2

(* What find_active_tranx_node returns. *)
LEMMA SmallestIsSmallest ==
  ASSUME NEW N \in SUBSET Nat, N # {}
  PROVE  Smallest(N) \in N /\ \A k \in N : Smallest(N) <= k
BY HasSmallest DEF Smallest

(* A non-empty set of slots has a last one. *)
LEMMA LastIsLast ==
  ASSUME NEW n \in Nat, NEW S \in SUBSET (1 .. n), S # {}
  PROVE  LastOf(S) \in S /\ \A j \in S : j <= LastOf(S)
<1> DEFINE bounds == {k \in Nat : \A j \in S : j <= k}
<1>1. n \in bounds
  OBVIOUS
<1>2. PICK k \in bounds : \A b \in bounds : k <= b
  BY <1>1, HasSmallest
<1>3. k \in S
  <2>1. SUFFICES ASSUME k \notin S PROVE FALSE
    OBVIOUS
  <2>2. PICK j \in S : TRUE
    OBVIOUS
  <2>3. j \in Nat /\ j >= 1 /\ j <= k
    BY <1>2
  <2>4. \A i \in S : i \in Nat /\ i <= k /\ i # k
    BY <1>2, <2>1
  <2>5. k - 1 \in Nat /\ \A i \in S : i <= k - 1
    BY <2>3, <2>4
  <2>6. k - 1 \in bounds
    BY <2>5
  <2> QED BY <2>6, <1>2
<1>4. \E i \in S : \A j \in S : j <= i
  BY <1>2, <1>3
<1> QED BY <1>4 DEF LastOf

(* Positions, as numbers. *)
LEMMA PositionsAreNumbers ==
  Positions \subseteq Nat /\ 0 \in Positions /\ Start \in Positions
BY SemiSyncAssumption DEF Positions, Start

(* The slots of a container, as a function. *)
LEMMA SlotsAreFunctions ==
  ASSUME NEW c \in Containers
  PROVE  /\ Len(c.slots) \in Nat
         /\ DOMAIN c.slots = 1 .. Len(c.slots)
         /\ c.slots \in [1 .. Len(c.slots) -> Slots]
         /\ \A i \in 1 .. Len(c.slots) :
              c.slots[i] \in Slots /\ c.slots[i].pos \in Positions
<1>1. c.slots \in Seq(Slots)
  BY DEF Containers
<1>2. \A i \in 1 .. Len(c.slots) : c.slots[i] \in Slots
  BY <1>1
<1> QED BY <1>1, <1>2 DEF Slots

(* A container with the same number of slots. *)
LEMMA FunctionsAreSlots ==
  ASSUME NEW n \in Nat, NEW f \in [1 .. n -> Slots], NEW g \in Positions
  PROVE  [slots |-> f, greatest |-> g] \in Containers /\ Len(f) = n
<1>1. f \in Seq(Slots) /\ Len(f) = n
  OBVIOUS
<1> QED BY <1>1 DEF Containers

(* A new container. *)
LEMMA NewContainerType ==
  ASSUME NEW n \in Nat \ {0}
  PROVE  /\ NewContainer(n) \in Containers
         /\ Len(NewContainer(n).slots) = n - 1
         /\ NewContainer(n).greatest = 0
<1> DEFINE f == [i \in 1 .. n - 1 |-> EmptySlot]
<1>1. EmptySlot \in Slots
  BY PositionsAreNumbers DEF EmptySlot, Slots
<1>2. n - 1 \in Nat /\ f \in [1 .. n - 1 -> Slots]
  BY <1>1
<1>3. [slots |-> f, greatest |-> 0] \in Containers /\ Len(f) = n - 1
  BY <1>2, FunctionsAreSlots, PositionsAreNumbers
<1>4. NewContainer(n) = [slots |-> f, greatest |-> 0]
  BY DEF NewContainer
<1> QED BY <1>3, <1>4

(* remove_all keeps the number of slots. *)
LEMMA ReportedType ==
  ASSUME NEW c \in Containers, NEW p \in Positions
  PROVE  /\ Reported(c, p) \in Containers
         /\ Len(Reported(c, p).slots) = Len(c.slots)
         /\ Reported(c, p).greatest = p
<1> DEFINE f == [i \in DOMAIN c.slots |->
                  IF c.slots[i].pos = p THEN EmptySlot ELSE c.slots[i]]
<1>1. EmptySlot \in Slots
  BY PositionsAreNumbers DEF EmptySlot, Slots
<1>2. f \in [1 .. Len(c.slots) -> Slots]
  BY <1>1, SlotsAreFunctions
<1>3. [slots |-> f, greatest |-> p] \in Containers /\ Len(f) = Len(c.slots)
  BY <1>2, FunctionsAreSlots, SlotsAreFunctions
<1>4. Reported(c, p) = [slots |-> f, greatest |-> p]
  BY DEF Reported
<1> QED BY <1>3, <1>4

(* An acknowledgement is put into a slot. *)
LEMMA PutType ==
  ASSUME NEW c \in Containers, NEW i, NEW a,
         i \in DOMAIN c.slots => a \in Slots
  PROVE  /\ [c EXCEPT !.slots[i] = a] \in Containers
         /\ Len([c EXCEPT !.slots[i] = a].slots) = Len(c.slots)
         /\ [c EXCEPT !.slots[i] = a].greatest = c.greatest
<1> DEFINE f == [c.slots EXCEPT ![i] = a]
<1>1. f \in [1 .. Len(c.slots) -> Slots]
  BY SlotsAreFunctions
<1>2. [slots |-> f, greatest |-> c.greatest] \in Containers
      /\ Len(f) = Len(c.slots)
  BY <1>1, FunctionsAreSlots, SlotsAreFunctions DEF Containers
<1>3. [c EXCEPT !.slots[i] = a] = [slots |-> f, greatest |-> c.greatest]
  BY DEF Containers
<1> QED BY <1>2, <1>3

(* Storing an acknowledgement keeps the size of the container. *)
LEMMA StoreType ==
  ASSUME NEW c \in Containers,
         NEW server \in Replicas \cup {NoServer}, NEW p \in Positions
  PROVE  /\ Store(c, server, p) \in Containers
         /\ Len(Store(c, server, p).slots) = Len(c.slots)
<1>1. Ack(server, p) \in Slots
  BY DEF Ack, Slots
<1> QED BY <1>1, PutType DEF Store

(* insert keeps the number of slots, and reports a position or nothing. *)
LEMMA InsertType ==
  ASSUME NEW c \in Containers,
         NEW server \in Replicas \cup {NoServer}, NEW p \in Positions
  PROVE  /\ Insert(c, server, p).container \in Containers
         /\ Len(Insert(c, server, p).container.slots) = Len(c.slots)
         /\ Insert(c, server, p).report \in Positions
<1> DEFINE ins == Insert(c, server, p)
           own == LastOf(SlotsOf(c, server))
           updated == [c EXCEPT !.slots[own].pos = p]
           min == c.slots[MinAck(c, p)].pos
<1>1. CASE p <= c.greatest
  BY <1>1, PositionsAreNumbers DEF Insert
<1>2. CASE ~(p <= c.greatest) /\ SlotsOf(c, server) # {}
  <2>1. own \in DOMAIN c.slots => [c.slots[own] EXCEPT !.pos = p] \in Slots
    BY SlotsAreFunctions DEF Slots
  <2>2. updated = [c EXCEPT !.slots[own] = [c.slots[own] EXCEPT !.pos = p]]
    BY DEF Containers
  <2>3. updated \in Containers /\ Len(updated.slots) = Len(c.slots)
    BY <2>1, <2>2, PutType, ZenonT(40)
  <2>4. ins = [container |-> updated, report |-> 0]
    BY <1>2 DEF Insert
  <2> HIDE DEF updated
  <2> QED BY <2>3, <2>4, PositionsAreNumbers
<1>3. CASE ~(p <= c.greatest) /\ SlotsOf(c, server) = {} /\ EmptySlots(c) # {}
  <2>1. ins = [container |-> Store(c, server, p), report |-> 0]
    BY <1>3 DEF Insert
  <2> QED BY <2>1, StoreType, PositionsAreNumbers
<1>4. CASE /\ ~(p <= c.greatest)
           /\ SlotsOf(c, server) = {} /\ EmptySlots(c) = {}
           /\ MinAck(c, p) = 0
  <2>1. ins = [container |-> Reported(c, p), report |-> p]
    BY <1>4 DEF Insert
  <2> QED BY <2>1, ReportedType
<1>5. CASE /\ ~(p <= c.greatest)
           /\ SlotsOf(c, server) = {} /\ EmptySlots(c) = {}
           /\ MinAck(c, p) # 0
  <2>1. MinAck(c, p) \in 1 .. Len(c.slots)
    <3> DEFINE smaller == SlotsWhere(c, LAMBDA a : a.pos < p)
    <3>1. smaller \in SUBSET (1 .. Len(c.slots))
      BY SlotsAreFunctions DEF SlotsWhere
    <3>2. smaller # {} /\ MinAck(c, p) = LastOf(smaller)
      BY <1>5 DEF MinAck
    <3> QED BY <3>1, <3>2, LastIsLast, SlotsAreFunctions
  <2>2. min \in Positions
    BY <2>1, SlotsAreFunctions
  <2>3. /\ Reported(c, min) \in Containers
        /\ Len(Reported(c, min).slots) = Len(c.slots)
    BY <2>2, ReportedType
  <2>4. ins = [container |-> Store(Reported(c, min), server, p), report |-> min]
    BY <1>5 DEF Insert
  <2> QED BY <2>2, <2>3, <2>4, StoreType
<1> QED BY <1>1, <1>2, <1>3, <1>4, <1>5

(* The values resize goes through on its way to a container of n - 1 slots. *)
Partial(n) == {x \in [container : Containers, report : Positions] :
                 Len(x.container.slots) = n - 1}

(* One round of resize's loop keeps the type of what it builds. *)
LEMMA ReinsertType ==
  ASSUME NEW n, NEW x \in Partial(n), NEW a \in Slots
  PROVE  Reinsert(x, a) \in Partial(n)
<1> DEFINE ins == Insert(x.container, a.server, a.pos)
<1>1. x.container \in Containers /\ Len(x.container.slots) = n - 1
      /\ x.report \in Positions
  BY DEF Partial
<1>2. a.server \in Replicas \cup {NoServer} /\ a.pos \in Positions
  BY DEF Slots
<1>3. ins.container \in Containers /\ Len(ins.container.slots) = n - 1
  BY <1>1, <1>2, InsertType
<1>4. ins.container.greatest \in Positions
  BY <1>3 DEF Containers
<1>5. Reinsert(x, a) =
        [container |-> ins.container,
         report |-> IF ins.report = 0 /\ x.report = 0
                    THEN 0 ELSE ins.container.greatest]
  BY DEF Reinsert
<1> HIDE DEF ins
<1> QED BY <1>3, <1>4, <1>5, PositionsAreNumbers DEF Partial

(* The empty container resize begins with. *)
Emptied(c, n) == [container |-> [NewContainer(n) EXCEPT !.greatest = c.greatest],
                  report |-> 0]

(* What resize's loop starts from. *)
LEMMA EmptiedType ==
  ASSUME NEW c \in Containers, NEW n \in Nat \ {0}
  PROVE  Emptied(c, n) \in Partial(n)
<1> DEFINE k == NewContainer(n)
<1>1. k \in Containers /\ Len(k.slots) = n - 1 /\ c.greatest \in Positions
  BY NewContainerType DEF Containers
<1> HIDE DEF k
<1>2. /\ [k EXCEPT !.greatest = c.greatest] \in Containers
      /\ [k EXCEPT !.greatest = c.greatest].slots = k.slots
  BY <1>1 DEF Containers
<1> QED BY <1>1, <1>2, PositionsAreNumbers DEF Emptied, Partial, k

(***************************************************************************)
(* The loop of resize, by induction on the slots already inserted: no      *)
(* first slot spoils the container.                                        *)
(***************************************************************************)
LEMMA ReinsertedType ==
  ASSUME NEW c \in Containers, NEW n \in Nat \ {0}
  PROVE  /\ Reinserted(c, n)[0] = Emptied(c, n)
         /\ \A i \in 1 .. Len(c.slots) :
              Reinserted(c, n)[i] = Reinsert(Reinserted(c, n)[i - 1], c.slots[i])
         /\ \A i \in 0 .. Len(c.slots) : Reinserted(c, n)[i] \in Partial(n)
<1> DEFINE L == Len(c.slots)
           Loop(k, f) == /\ f[0] = Emptied(c, n)
                         /\ \A i \in 1 .. k : f[i] = Reinsert(f[i - 1], c.slots[i])
           Body(f) == [i \in 0 .. L |-> IF i = 0 THEN Emptied(c, n)
                                        ELSE Reinsert(f[i - 1], c.slots[i])]
<1>1. L \in Nat /\ \A i \in 1 .. L : c.slots[i] \in Slots
  BY SlotsAreFunctions
<1> HIDE DEF L
<1>2. \A k \in 0 .. L : \E f \in [0 .. k -> Partial(n)] : Loop(k, f)
  <2> DEFINE bad == {k \in 0 .. L : ~\E f \in [0 .. k -> Partial(n)] : Loop(k, f)}
  <2>1. SUFFICES ASSUME bad # {} PROVE FALSE
    OBVIOUS
  <2>2. PICK k \in bad : \A j \in bad : k <= j
    <3>1. bad \in SUBSET Nat
      OBVIOUS
    <3> HIDE DEF bad
    <3> QED BY <3>1, <2>1, HasSmallest
  <2>3. k # 0
    <3>1. [i \in 0 .. 0 |-> Emptied(c, n)] \in [0 .. 0 -> Partial(n)]
      BY EmptiedType
    <3>2. Loop(0, [i \in 0 .. 0 |-> Emptied(c, n)])
      OBVIOUS
    <3> QED BY <3>1, <3>2, <2>2
  <2>4. k \in 1 .. L /\ k - 1 \in 0 .. L /\ k - 1 \notin bad
    <3>1. k \in 1 .. L /\ k - 1 \in 0 .. L /\ k - 1 < k
      BY <2>2, <2>3, <1>1
    <3> HIDE DEF bad
    <3> QED BY <3>1, <2>2
  <2>5. PICK f \in [0 .. k - 1 -> Partial(n)] : Loop(k - 1, f)
    BY <2>4
  <2> DEFINE g == [i \in 0 .. k |-> IF i = k THEN Reinsert(f[k - 1], c.slots[k])
                                    ELSE f[i]]
  <2>6. f[k - 1] \in Partial(n)
    BY <2>4, <2>5
  <2>7. Reinsert(f[k - 1], c.slots[k]) \in Partial(n)
    BY <2>4, <2>6, <1>1, ReinsertType
  <2>8. g \in [0 .. k -> Partial(n)]
    BY <2>4, <2>7
  <2>9. g[0] = Emptied(c, n)
    BY <2>4, <2>5
  <2>10. ASSUME NEW i \in 1 .. k PROVE g[i] = Reinsert(g[i - 1], c.slots[i])
    <3>1. g[i - 1] = f[i - 1]
      BY <2>4
    <3>2. CASE i = k
      BY <3>1, <3>2, <2>4
    <3>3. CASE i # k
      <4>1. i \in 1 .. k - 1
        BY <3>3, <2>4
      <4>2. g[i] = f[i]
        BY <4>1, <2>4
      <4> QED BY <4>1, <4>2, <3>1, <2>5
    <3> QED BY <3>2, <3>3
  <2>11. Loop(k, g)
    BY <2>9, <2>10
  <2> QED BY <2>2, <2>8, <2>11
<1>3. PICK f \in [0 .. L -> Partial(n)] : Loop(L, f)
  BY <1>1, <1>2, SMTT(40)
<1>4. f = Body(f)
  BY <1>1, <1>3
<1> DEFINE r == Reinserted(c, n)
<1>5. r = CHOOSE h : h = Body(h)
  BY DEF Reinserted, Emptied, L
<1>6. r = Body(r)
  BY <1>4, <1>5
<1> HIDE DEF r
<1>7. r[0] = Emptied(c, n)
  BY <1>1, <1>6
<1>8. \A i \in 1 .. L : r[i] = Reinsert(r[i - 1], c.slots[i])
  BY <1>1, <1>6
<1>9. \A i \in 0 .. L : r[i] \in Partial(n)
  <2> DEFINE bad == {i \in 0 .. L : r[i] \notin Partial(n)}
  <2>1. SUFFICES ASSUME bad # {} PROVE FALSE
    OBVIOUS
  <2>2. PICK i \in bad : \A j \in bad : i <= j
    <3>1. bad \in SUBSET Nat
      OBVIOUS
    <3> HIDE DEF bad
    <3> QED BY <3>1, <2>1, HasSmallest
  <2>3. i \in 1 .. L /\ i - 1 \in 0 .. L /\ i - 1 \notin bad
    BY <2>2, <1>1, <1>7, EmptiedType
  <2> QED BY <2>2, <2>3, <1>1, <1>8, ReinsertType, SMTT(40)
<1> QED BY <1>7, <1>8, <1>9 DEF r, L

(* resize leaves one slot less than the number of replicas to wait for. *)
LEMMA ResizeType ==
  ASSUME NEW c \in Containers, NEW n \in Nat \ {0}
  PROVE  /\ Resize(c, n).container \in Containers
         /\ Len(Resize(c, n).container.slots) = n - 1
         /\ Resize(c, n).report \in Positions
<1>1. CASE n - 1 = Len(c.slots)
  BY <1>1, PositionsAreNumbers DEF Resize
<1>2. CASE n - 1 # Len(c.slots)
  <2>1. Resize(c, n) = Reinserted(c, n)[Len(c.slots)]
    BY <1>2 DEF Resize
  <2>2. Resize(c, n) \in Partial(n)
    BY <2>1, ReinsertedType, SlotsAreFunctions
  <2> QED BY <2>2 DEF Partial
<1> QED BY <1>1, <1>2

-----------------------------------------------------------------------------
(* The state of the plugin *)

(* A state m of the plugin is well-formed. *)
SemiType(m) ==
  /\ m \in SemiStates
  /\ Len(m.container.slots) = m.count - 1
  /\ m.on => m.enabled
  /\ m.nodes \subseteq Start .. flushed

(* Where a session may be, and its neighbours. *)
SessionTypes ==
  /\ flushed \in Start .. MaxPos
  /\ pc \in [Sessions -> {"idle", "written", "waiting"}]
  /\ pos \in [Sessions -> Positions] /\ entry \in [Sessions -> Positions]
  /\ asked \in [Sessions -> WaitCounts \cup {0}]
  /\ yes \in [pos : Positions, asked : WaitCounts \cup {0}]

ReplicaTypes ==
  /\ connected \subseteq Replicas
  /\ received \in [Replicas -> Start .. MaxPos]
  /\ acks \in [Replicas -> Seq(Positions)]

BudgetTypes ==
  aborted \in BOOLEAN /\ faults \in 0 .. MaxFaults /\ commands \in 0 .. MaxCommands

Waiting(s) == pc[s] = "waiting"

(* Session s waits in a state m of the plugin and nobody has woken it. *)
Asleep(m, s) == Waiting(s) /\ s \notin m.signalled

(***************************************************************************)
(* Whoever sleeps has a node, and will be woken: replication is on, and    *)
(* the smallest position waited for is acknowledged already or some        *)
(* session still waits for it or for more.                                 *)
(***************************************************************************)
WakesAmong(m, S) ==
  /\ \A s \in S : Waiting(s) => entry[s] \in m.nodes
  /\ \A s \in S : Asleep(m, s) =>
       /\ m.on
       /\ entry[s] <= m.reply => \E u \in S : Waiting(u) /\ pos[u] > m.reply
       /\ \/ m.wait <= m.reply
          \/ \E u \in S : Waiting(u) /\ pos[u] >= m.wait

Wakes(m) == WakesAmong(m, Sessions)

WInv ==
  SemiType(semi) /\ SessionTypes /\ ReplicaTypes /\ BudgetTypes /\ Wakes(semi)

(* Sessions that wait at one of the nodes N. *)
LEMMA WaitersInIs ==
  ASSUME NEW N
  PROVE  WaitersIn(N) = {s \in Sessions : Waiting(s) /\ entry[s] \in N}
BY DEF WaitersIn, WaitersAt, Waiting

(* switch_off wakes everybody who has a node. *)
LEMMA SwitchOffIs ==
  ASSUME NEW m \in SemiStates
  PROVE  /\ SwitchOff(m) \in SemiStates
         /\ SwitchOff(m).enabled = m.enabled /\ SwitchOff(m).on = FALSE
         /\ SwitchOff(m).count = m.count /\ SwitchOff(m).container = m.container
         /\ SwitchOff(m).nodes = m.nodes /\ SwitchOff(m).commit = m.commit
         /\ SwitchOff(m).reply = 0
         /\ SwitchOff(m).wait_no_replica = m.wait_no_replica
         /\ SwitchOff(m).signalled = m.signalled \cup WaitersIn(m.nodes)
<1> DEFINE sig == m.signalled \cup WaitersIn(m.nodes)
<1>1. sig \in SUBSET Sessions
  BY WaitersInIs DEF SemiStates
<1>2. SwitchOff(m) = [m EXCEPT !.on = FALSE, !.wait_inited = FALSE, !.reply = 0,
                              !.signalled = sig]
  BY DEF SwitchOff, SemiStates
<1> HIDE DEF sig
<1>3. 0 \in Positions
  BY PositionsAreNumbers
<1> QED BY <1>1, <1>2, <1>3 DEF SemiStates, sig

(* switch_off wakes everybody. *)
LEMMA SwitchOffWakes ==
  ASSUME NEW m \in SemiStates,
         \A s \in Sessions : Waiting(s) => entry[s] \in m.nodes
  PROVE  /\ Wakes(SwitchOff(m))
         /\ \A s \in Sessions : ~Asleep(SwitchOff(m), s)
BY SwitchOffIs, WaitersInIs DEF Wakes, WakesAmong, Asleep

(* reportReplyBinlog. *)
LEMMA ReportReplyIs ==
  ASSUME NEW m \in SemiStates, NEW p \in Positions
  PROVE  LET r == ReportReply(m, p)
             most == IF p < m.reply THEN m.reply ELSE p
             release == (\E s \in Sessions : Waiting(s)) /\ most >= m.wait
         IN  /\ r \in SemiStates
             /\ r.enabled = m.enabled /\ r.count = m.count
             /\ r.container = m.container /\ r.nodes = m.nodes
             /\ r.commit = m.commit /\ r.wait = m.wait
             /\ r.wait_no_replica = m.wait_no_replica
             /\ ~m.enabled => r = m
             /\ m.enabled => /\ r.on = (m.on \/ p >= m.commit)
                             /\ r.reply = most
                             /\ release => r.signalled = m.signalled \cup
                                   WaitersIn({n \in m.nodes : n <= most})
                             /\ ~release => r.signalled = m.signalled
<1> DEFINE most == IF p < m.reply THEN m.reply ELSE p
           release == (\E s \in Sessions : Waiting(s)) /\ most >= m.wait
           sig == m.signalled \cup WaitersIn({n \in m.nodes : n <= most})
           on == m.on \/ p >= m.commit
           m2 == [m EXCEPT !.on = on, !.reply = most]
           m3 == [m EXCEPT !.on = on, !.reply = most, !.wait_inited = FALSE,
                           !.signalled = sig]
<1>1. sig \in SUBSET Sessions /\ most \in Positions /\ on \in BOOLEAN
  <2>1. sig \in SUBSET Sessions
    BY WaitersInIs DEF SemiStates
  <2> QED BY <2>1 DEF SemiStates
<1>2. CASE ~m.enabled
  BY <1>2 DEF ReportReply
<1>3. CASE m.enabled /\ ~release
  <2>1. ReportReply(m, p) = m2
    BY <1>3 DEF ReportReply, TrySwitchOn, SemiStates, Waiting
  <2> HIDE DEF release, sig, on, most
  <2> QED BY <1>1, <1>3, <2>1 DEF SemiStates, release, sig, on, most
<1>4. CASE m.enabled /\ release
  <2>1. ReportReply(m, p) = m3
    BY <1>4 DEF ReportReply, TrySwitchOn, SignalUpTo, SemiStates, Waiting
  <2> HIDE DEF release, sig, on, most
  <2> QED BY <1>1, <1>4, <2>1 DEF SemiStates, release, sig, on, most
<1> QED BY <1>2, <1>3, <1>4

(* An acknowledgement wakes whom it covers, or somebody waits for more. *)
LEMMA ReportReplyWakes ==
  ASSUME NEW m \in SemiStates, NEW p \in Positions,
         m.on => m.enabled, Wakes(m), SessionTypes
  PROVE  Wakes(ReportReply(m, p))
<1> DEFINE r == ReportReply(m, p)
           most == IF p < m.reply THEN m.reply ELSE p
           release == (\E s \in Sessions : Waiting(s)) /\ most >= m.wait
<1>1. CASE ~m.enabled
  BY <1>1, ReportReplyIs
<1>2. CASE m.enabled
  <2>1. /\ r.nodes = m.nodes /\ r.wait = m.wait /\ r.reply = most
        /\ m.on => r.on
        /\ release => r.signalled = m.signalled \cup
                        WaitersIn({n \in m.nodes : n <= most})
        /\ ~release => r.signalled = m.signalled
    BY <1>2, ReportReplyIs DEF SemiStates
  <2> HIDE DEF r
  <2>2. most \in Nat /\ m.reply \in Nat /\ m.wait \in Nat /\ m.reply <= most
    <3>1. m.reply \in Positions /\ m.wait \in Positions
      BY DEF SemiStates
    <3>2. m.reply \in Nat /\ m.wait \in Nat /\ p \in Nat
      BY <3>1, PositionsAreNumbers
    <3> QED BY <3>2
  <2>3. \A s \in Sessions : Waiting(s) => entry[s] \in r.nodes
    BY <2>1 DEF Wakes, WakesAmong
  <2>4. ASSUME NEW s \in Sessions, Asleep(r, s)
        PROVE  /\ r.on
               /\ entry[s] <= r.reply =>
                    \E u \in Sessions : Waiting(u) /\ pos[u] > r.reply
               /\ \/ r.wait <= r.reply
                  \/ \E u \in Sessions : Waiting(u) /\ pos[u] >= r.wait
    <3>1. Asleep(m, s) /\ Waiting(s)
      BY <2>1, <2>4 DEF Asleep
    <3>2. m.on /\ r.on
      BY <3>1, <2>1 DEF Wakes, WakesAmong
    <3>3. CASE release
      <4>1. ~(entry[s] <= most)
        BY <3>1, <3>3, <2>1, <2>3, <2>4, WaitersInIs DEF Asleep
      <4>2. r.wait <= r.reply
        BY <3>3, <2>1, <2>2
      <4> QED BY <4>1, <4>2, <3>2, <2>1
    <3>4. CASE ~release
      <4>1. most < m.wait
        BY <3>1, <3>4, <2>2
      <4>2. PICK u \in Sessions : Waiting(u) /\ pos[u] >= m.wait
        BY <3>1, <4>1, <2>2 DEF Wakes, WakesAmong
      <4>3. pos[u] \in Nat
        BY PositionsAreNumbers DEF SessionTypes
      <4>4. pos[u] > r.reply /\ pos[u] >= r.wait
        BY <4>1, <4>2, <4>3, <2>1, <2>2
      <4> QED BY <4>2, <4>4, <3>2
    <3> QED BY <3>3, <3>4
  <2>5. Wakes(r)
    BY <2>3, <2>4 DEF Wakes, WakesAmong
  <2> QED BY <2>5 DEF r
<1> QED BY <1>1, <1>2 DEF SemiStates

-----------------------------------------------------------------------------
(* Acknowledgements and commands: the sessions stay where they are *)

(* Wakes depends on these parts of the state only. *)
LEMMA WakesSame ==
  ASSUME NEW m, NEW k, Wakes(m),
         k.on = m.on, k.nodes = m.nodes, k.signalled = m.signalled,
         k.reply = m.reply, k.wait = m.wait
  PROVE  Wakes(k)
BY DEF Wakes, WakesAmong, Asleep

(* Wait counts are positive numbers. *)
LEMMA CountsAreNumbers ==
  ASSUME NEW n \in WaitCounts PROVE n \in Nat \ {0}
BY SemiSyncAssumption

(* A container of the right size takes the place of the old one. *)
LEMMA WithContainer ==
  ASSUME NEW m, SemiType(m), Wakes(m), NEW c \in Containers, NEW n \in WaitCounts,
         Len(c.slots) = n - 1
  PROVE  LET k == [m EXCEPT !.container = c, !.count = n]
         IN  SemiType(k) /\ Wakes(k)
<1> DEFINE k == [m EXCEPT !.container = c, !.count = n]
<1>1. /\ k \in SemiStates /\ k.container = c /\ k.count = n
      /\ k.on = m.on /\ k.enabled = m.enabled /\ k.nodes = m.nodes
      /\ k.signalled = m.signalled /\ k.reply = m.reply /\ k.wait = m.wait
  BY DEF SemiType, SemiStates
<1> HIDE DEF k
<1>2. SemiType(k)
  BY <1>1 DEF SemiType
<1>3. Wakes(k)
  BY <1>1, WakesSame
<1> QED BY <1>2, <1>3 DEF k

(* ReportReply preserves the invariant. *)
LEMMA ReportReplyKeeps ==
  ASSUME NEW m, SemiType(m), Wakes(m), SessionTypes, NEW p \in Positions
  PROVE  SemiType(ReportReply(m, p)) /\ Wakes(ReportReply(m, p))
<1>1. m \in SemiStates /\ (m.on => m.enabled)
  BY DEF SemiType
<1>2. Wakes(ReportReply(m, p))
  BY <1>1, ReportReplyWakes
<1>3. SemiType(ReportReply(m, p))
  BY <1>1, ReportReplyIs DEF SemiType
<1> QED BY <1>2, <1>3

(* handleAck. *)
LEMMA HandleAckKeeps ==
  ASSUME NEW m, SemiType(m), Wakes(m), SessionTypes,
         NEW r \in Replicas, NEW p \in Positions
  PROVE  SemiType(HandleAck(m, r, p)) /\ Wakes(HandleAck(m, r, p))
<1> DEFINE ins == Insert(m.container, r, p)
           kept == [m EXCEPT !.container = ins.container]
<1>1. m.container \in Containers /\ m.count \in WaitCounts
      /\ Len(m.container.slots) = m.count - 1
  BY DEF SemiType, SemiStates
<1>2. ins.container \in Containers /\ ins.report \in Positions
      /\ Len(ins.container.slots) = m.count - 1
  BY <1>1, InsertType
<1>3. kept = [m EXCEPT !.container = ins.container, !.count = m.count]
  BY DEF SemiType, SemiStates
<1> HIDE DEF ins, kept
<1>4. SemiType(kept) /\ Wakes(kept)
  BY <1>1, <1>2, <1>3, WithContainer
<1>5. HandleAck(m, r, p) = IF m.count = 1 THEN ReportReply(m, p)
                           ELSE IF ins.report = 0 THEN kept
                           ELSE ReportReply(kept, ins.report)
  BY DEF HandleAck, ins, kept
<1> QED BY <1>2, <1>4, <1>5, ReportReplyKeeps

(* SwitchOff preserves the invariant. *)
LEMMA SwitchOffKeeps ==
  ASSUME NEW m, SemiType(m),
         \A s \in Sessions : Waiting(s) => entry[s] \in m.nodes
  PROVE  /\ SemiType(SwitchOff(m)) /\ Wakes(SwitchOff(m))
         /\ \A s \in Sessions : ~Asleep(SwitchOff(m), s)
<1>1. m \in SemiStates
  BY DEF SemiType
<1>2. SemiType(SwitchOff(m))
  BY <1>1, SwitchOffIs DEF SemiType
<1> QED BY <1>1, <1>2, SwitchOffWakes

(* Nobody sleeps while semi-synchronous replication is off. *)
LEMMA OffIsAwake ==
  ASSUME NEW m, Wakes(m), ~m.on
  PROVE  /\ \A s \in Sessions : ~Asleep(m, s)
         /\ \A s \in Sessions : Waiting(s) => entry[s] \in m.nodes
BY DEF Wakes, WakesAmong

(* If nobody sleeps, nobody sleeps through a release. *)
LEMMA AwakeIsEnough ==
  ASSUME NEW m, NEW k, k.nodes = m.nodes, k.signalled = m.signalled,
         \A s \in Sessions : ~Asleep(m, s),
         \A s \in Sessions : Waiting(s) => entry[s] \in m.nodes
  PROVE  Wakes(k)
BY DEF Wakes, WakesAmong, Asleep

(* The sessions have not moved: what holds of the new state holds then. *)
LEMMA SessionsStay ==
  ASSUME SemiType(semi'), Wakes(semi'), SessionTypes, UNCHANGED sessionVars
  PROVE  SemiType(semi)' /\ Wakes(semi)' /\ SessionTypes'
BY DEF SemiType, Wakes, WakesAmong, Asleep, Waiting, SessionTypes, sessionVars

(* EnableMaster preserves the invariant. *)
LEMMA EnableMasterKeeps ==
  ASSUME SemiType(semi), Wakes(semi), EnableMaster
  PROVE  SemiType(semi') /\ Wakes(semi') /\ semi'.count = semi.count
<1>1. semi \in SemiStates /\ ~semi.enabled /\ ~semi.on
  BY DEF SemiType, EnableMaster, SemiStates
<1> DEFINE b == semi.wait_no_replica \/ clients >= semi.count
<1>2. b \in BOOLEAN /\ 0 \in Positions
  BY PositionsAreNumbers
<1>3. semi' = [semi EXCEPT !.enabled = TRUE, !.commit = 0, !.reply = 0,
                          !.wait_inited = FALSE, !.on = b]
  BY DEF EnableMaster
<1> HIDE DEF b
<1>4. /\ semi' \in SemiStates /\ semi'.enabled = TRUE
      /\ semi'.count = semi.count /\ semi'.container = semi.container
      /\ semi'.nodes = semi.nodes /\ semi'.signalled = semi.signalled
  BY <1>1, <1>2, <1>3 DEF SemiStates
<1>5. SemiType(semi')
  BY <1>4 DEF SemiType
<1>6. Wakes(semi')
  BY <1>1, <1>4, OffIsAwake, AwakeIsEnough
<1> QED BY <1>4, <1>5, <1>6

(* DisableMaster preserves the invariant. *)
LEMMA DisableMasterKeeps ==
  ASSUME SemiType(semi), Wakes(semi), DisableMaster
  PROVE  SemiType(semi') /\ Wakes(semi') /\ semi'.count = semi.count
<1> DEFINE m == SwitchOff(semi)
           c == ClearContainer(semi.container)
<1>1. semi \in SemiStates /\ semi.container \in Containers
      /\ semi.count \in Nat \ {0} /\ Len(semi.container.slots) = semi.count - 1
  BY CountsAreNumbers DEF SemiType, SemiStates
<1>2. c \in Containers /\ Len(c.slots) = semi.count - 1
  <2>1. c = NewContainer(semi.count)
    BY <1>1 DEF ClearContainer
  <2> QED BY <1>1, <2>1, NewContainerType
<1>3. SemiType(m) /\ Wakes(m) /\ m.count = semi.count /\ m.on = FALSE
      /\ (\A s \in Sessions : ~Asleep(m, s))
      /\ (\A s \in Sessions : Waiting(s) => entry[s] \in m.nodes)
  BY <1>1, SwitchOffKeeps, SwitchOffIs DEF Wakes, WakesAmong
<1>4. semi' = [m EXCEPT !.enabled = FALSE, !.commit = 0, !.container = c]
  BY DEF DisableMaster
<1> HIDE DEF m, c
<1>5. /\ semi' \in SemiStates /\ semi'.count = m.count /\ semi'.container = c
      /\ semi'.nodes = m.nodes /\ semi'.signalled = m.signalled
      /\ semi'.on = m.on
  BY <1>2, <1>3, <1>4, PositionsAreNumbers DEF SemiType, SemiStates
<1>6. SemiType(semi')
  BY <1>2, <1>3, <1>5 DEF SemiType
<1>7. Wakes(semi')
  BY <1>3, <1>5, AwakeIsEnough
<1> QED BY <1>3, <1>5, <1>6, <1>7

(* SetWaitNoReplica preserves the invariant. *)
LEMMA SetWaitNoReplicaKeeps ==
  ASSUME SemiType(semi), Wakes(semi), NEW w \in BOOLEAN, SetWaitNoReplica(w)
  PROVE  SemiType(semi') /\ Wakes(semi') /\ semi'.count = semi.count
<1> DEFINE m == [semi EXCEPT !.wait_no_replica = w]
<1>1. /\ m \in SemiStates /\ m.count = semi.count /\ m.container = semi.container
      /\ m.nodes = semi.nodes /\ m.on = semi.on /\ m.enabled = semi.enabled
      /\ m.signalled = semi.signalled /\ m.reply = semi.reply /\ m.wait = semi.wait
  BY DEF SemiType, SemiStates
<1>2. semi' = IF ~w /\ clients = 0 /\ m.on THEN SwitchOff(m)
             ELSE IF w /\ m.enabled THEN [m EXCEPT !.on = TRUE] ELSE m
  BY DEF SetWaitNoReplica
<1> HIDE DEF m
<1>3. SemiType(m) /\ Wakes(m)
  BY <1>1, WakesSame DEF SemiType
<1>4. CASE semi' = SwitchOff(m)
  BY <1>1, <1>3, <1>4, SwitchOffKeeps, SwitchOffIs DEF Wakes, WakesAmong
<1>5. CASE semi' = m
  BY <1>1, <1>3, <1>5
<1>6. CASE m.enabled /\ semi' = [m EXCEPT !.on = TRUE]
  <2>1. /\ semi' \in SemiStates /\ semi'.count = m.count
        /\ semi'.container = m.container
        /\ semi'.nodes = m.nodes /\ semi'.on = TRUE /\ semi'.enabled = TRUE
        /\ semi'.signalled = m.signalled /\ semi'.reply = m.reply
        /\ semi'.wait = m.wait
    BY <1>1, <1>6 DEF SemiStates
  <2>2. SemiType(semi')
    BY <1>3, <2>1 DEF SemiType
  <2>3. CASE m.on
    BY <1>1, <1>3, <2>1, <2>2, <2>3, WakesSame DEF SemiStates
  <2>4. CASE ~m.on
    BY <1>1, <1>3, <2>1, <2>2, <2>4, OffIsAwake, AwakeIsEnough
  <2> QED BY <2>3, <2>4
<1> QED BY <1>2, <1>4, <1>5, <1>6

(* SetWaitSlaveCount preserves the invariant. *)
LEMMA SetWaitSlaveCountKeeps ==
  ASSUME SemiType(semi), Wakes(semi), SessionTypes, NEW n \in WaitCounts,
         SetWaitSlaveCount(n)
  PROVE  SemiType(semi') /\ Wakes(semi') /\ semi'.count = n
<1> DEFINE res == Resize(semi.container, n)
           m == [semi EXCEPT !.container = res.container, !.count = n]
<1>1. semi.container \in Containers
  BY DEF SemiType, SemiStates
<1>2. res.container \in Containers /\ Len(res.container.slots) = n - 1
      /\ res.report \in Positions
  BY <1>1, ResizeType, CountsAreNumbers
<1>3. SemiType(m) /\ Wakes(m) /\ m.count = n
  BY <1>2, WithContainer DEF SemiType, SemiStates
<1>4. semi' = IF res.report = 0 THEN m ELSE ReportReply(m, res.report)
  BY DEF SetWaitSlaveCount
<1> HIDE DEF res, m
<1> QED BY <1>2, <1>3, <1>4, ReportReplyKeeps, ReportReplyIs DEF SemiType

-----------------------------------------------------------------------------
(* Sessions that move *)

(* clear_active_tranx_nodes spares the nodes other sessions wait at. *)
LEMMA ClearNodesIs ==
  ASSUME NEW m \in SemiStates, NEW p, NEW s
  PROVE  /\ ClearNodes(m, p, s) \in SemiStates
         /\ ClearNodes(m, p, s) =
              [m EXCEPT !.nodes = ClearNodes(m, p, s).nodes]
         /\ ClearNodes(m, p, s).nodes \subseteq m.nodes
         /\ \A u \in Sessions \ {s} :
              Waiting(u) /\ entry[u] \in m.nodes =>
                entry[u] \in ClearNodes(m, p, s).nodes
<1> DEFINE N == {n \in m.nodes :
                  \E k \in m.nodes : k <= n /\ (k > p \/ WaitersAt(k) \ {s} # {})}
<1>1. ClearNodes(m, p, s) = [m EXCEPT !.nodes = N]
  BY DEF ClearNodes, SemiStates
<1>2. N \in SUBSET m.nodes
  OBVIOUS
<1>3. ASSUME NEW u \in Sessions \ {s}, Waiting(u), entry[u] \in m.nodes
      PROVE  entry[u] \in N
  <2>1. u \in WaitersAt(entry[u]) \ {s}
    BY <1>3 DEF WaitersAt, Waiting
  <2>2. entry[u] <= entry[u]
    <3>1. entry[u] \in Nat
      BY <1>3, PositionsAreNumbers DEF SemiStates
    <3> QED BY <3>1
  <2> QED BY <1>3, <2>1, <2>2
<1> HIDE DEF N
<1>4. [m EXCEPT !.nodes = N].nodes = N
  BY DEF SemiStates
<1>5. [m EXCEPT !.nodes = N] \in SemiStates
  BY <1>2 DEF SemiStates
<1> QED BY <1>1, <1>2, <1>3, <1>4, <1>5

(* The state a session leaves behind at the end of commitTrx. *)
LEMMA LeaveIs ==
  ASSUME NEW s \in Sessions, NEW m \in SemiStates, NEW e, NEW b,
         Leave(s, m, e, b)
  PROVE  /\ semi' \in SemiStates
         /\ semi'.enabled = m.enabled /\ semi'.on = m.on
         /\ semi'.count = m.count /\ semi'.container = m.container
         /\ semi'.commit = m.commit
         /\ semi'.wait_no_replica = m.wait_no_replica
         /\ semi'.reply = m.reply /\ semi'.wait = m.wait
         /\ semi'.signalled = m.signalled \ {s}
         /\ semi'.nodes \subseteq m.nodes
         /\ \A u \in Sessions \ {s} :
              Waiting(u) /\ entry[u] \in m.nodes => entry[u] \in semi'.nodes
<1> DEFINE m1 == [m EXCEPT !.signalled = @ \ {s}]
<1>1. /\ m1 \in SemiStates /\ m1.signalled = m.signalled \ {s}
      /\ m1.enabled = m.enabled /\ m1.on = m.on /\ m1.count = m.count
      /\ m1.container = m.container /\ m1.commit = m.commit
      /\ m1.reply = m.reply /\ m1.wait = m.wait /\ m1.nodes = m.nodes
      /\ m1.wait_no_replica = m.wait_no_replica
  BY DEF SemiStates
<1>2. semi' = m1 \/ semi' = ClearNodes(m1, pos[s], s)
  BY DEF Leave
<1> HIDE DEF m1
<1>3. CASE semi' = m1
  BY <1>1, <1>3
<1>4. CASE semi' = ClearNodes(m1, pos[s], s)
  <2>1. /\ semi' \in SemiStates
        /\ semi' = [m1 EXCEPT !.nodes = semi'.nodes]
        /\ semi'.nodes \subseteq m1.nodes
        /\ \A u \in Sessions \ {s} :
             Waiting(u) /\ entry[u] \in m1.nodes => entry[u] \in semi'.nodes
    BY <1>1, <1>4, ClearNodesIs
  <2>2. ASSUME NEW N, semi' = [m1 EXCEPT !.nodes = N]
        PROVE  /\ semi'.enabled = m1.enabled /\ semi'.on = m1.on
               /\ semi'.count = m1.count /\ semi'.container = m1.container
               /\ semi'.commit = m1.commit /\ semi'.reply = m1.reply
               /\ semi'.wait = m1.wait /\ semi'.signalled = m1.signalled
               /\ semi'.wait_no_replica = m1.wait_no_replica
    BY <1>1, <2>2 DEF SemiStates
  <2>3. /\ semi'.enabled = m1.enabled /\ semi'.on = m1.on
        /\ semi'.count = m1.count /\ semi'.container = m1.container
        /\ semi'.commit = m1.commit /\ semi'.reply = m1.reply
        /\ semi'.wait = m1.wait /\ semi'.signalled = m1.signalled
        /\ semi'.wait_no_replica = m1.wait_no_replica
    BY <2>1, <2>2
  <2> QED BY <1>1, <2>1, <2>3
<1> QED BY <1>2, <1>3, <1>4

(* A session leaves; the others have what they need without it. *)
LEMMA LeaveKeeps ==
  ASSUME NEW s \in Sessions, NEW m, SemiType(m), SessionTypes,
         WakesAmong(m, Sessions \ {s}), NEW e, NEW b, Leave(s, m, e, b),
         flushed' = flushed
  PROVE  SemiType(semi)' /\ Wakes(semi)' /\ SessionTypes'
<1>1. m \in SemiStates
  BY DEF SemiType
<1>2. /\ pc' = [pc EXCEPT ![s] = "idle"] /\ pos' = [pos EXCEPT ![s] = 0]
      /\ entry' = [entry EXCEPT ![s] = 0] /\ asked' = [asked EXCEPT ![s] = 0]
      /\ yes' = IF b THEN [pos |-> pos[s], asked |-> asked[s]] ELSE yes
  BY DEF Leave
<1>3. SemiType(semi)'
  BY <1>1, LeaveIs DEF SemiType
<1>4. SessionTypes'
  <2>1. 0 \in Positions /\ pos[s] \in Positions /\ asked[s] \in WaitCounts \cup {0}
    BY PositionsAreNumbers DEF SessionTypes
  <2>2. yes' \in [pos : Positions, asked : WaitCounts \cup {0}]
    BY <1>2, <2>1 DEF SessionTypes
  <2> QED BY <1>2, <2>1, <2>2 DEF SessionTypes
<1>5. \A u \in Sessions : Waiting(u)' => /\ u # s /\ Waiting(u)
                                        /\ entry'[u] = entry[u]
  BY <1>2 DEF SessionTypes, Waiting
<1>6. \A u \in Sessions \ {s} : Waiting(u) => Waiting(u)' /\ pos'[u] = pos[u]
  BY <1>2 DEF SessionTypes, Waiting
<1>7. /\ semi'.on = m.on /\ semi'.reply = m.reply /\ semi'.wait = m.wait
      /\ semi'.signalled = m.signalled \ {s}
      /\ \A u \in Sessions \ {s} :
           Waiting(u) /\ entry[u] \in m.nodes => entry[u] \in semi'.nodes
  BY <1>1, LeaveIs
<1>8. \A u \in Sessions : Waiting(u)' => entry'[u] \in semi'.nodes
  BY <1>5, <1>7 DEF WakesAmong
<1>9. ASSUME NEW u \in Sessions, Asleep(semi, u)'
      PROVE  /\ semi'.on
             /\ entry'[u] <= semi'.reply =>
                  \E v \in Sessions : Waiting(v)' /\ pos'[v] > semi'.reply
             /\ \/ semi'.wait <= semi'.reply
                \/ \E v \in Sessions : Waiting(v)' /\ pos'[v] >= semi'.wait
  <2>1. u \in Sessions \ {s} /\ Asleep(m, u) /\ entry'[u] = entry[u]
    BY <1>5, <1>7, <1>9 DEF Asleep
  <2>2. /\ m.on
        /\ entry[u] <= m.reply =>
             \E v \in Sessions \ {s} : Waiting(v) /\ pos[v] > m.reply
        /\ \/ m.wait <= m.reply
           \/ \E v \in Sessions \ {s} : Waiting(v) /\ pos[v] >= m.wait
    BY <2>1 DEF WakesAmong
  <2> QED BY <2>1, <2>2, <1>6, <1>7
<1>10. Wakes(semi)'
  BY <1>8, <1>9 DEF Wakes, WakesAmong
<1> QED BY <1>3, <1>4, <1>10

(* Whom a session may leave behind. *)
LEMMA MayLeave ==
  ASSUME NEW s \in Sessions, NEW m \in SemiStates, Wakes(m), SessionTypes,
         ~m.on \/ m.reply >= pos[s] \/ ~Waiting(s)
  PROVE  WakesAmong(m, Sessions \ {s})
<1>1. CASE ~m.on
  BY <1>1, OffIsAwake DEF WakesAmong
<1>2. CASE m.reply >= pos[s] \/ ~Waiting(s)
  <2>1. m.reply \in Nat /\ m.wait \in Nat /\ \A u \in Sessions : pos[u] \in Nat
    <3>1. m.reply \in Positions /\ m.wait \in Positions
      BY DEF SemiStates
    <3>2. \A u \in Sessions : pos[u] \in Positions
      BY DEF SessionTypes
    <3> QED BY <3>1, <3>2, PositionsAreNumbers
  <2>2. \A v \in Sessions : Waiting(v) /\ pos[v] > m.reply => v # s
    BY <1>2, <2>1
  <2>3. \A v \in Sessions :
          Waiting(v) /\ pos[v] >= m.wait => v # s \/ m.wait <= m.reply
    BY <1>2, <2>1
  <2> QED BY <2>2, <2>3 DEF Wakes, WakesAmong
<1> QED BY <1>1, <1>2

(* The smallest position waited for is updated. *)
LEMMA UpdateWaitIs ==
  ASSUME NEW m \in SemiStates, NEW p \in Positions
  PROVE  LET k == UpdateWait(m, p)
         IN  /\ k \in SemiStates /\ p >= k.wait
             /\ k.enabled = m.enabled /\ k.on = m.on /\ k.count = m.count
             /\ k.container = m.container /\ k.commit = m.commit
             /\ k.wait_no_replica = m.wait_no_replica
             /\ k.reply = m.reply /\ k.nodes = m.nodes
             /\ k.signalled = m.signalled
<1>1. p \in Nat /\ m.wait \in Nat
  BY PositionsAreNumbers DEF SemiStates
<1>2. CASE m.wait_inited /\ p > m.wait
  BY <1>1, <1>2 DEF UpdateWait
<1>3. CASE ~(m.wait_inited /\ p > m.wait)
  <2> DEFINE k == [m EXCEPT !.wait = p, !.wait_inited = TRUE]
  <2>1. UpdateWait(m, p) = k
    BY <1>3 DEF UpdateWait
  <2>2. /\ k \in SemiStates /\ k.wait = p
        /\ k.enabled = m.enabled /\ k.on = m.on /\ k.count = m.count
        /\ k.container = m.container /\ k.commit = m.commit
        /\ k.wait_no_replica = m.wait_no_replica
        /\ k.reply = m.reply /\ k.nodes = m.nodes
        /\ k.signalled = m.signalled
    BY DEF SemiStates
  <2> HIDE DEF k
  <2> QED BY <1>1, <2>1, <2>2
<1> QED BY <1>2, <1>3

(* A session goes to sleep; it waits for more than is acknowledged. *)
LEMMA SleepKeeps ==
  ASSUME NEW s \in Sessions, NEW m, SemiType(m), Wakes(m), SessionTypes,
         NEW e \in m.nodes, m.on, ~(m.reply >= pos[s]),
         semi' = [UpdateWait(m, pos[s]) EXCEPT !.signalled = @ \ {s}],
         pc' = [pc EXCEPT ![s] = "waiting"], entry' = [entry EXCEPT ![s] = e],
         UNCHANGED <<flushed, pos, asked, yes>>
  PROVE  SemiType(semi)' /\ Wakes(semi)' /\ SessionTypes'
<1> DEFINE k == UpdateWait(m, pos[s])
<1>1. m \in SemiStates /\ pos[s] \in Positions /\ e \in Positions
  BY DEF SemiType, SemiStates, SessionTypes
<1>2. /\ k \in SemiStates /\ pos[s] >= k.wait
      /\ k.enabled = m.enabled /\ k.on = m.on /\ k.count = m.count
      /\ k.container = m.container /\ k.reply = m.reply /\ k.nodes = m.nodes
      /\ k.signalled = m.signalled
  BY <1>1, UpdateWaitIs
<1> HIDE DEF k
<1>3. /\ semi' \in SemiStates /\ semi'.wait = k.wait
      /\ semi'.enabled = m.enabled /\ semi'.on = m.on /\ semi'.count = m.count
      /\ semi'.container = m.container /\ semi'.reply = m.reply
      /\ semi'.nodes = m.nodes /\ semi'.signalled = m.signalled \ {s}
  <2>1. semi' = [k EXCEPT !.signalled = @ \ {s}]
    BY DEF k
  <2> QED BY <1>2, <2>1 DEF SemiStates
<1>4. SemiType(semi)'
  BY <1>3 DEF SemiType
<1>5. SessionTypes'
  BY <1>1 DEF SessionTypes
<1>6. pos[s] > semi'.reply /\ pos[s] >= semi'.wait
  <2>1. m.reply \in Nat /\ pos[s] \in Nat
    BY <1>1, PositionsAreNumbers DEF SemiStates
  <2> QED BY <2>1, <1>2, <1>3
<1>7. Waiting(s)' /\ pos'[s] = pos[s] /\ entry'[s] = e
  BY DEF SessionTypes, Waiting
<1>8. \A u \in Sessions : Waiting(u)' => entry'[u] \in semi'.nodes
  BY <1>3, <1>7 DEF SessionTypes, Waiting, Wakes, WakesAmong
<1>9. \E u \in Sessions : /\ Waiting(u)' /\ pos'[u] > semi'.reply
                          /\ pos'[u] >= semi'.wait
  BY <1>6, <1>7
<1>10. semi'.on
  BY <1>3
<1>11. Wakes(semi)'
  BY <1>8, <1>9, <1>10 DEF Wakes, WakesAmong
<1> QED BY <1>4, <1>5, <1>11

(* One round of the loop of commitTrx. *)
LEMMA WaitOrLeaveKeeps ==
  ASSUME NEW s \in Sessions, NEW m, SemiType(m), Wakes(m), SessionTypes,
         NEW e, e = 0 \/ e \in m.nodes, Waiting(s) => e # 0,
         WaitOrLeave(s, m, e), flushed' = flushed
  PROVE  SemiType(semi)' /\ Wakes(semi)' /\ SessionTypes'
<1> DEFINE k == UpdateWait(m, pos[s])
<1>1. m \in SemiStates /\ pos[s] \in Positions
  BY DEF SemiType, SessionTypes
<1>2. SemiType(k) /\ \A u \in Sessions : Waiting(u) => entry[u] \in k.nodes
  BY <1>1, UpdateWaitIs DEF SemiType, Wakes, WakesAmong
<1>3. SemiType(SwitchOff(k)) /\ WakesAmong(SwitchOff(k), Sessions \ {s})
  <2>1. k \in SemiStates
    BY <1>2 DEF SemiType
  <2>2. SemiType(SwitchOff(k)) /\ Wakes(SwitchOff(k)) /\ SwitchOff(k).on = FALSE
        /\ SwitchOff(k) \in SemiStates
    BY <1>2, <2>1, SwitchOffKeeps, SwitchOffIs
  <2> QED BY <2>2, MayLeave
<1>4. CASE ~m.on
  <2>1. Leave(s, m, e, FALSE)
    BY <1>4 DEF WaitOrLeave
  <2> QED BY <1>1, <1>4, <2>1, MayLeave, LeaveKeeps
<1>5. CASE m.on /\ m.reply >= pos[s]
  <2>1. Leave(s, m, e, TRUE)
    BY <1>5 DEF WaitOrLeave
  <2> QED BY <1>1, <1>5, <2>1, MayLeave, LeaveKeeps
<1>6. CASE m.on /\ ~(m.reply >= pos[s]) /\ e = 0
  <2>1. Leave(s, m, e, FALSE)
    BY <1>6 DEF WaitOrLeave
  <2> QED BY <1>1, <1>6, <2>1, MayLeave, LeaveKeeps
<1>7. CASE m.on /\ ~(m.reply >= pos[s]) /\ e # 0 /\ aborted /\ clients = m.count - 1
  <2>1. Leave(s, SwitchOff(k), e, FALSE)
    BY <1>7 DEF WaitOrLeave
  <2> HIDE DEF k
  <2> QED BY <1>3, <2>1, LeaveKeeps
<1>8. CASE /\ m.on /\ ~(m.reply >= pos[s]) /\ e # 0
           /\ ~(aborted /\ clients = m.count - 1)
  <2>1. /\ semi' = [k EXCEPT !.signalled = @ \ {s}]
        /\ pc' = [pc EXCEPT ![s] = "waiting"]
        /\ entry' = [entry EXCEPT ![s] = e]
        /\ UNCHANGED <<pos, asked, yes>>
    BY <1>8 DEF WaitOrLeave
  <2> QED BY <1>8, <2>1, SleepKeeps
<1> QED BY <1>4, <1>5, <1>6, <1>7, <1>8

-----------------------------------------------------------------------------
(* One lemma per action *)

(* CommitTrx preserves the invariant. *)
LEMMA CommitTrxKeeps ==
  ASSUME WInv, NEW s \in Sessions, CommitTrx(s)
  PROVE  WInv'
<1> DEFINE e == FindNode(semi, pos[s])
           later == {n \in semi.nodes : n >= pos[s]}
<1>1. e = 0 \/ e \in semi.nodes
  <2>1. later \in SUBSET Nat
    BY PositionsAreNumbers DEF WInv, SemiType, SemiStates
  <2>2. e = IF later = {} THEN 0 ELSE Smallest(later)
    BY DEF FindNode
  <2> QED BY <2>1, <2>2, SmallestIsSmallest
<1>2. ~Waiting(s) /\ WaitOrLeave(s, semi, e) /\ flushed' = flushed
  BY DEF CommitTrx, Waiting
<1> HIDE DEF e
<1>3. SemiType(semi)' /\ Wakes(semi)' /\ SessionTypes'
  BY <1>1, <1>2, WaitOrLeaveKeeps DEF WInv
<1> QED BY <1>3 DEF WInv, CommitTrx, ReplicaTypes, BudgetTypes, replicaVars, budget

(* A waiting session's node is a position of the log, so never 0. *)
LEMMA EntryIsNode ==
  ASSUME WInv, NEW s \in Sessions, Waiting(s)
  PROVE  entry[s] \in semi.nodes /\ entry[s] # 0
<1>1. entry[s] \in semi.nodes /\ semi.nodes \subseteq Start .. flushed
  BY DEF WInv, Wakes, WakesAmong, SemiType
<1> QED BY <1>1 DEF Start

(* WakeUp preserves the invariant. *)
LEMMA WakeUpKeeps ==
  ASSUME WInv, NEW s \in Sessions, WakeUp(s)
  PROVE  WInv'
<1>1. Waiting(s) /\ WaitOrLeave(s, semi, entry[s]) /\ flushed' = flushed
  BY DEF WakeUp, Waiting
<1>2. entry[s] \in semi.nodes /\ entry[s] # 0
  BY <1>1, EntryIsNode
<1>3. SemiType(semi)' /\ Wakes(semi)' /\ SessionTypes'
  BY <1>1, <1>2, WaitOrLeaveKeeps DEF WInv
<1> QED BY <1>3 DEF WInv, WakeUp, ReplicaTypes, BudgetTypes, replicaVars, budget

(* Timeout preserves the invariant. *)
LEMMA TimeoutKeeps ==
  ASSUME WInv, NEW s \in Sessions, Timeout(s)
  PROVE  WInv'
<1> DEFINE m == SwitchOff(semi)
<1>1. Waiting(s) /\ WaitOrLeave(s, m, entry[s]) /\ flushed' = flushed
  BY DEF Timeout, Waiting
<1>2. SemiType(m) /\ Wakes(m) /\ m.nodes = semi.nodes
  BY SwitchOffKeeps, SwitchOffIs DEF WInv, Wakes, WakesAmong, SemiType
<1>3. entry[s] \in m.nodes /\ entry[s] # 0
  BY <1>1, <1>2, EntryIsNode
<1> HIDE DEF m
<1>4. SemiType(semi)' /\ Wakes(semi)' /\ SessionTypes'
  BY <1>1, <1>2, <1>3, WaitOrLeaveKeeps DEF WInv
<1> QED BY <1>4 DEF WInv, Timeout, ReplicaTypes, BudgetTypes, replicaVars, budget

(* writeTranxInBinlog, told the new end p of the log. *)
LEMMA WriteTranxIs ==
  ASSUME NEW m \in SemiStates, NEW p \in Positions
  PROVE  LET k == WriteTranx(m, p)
         IN  /\ k \in SemiStates
             /\ k.enabled = m.enabled /\ k.on = m.on /\ k.count = m.count
             /\ k.container = m.container
             /\ k.wait_no_replica = m.wait_no_replica
             /\ k.reply = m.reply /\ k.wait = m.wait
             /\ k.signalled = m.signalled
             /\ m.nodes \subseteq k.nodes /\ k.nodes \subseteq m.nodes \cup {p}
             /\ k.commit = IF m.enabled THEN p ELSE m.commit
<1>1. CASE ~m.enabled
  BY <1>1 DEF WriteTranx
<1>2. CASE m.enabled /\ m.on
  <2> DEFINE N == m.nodes \cup {p}
             k == [m EXCEPT !.commit = p, !.nodes = N]
  <2>1. WriteTranx(m, p) = k
    BY <1>2 DEF WriteTranx, SemiStates
  <2>2. N \in SUBSET Positions
    BY DEF SemiStates
  <2> HIDE DEF N
  <2>3. /\ k \in SemiStates /\ k.commit = p /\ k.nodes = N
        /\ k.enabled = m.enabled /\ k.on = m.on /\ k.count = m.count
        /\ k.container = m.container /\ k.wait = m.wait
        /\ k.wait_no_replica = m.wait_no_replica
        /\ k.reply = m.reply /\ k.signalled = m.signalled
    BY <2>2 DEF SemiStates
  <2> HIDE DEF k
  <2> QED BY <1>2, <2>1, <2>3 DEF N
<1>3. CASE m.enabled /\ ~m.on
  <2>1. WriteTranx(m, p) = [m EXCEPT !.commit = p]
    BY <1>3 DEF WriteTranx
  <2> QED BY <1>3, <2>1 DEF SemiStates
<1> QED BY <1>1, <1>2, <1>3

(* What a flush does to the log and to the sessions of the group. *)
LEMMA FlushIs ==
  ASSUME SessionTypes, SemiType(semi), NEW G \in SUBSET Sessions, Flush(G)
  PROVE  /\ SessionTypes' /\ flushed' > flushed
         /\ entry' = entry /\ yes' = yes
         /\ \A s \in G : ~Waiting(s) /\ ~Waiting(s)' /\ pos'[s] > flushed
                         /\ asked'[s] = semi.count
         /\ \A s \in Sessions \ G : /\ pc'[s] = pc[s] /\ pos'[s] = pos[s]
                                     /\ asked'[s] = asked[s]
<1> DEFINE n == Cardinality(G)
<1>1. n \in Nat /\ n # 0
  <2>1. IsFiniteSet(G) /\ G # {}
    BY FS_Subset, SemiSyncAssumption DEF Flush
  <2> QED BY <2>1, FS_EmptySet, FS_CardinalityType
<1>2. flushed' = flushed + n /\ flushed + n <= MaxPos
  BY DEF Flush
<1>3. PICK place \in [G -> 1 .. n] :
        pos' = [s \in Sessions |-> IF s \in G THEN flushed + place[s] ELSE pos[s]]
  BY DEF Flush, Bijection, Injection
<1> HIDE DEF n
<1>4. flushed \in Nat /\ flushed >= Start /\ MaxPos \in Nat
  BY SemiSyncAssumption DEF SessionTypes, Start
<1>5. flushed' \in Start .. MaxPos /\ flushed' > flushed
  BY <1>1, <1>2, <1>4, SemiSyncAssumption DEF Start
<1>6. \A s \in G : pos'[s] \in Positions /\ pos'[s] > flushed
  BY <1>1, <1>2, <1>3, <1>4 DEF Positions
<1>7. pos' \in [Sessions -> Positions]
  <2>1. \A s \in Sessions : pos'[s] \in Positions
    BY <1>3, <1>6 DEF SessionTypes
  <2> QED BY <2>1, <1>3
<1>8. semi.count \in WaitCounts
  BY DEF SemiType, SemiStates
<1>9. /\ pc' = [s \in Sessions |-> IF s \in G THEN "written" ELSE pc[s]]
      /\ asked' = [s \in Sessions |-> IF s \in G THEN semi.count ELSE asked[s]]
      /\ entry' = entry /\ yes' = yes /\ \A s \in G : pc[s] = "idle"
  BY DEF Flush
<1>10. SessionTypes'
  BY <1>5, <1>7, <1>8, <1>9 DEF SessionTypes
<1> QED BY <1>3, <1>5, <1>6, <1>9, <1>10 DEF Waiting

(* The same sessions wait at the same nodes for the same positions. *)
LEMMA SameWaiters ==
  ASSUME NEW m, Wakes(m),
         m.nodes \subseteq semi'.nodes, semi'.on = m.on,
         semi'.signalled = m.signalled, semi'.reply = m.reply, semi'.wait = m.wait,
         entry' = entry,
         \A s \in Sessions : pc'[s] = "waiting" <=> pc[s] = "waiting",
         \A s \in Sessions : pc[s] = "waiting" => pos'[s] = pos[s]
  PROVE  Wakes(semi)'
<1>0. \A s \in Sessions : /\ Waiting(s)' <=> Waiting(s)
                          /\ Waiting(s) => pos'[s] = pos[s]
  BY DEF Waiting
<1>1. \A s \in Sessions : Asleep(semi, s)' => Asleep(m, s)
  BY <1>0 DEF Asleep
<1>2. \A s \in Sessions : Waiting(s)' => entry'[s] \in semi'.nodes
  BY <1>0 DEF Wakes, WakesAmong
<1> QED BY <1>0, <1>1, <1>2 DEF Wakes, WakesAmong

(* Flush preserves the invariant. *)
LEMMA FlushKeeps ==
  ASSUME WInv, NEW G \in SUBSET Sessions, Flush(G)
  PROVE  WInv'
<1>1. /\ SessionTypes' /\ flushed' > flushed /\ entry' = entry
      /\ \A s \in Sessions : pc'[s] = "waiting" <=> pc[s] = "waiting"
      /\ \A s \in Sessions : pc[s] = "waiting" => pos'[s] = pos[s]
  <2>1. /\ SessionTypes' /\ flushed' > flushed /\ entry' = entry
        /\ \A s \in G : pc[s] # "waiting" /\ pc'[s] # "waiting"
        /\ \A s \in Sessions \ G : pc'[s] = pc[s] /\ pos'[s] = pos[s]
    BY FlushIs DEF WInv, Waiting
  <2> QED BY <2>1
<1>2. semi \in SemiStates /\ SemiType(semi) /\ Wakes(semi)
  BY DEF WInv, SemiType
<1>3. flushed' \in Positions /\ flushed \in Nat /\ flushed' \in Nat
      /\ flushed' >= Start
  BY <1>1, SemiSyncAssumption DEF WInv, SessionTypes, Positions, Start
<1>4. Start .. flushed \subseteq Start .. flushed'
  BY <1>1, <1>3 DEF Start
<1>5. CASE semi' = WriteTranx(semi, flushed') /\ UNCHANGED faults
  <2>1. /\ semi' \in SemiStates
        /\ semi'.enabled = semi.enabled /\ semi'.on = semi.on
        /\ semi'.count = semi.count /\ semi'.container = semi.container
        /\ semi'.reply = semi.reply /\ semi'.wait = semi.wait
        /\ semi'.signalled = semi.signalled /\ semi.nodes \subseteq semi'.nodes
        /\ semi'.nodes \subseteq semi.nodes \cup {flushed'}
    BY <1>2, <1>3, <1>5, WriteTranxIs
  <2>2. SemiType(semi)'
    BY <1>2, <1>3, <1>4, <2>1 DEF SemiType, Start
  <2>3. Wakes(semi)'
    BY <1>1, <1>2, <2>1, SameWaiters
  <2> QED BY <1>1, <1>5, <2>2, <2>3
          DEF WInv, Flush, ReplicaTypes, BudgetTypes, replicaVars
<1>6. CASE /\ faults < MaxFaults
           /\ semi' = SwitchOff([semi EXCEPT !.commit = flushed'])
           /\ faults' = faults + 1
  <2> DEFINE k == [semi EXCEPT !.commit = flushed']
  <2>1. /\ k \in SemiStates /\ k.count = semi.count /\ k.on = semi.on
        /\ k.enabled = semi.enabled
        /\ k.container = semi.container /\ k.nodes = semi.nodes
    BY <1>2, <1>3 DEF SemiStates
  <2> HIDE DEF k
  <2>2. SemiType(k) /\ \A s \in Sessions : Waiting(s) => entry[s] \in k.nodes
    BY <1>2, <2>1 DEF SemiType, Wakes, WakesAmong
  <2>3. semi' = SwitchOff(k)
    BY <1>6 DEF k
  <2>4. SemiType(semi') /\ Wakes(semi')
    BY <2>2, <2>3, SwitchOffKeeps
  <2>5. SemiType(semi)'
    BY <1>4, <2>4 DEF SemiType
  <2>6. Wakes(semi)'
    BY <1>1, <2>4, SameWaiters
  <2>7. faults' \in 0 .. MaxFaults
    BY <1>6, SemiSyncAssumption DEF WInv, BudgetTypes
  <2> QED BY <1>1, <2>5, <2>6, <2>7
          DEF WInv, Flush, ReplicaTypes, BudgetTypes, replicaVars
<1> QED BY <1>5, <1>6 DEF Flush

(* Send preserves the invariant. *)
LEMMA SendKeeps ==
  ASSUME WInv, NEW r \in Replicas, Send(r)
  PROVE  WInv'
<1>1. SemiType(semi)' /\ Wakes(semi)' /\ SessionTypes'
  BY SessionsStay DEF WInv, Send
<1>2. received[r] + 1 \in Start .. MaxPos /\ received[r] + 1 \in Positions
  BY SemiSyncAssumption
     DEF WInv, Send, ReplicaTypes, SessionTypes, Positions, Start
<1>3. received' \in [Replicas -> Start .. MaxPos]
  BY <1>2 DEF WInv, Send, ReplicaTypes
<1>4. acks' \in [Replicas -> Seq(Positions)]
  <2>1. acks[r] \in Seq(Positions) /\ Append(acks[r], received[r] + 1) \in Seq(Positions)
    BY <1>2 DEF WInv, ReplicaTypes
  <2> QED BY <2>1 DEF WInv, Send, ReplicaTypes
<1> QED BY <1>1, <1>3, <1>4 DEF WInv, Send, ReplicaTypes, BudgetTypes, budget

(* ReceiveAck preserves the invariant. *)
LEMMA ReceiveAckKeeps ==
  ASSUME WInv, NEW r \in Replicas, ReceiveAck(r)
  PROVE  WInv'
<1>1. acks[r] \in Seq(Positions) /\ acks[r] # << >>
  BY DEF WInv, ReplicaTypes, ReceiveAck
<1>2. Head(acks[r]) \in Positions /\ Tail(acks[r]) \in Seq(Positions)
  BY <1>1
<1>3. SemiType(semi') /\ Wakes(semi')
  BY <1>2, HandleAckKeeps DEF WInv, ReceiveAck
<1>4. SemiType(semi)' /\ Wakes(semi)' /\ SessionTypes'
  BY <1>3, SessionsStay DEF WInv, ReceiveAck
<1>5. ReplicaTypes'
  BY <1>2 DEF WInv, ReceiveAck, ReplicaTypes
<1> QED BY <1>4, <1>5 DEF WInv, ReceiveAck, BudgetTypes, budget

(* DumpStart preserves the invariant. *)
LEMMA DumpStartKeeps ==
  ASSUME WInv, NEW r \in Replicas, DumpStart(r)
  PROVE  WInv'
<1>1. received[r] \in Positions
  BY SemiSyncAssumption DEF WInv, ReplicaTypes, Positions, Start
<1>2. SemiType(semi') /\ Wakes(semi')
  BY <1>1, HandleAckKeeps DEF WInv, DumpStart
<1>3. SemiType(semi)' /\ Wakes(semi)' /\ SessionTypes'
  BY <1>2, SessionsStay DEF WInv, DumpStart
<1> QED BY <1>3 DEF WInv, DumpStart, ReplicaTypes, BudgetTypes, budget

(* DumpEnd preserves the invariant. *)
LEMMA DumpEndKeeps ==
  ASSUME WInv, NEW r \in Replicas, DumpEnd(r)
  PROVE  WInv'
<1>1. semi' = semi \/ semi' = SwitchOff(semi)
  BY DEF DumpEnd
<1>2. SemiType(semi') /\ Wakes(semi')
  BY <1>1, SwitchOffKeeps DEF WInv, Wakes, WakesAmong
<1>3. SemiType(semi)' /\ Wakes(semi)' /\ SessionTypes'
  BY <1>2, SessionsStay DEF WInv, DumpEnd
<1>4. ReplicaTypes'
  <2>1. << >> \in Seq(Positions)
    OBVIOUS
  <2> QED BY <2>1 DEF WInv, DumpEnd, ReplicaTypes
<1>5. BudgetTypes'
  BY SemiSyncAssumption DEF WInv, DumpEnd, BudgetTypes
<1> QED BY <1>3, <1>4, <1>5 DEF WInv

(* Command preserves the invariant. *)
LEMMA CommandKeeps ==
  ASSUME WInv, Command
  PROVE  WInv'
<1>1. SemiType(semi') /\ Wakes(semi')
  BY EnableMasterKeeps, DisableMasterKeeps, SetWaitNoReplicaKeeps,
     SetWaitSlaveCountKeeps DEF WInv, Command
<1>2. semi'.count \in WaitCounts
  BY <1>1 DEF SemiType, SemiStates
<1>3. /\ UNCHANGED <<flushed, pc, pos, entry, yes, replicaVars, faults>>
      /\ asked' = [s \in Sessions |->
                    IF semi'.count < asked[s] THEN semi'.count ELSE asked[s]]
  BY DEF Command
<1>4. SemiType(semi)' /\ Wakes(semi)'
  BY <1>1, <1>3 DEF SemiType, Wakes, WakesAmong, Asleep, Waiting
<1>5. SessionTypes'
  BY <1>2, <1>3 DEF WInv, SessionTypes
<1>6. commands' \in 0 .. MaxCommands
  BY SemiSyncAssumption DEF WInv, Command, BudgetTypes
<1>7. aborted' \in BOOLEAN
  BY DEF WInv, Command, BudgetTypes
<1> QED BY <1>3, <1>4, <1>5, <1>6, <1>7 DEF WInv, ReplicaTypes, BudgetTypes, replicaVars

-----------------------------------------------------------------------------
(* Theorems for every number of replicas to wait for *)

(* The invariant holds at first. *)
LEMMA InitWInv == Init => WInv
<1> SUFFICES ASSUME Init PROVE WInv
  OBVIOUS
<1>1. PICK n \in WaitCounts, w \in BOOLEAN :
        semi = [enabled |-> TRUE, on |-> w, wait_no_replica |-> w,
                count |-> n, reply |-> 0, wait |-> 0,
                wait_inited |-> FALSE, commit |-> 0, nodes |-> {},
                signalled |-> {}, container |-> NewContainer(n)]
  BY DEF Init
<1>2. NewContainer(n) \in Containers /\ Len(NewContainer(n).slots) = n - 1
  BY CountsAreNumbers, NewContainerType
<1>3. semi \in SemiStates
  BY <1>1, <1>2, PositionsAreNumbers DEF SemiStates
<1>4. SemiType(semi)
  BY <1>1, <1>2, <1>3 DEF SemiType
<1>5. Start \in Start .. MaxPos
  BY SemiSyncAssumption DEF Start
<1>6. SessionTypes /\ ReplicaTypes /\ BudgetTypes
  <2>1. yes \in [pos : Positions, asked : WaitCounts \cup {0}]
    BY PositionsAreNumbers DEF Init
  <2>2. SessionTypes
    BY <1>5, <2>1, PositionsAreNumbers DEF Init, SessionTypes
  <2>3. << >> \in Seq(Positions)
    OBVIOUS
  <2>4. ReplicaTypes
    BY <1>5, <2>3 DEF Init, ReplicaTypes
  <2>5. BudgetTypes
    <3>1. aborted \in BOOLEAN
      BY DEF Init
    <3>2. faults \in 0 .. MaxFaults /\ commands \in 0 .. MaxCommands
      BY SemiSyncAssumption DEF Init
    <3> QED BY <3>1, <3>2 DEF BudgetTypes
  <2> QED BY <2>2, <2>4, <2>5
<1>7. Wakes(semi)
  BY DEF Init, Wakes, WakesAmong, Asleep, Waiting
<1> QED BY <1>4, <1>6, <1>7 DEF WInv

(* Every step preserves the invariant. *)
LEMMA NextWInv == WInv /\ [Next]_vars => WInv'
<1> SUFFICES ASSUME WInv, [Next]_vars PROVE WInv'
  OBVIOUS
<1>1. CASE UNCHANGED vars \/ AllAtRest
  <2>1. UNCHANGED vars
    BY <1>1 DEF AllAtRest
  <2>2. SemiType(semi)' /\ Wakes(semi)' /\ SessionTypes'
    BY <2>1, SessionsStay DEF WInv, vars
  <2> QED BY <2>1, <2>2
          DEF WInv, vars, ReplicaTypes, BudgetTypes, replicaVars, budget
<1>2. CASE \E G \in SUBSET Sessions : Flush(G)
  BY <1>2, FlushKeeps
<1>3. CASE \E s \in Sessions : CommitTrx(s) \/ WakeUp(s) \/ Timeout(s)
  BY <1>3, CommitTrxKeeps, WakeUpKeeps, TimeoutKeeps
<1>4. CASE \E r \in Replicas :
             Send(r) \/ ReceiveAck(r) \/ DumpStart(r) \/ DumpEnd(r)
  BY <1>4, SendKeeps, ReceiveAckKeeps, DumpStartKeeps, DumpEndKeeps
<1>5. CASE Command
  BY <1>5, CommandKeeps
<1> QED BY <1>1, <1>2, <1>3, <1>4, <1>5 DEF Next

(* The invariant holds. *)
LEMMA WInvHolds == Spec => []WInv
BY InitWInv, NextWInv, PTL DEF Spec

(* The invariant implies the three properties. *)
LEMMA WInvImplies == WInv => TypeOK /\ NodeOutlivesWait /\ NoLostWakeUp
<1> SUFFICES ASSUME WInv PROVE TypeOK /\ NodeOutlivesWait /\ NoLostWakeUp
  OBVIOUS
<1>1. TypeOK
  BY DEF WInv, SemiType, SemiStates, Containers, SessionTypes, ReplicaTypes,
         BudgetTypes, TypeOK
<1>2. NodeOutlivesWait
  BY DEF WInv, Wakes, WakesAmong, Waiting, NodeOutlivesWait
<1>3. NoLostWakeUp
  BY DEF WInv, Wakes, WakesAmong, Asleep, Waiting, NoLostWakeUp
<1> QED BY <1>1, <1>2, <1>3

(***************************************************************************)
(* The state of the plugin is well-formed: the container keeps one slot    *)
(* less than the number of replicas to wait for through every resizing,    *)
(* and semi-synchronous replication is on only while it is enabled.        *)
(***************************************************************************)
THEOREM TypeCorrect == Spec => []TypeOK
BY WInvHolds, WInvImplies, PTL

(***************************************************************************)
(* The node a session waits at in commitTrx, with its condition variable,  *)
(* is not removed under it by clear_active_tranx_nodes.                    *)
(***************************************************************************)
THEOREM NodeOutlivesWaitHolds == Spec => []NodeOutlivesWait
BY WInvHolds, WInvImplies, PTL

(***************************************************************************)
(* Nobody sleeps through its release: reportReplyBinlog and switch_off     *)
(* wake everybody they concern, though reportReplyBinlog signals only when *)
(* the single smallest position waited for is reached.                     *)
(***************************************************************************)
THEOREM NoLostWakeUpHolds == Spec => []NoLostWakeUp
BY WInvHolds, WInvImplies, PTL

-----------------------------------------------------------------------------
(* Acknowledgements count for one or two replicas *)

(* The values for which the container reports the smallest position. *)
OneOrTwo == WaitCounts \subseteq {1, 2}

(* At least n replicas have everything up to p. *)
HeldBy(p, n) == Cardinality(Holders(p)) >= n

(* What is on its way or in a slot is on the replica it comes from. *)
Received ==
  \A r \in Replicas :
    /\ received[r] <= flushed
    /\ \A i \in 1 .. Len(acks[r]) : acks[r][i] <= received[r]

SlotsHeld(c) ==
  \A i \in 1 .. Len(c.slots) : c.slots[i].pos # 0 =>
    /\ c.slots[i].server \in Replicas
    /\ c.slots[i].pos <= received[c.slots[i].server]

(***************************************************************************)
(* Up to the position replied, the transactions of all sessions in         *)
(* commitTrx are on as many replicas as a says, which never exceeds the    *)
(* number to wait for.                                                     *)
(***************************************************************************)
ReplyHeld(m, a) ==
  /\ m.reply <= flushed
  /\ \A s \in Sessions : pc[s] # "idle" =>
       /\ pos[s] # 0 /\ a[s] <= m.count
       /\ pos[s] <= m.reply => HeldBy(pos[s], a[s])

(* commit_file_name_ is the end of the log, or nothing was written yet. *)
CommitIsEnd(m) == m.commit \in {0, flushed} /\ (~m.enabled => m.commit = 0)

AcksCount(m, a) == SlotsHeld(m.container) /\ ReplyHeld(m, a) /\ CommitIsEnd(m)

AInv == WInv /\ Received /\ AcksCount(semi, asked) /\ AckedByEnough

(* When k comes after m and switches on by itself, the replicas are there. *)
CaughtUp(m, k) ==
  ~m.on /\ k.on /\ m.enabled /\ m.commit # 0 => HeldBy(flushed, k.count)

(* A set of replicas can be counted. *)
LEMMA HoldersFinite ==
  ASSUME NEW S \in SUBSET Replicas
  PROVE  IsFiniteSet(S) /\ Cardinality(S) \in Nat
BY SemiSyncAssumption, FS_Subset, FS_CardinalityType

(* An earlier position is on at least as many replicas. *)
LEMMA HeldEarlier ==
  ASSUME ReplicaTypes, NEW p \in Nat, NEW q \in Nat, q <= p,
         NEW n \in Nat, NEW k \in Nat, k <= n, HeldBy(p, n)
  PROVE  HeldBy(q, k)
<1>1. \A r \in Replicas : received[r] \in Nat
  BY DEF ReplicaTypes, Start
<1>2. Holders(p) \in SUBSET Holders(q) /\ Holders(q) \in SUBSET Replicas
  BY <1>1 DEF Holders
<1>3. /\ Cardinality(Holders(p)) <= Cardinality(Holders(q))
      /\ Cardinality(Holders(p)) \in Nat /\ Cardinality(Holders(q)) \in Nat
  BY <1>2, HoldersFinite, FS_Subset
<1> QED BY <1>3 DEF HeldBy

(* The replica that acknowledges a position has it. *)
LEMMA HeldByOne ==
  ASSUME NEW r \in Replicas, NEW p, p <= received[r],
         p \in Nat, received[r] \in Nat
  PROVE  HeldBy(p, 1)
<1>1. r \in Holders(p) /\ Holders(p) \in SUBSET Replicas
  BY DEF Holders
<1>2. Cardinality(Holders(p)) \in Nat /\ Cardinality(Holders(p)) # 0
  BY <1>1, HoldersFinite, FS_EmptySet
<1> QED BY <1>2 DEF HeldBy

(* Two of them are two. *)
LEMMA HeldByTwo ==
  ASSUME NEW r \in Replicas, NEW q \in Replicas, q # r, NEW p \in Nat,
         received[r] \in Nat, received[q] \in Nat,
         p <= received[r], p <= received[q]
  PROVE  HeldBy(p, 2)
<1>1. {r, q} \in SUBSET Holders(p) /\ Holders(p) \in SUBSET Replicas
  BY DEF Holders
<1>2. Cardinality({r, q}) = 2
  <2>1. IsFiniteSet({r}) /\ Cardinality({r}) = 1
    BY FS_Singleton
  <2>2. Cardinality({r} \cup {q}) = 1 + 1
    BY <2>1, FS_AddElement
  <2>3. {r} \cup {q} = {r, q}
    OBVIOUS
  <2> QED BY <2>2, <2>3
<1>3. Cardinality({r, q}) <= Cardinality(Holders(p))
  BY <1>1, HoldersFinite, FS_Subset
<1> QED BY <1>2, <1>3 DEF HeldBy

(* With no slot, an acknowledgement is reported as it is. *)
LEMMA InsertNoSlot ==
  ASSUME NEW c \in Containers, Len(c.slots) = 0,
         NEW r \in Replicas \cup {NoServer}, NEW p \in Positions,
         Insert(c, r, p).report # 0
  PROVE  p # 0 /\ Insert(c, r, p).container.greatest = p
<1>1. SlotsOf(c, r) = {} /\ EmptySlots(c) = {} /\ MinAck(c, p) = 0
  BY SlotsAreFunctions DEF SlotsOf, EmptySlots, MinAck, SlotsWhere
<1>2. Insert(c, r, p) = IF p <= c.greatest THEN [container |-> c, report |-> 0]
                        ELSE [container |-> Reported(c, p), report |-> p]
  BY <1>1 DEF Insert
<1>3. Insert(c, r, p) = [container |-> Reported(c, p), report |-> p]
  BY <1>2
<1> QED BY <1>3, ReportedType

(* The single slot of a container for two replicas. *)
LEMMA OneSlot ==
  ASSUME NEW c \in Containers, Len(c.slots) = 1
  PROVE  /\ DOMAIN c.slots = {1} /\ c.slots[1] \in Slots
         /\ \A S \in SUBSET {1} : S # {} => S = {1} /\ LastOf(S) = 1
<1>1. DOMAIN c.slots = {1} /\ c.slots[1] \in Slots
  BY SlotsAreFunctions
<1>2. {1} \in SUBSET (1 .. 1) /\ 1 \in Nat
  OBVIOUS
<1>3. LastOf({1}) = 1
  BY <1>2, LastIsLast
<1>4. \A S \in SUBSET {1} : S # {} => S = {1}
  OBVIOUS
<1> QED BY <1>1, <1>3, <1>4

(* A container whose only slot is a. *)
LEMMA OnlySlotHeld ==
  ASSUME NEW c, Len(c.slots) = 1,
         c.slots[1].pos # 0 => /\ c.slots[1].server \in Replicas
                               /\ c.slots[1].pos <= received[c.slots[1].server]
  PROVE  SlotsHeld(c)
<1>1. \A i \in 1 .. 1 : i = 1
  OBVIOUS
<1> QED BY <1>1 DEF SlotsHeld

(***************************************************************************)
(* With one slot, what an acknowledgement reports is the smaller one of    *)
(* the slot's position and its own, and they are of different replicas.    *)
(***************************************************************************)
LEMMA InsertOneSlot ==
  ASSUME ReplicaTypes, NEW c \in Containers, Len(c.slots) = 1, SlotsHeld(c),
         NEW r \in Replicas, NEW p \in Positions, p <= received[r]
  PROVE  LET ins == Insert(c, r, p)
         IN  /\ SlotsHeld(ins.container)
             /\ ins.report # 0 => HeldBy(ins.report, 2) /\ ins.report <= received[r]
<1> DEFINE ins == Insert(c, r, p)
           a == c.slots[1]
<1>1. DOMAIN c.slots = {1} /\ a \in Slots
      /\ \A S \in SUBSET {1} : S # {} => S = {1} /\ LastOf(S) = 1
  BY OneSlot
<1>2. /\ p \in Nat /\ a.pos \in Nat /\ c.greatest \in Nat
      /\ \A q \in Replicas : received[q] \in Nat
  <2>1. a.pos \in Positions /\ c.greatest \in Positions
    BY <1>1 DEF Slots, Containers
  <2>2. \A q \in Replicas : received[q] \in Nat
    BY DEF ReplicaTypes, Start
  <2> QED BY <2>1, <2>2, PositionsAreNumbers
<1>3. a.pos # 0 => a.server \in Replicas /\ a.pos <= received[a.server]
  BY DEF SlotsHeld
<1>4. /\ SlotsOf(c, r) \in SUBSET {1} /\ EmptySlots(c) \in SUBSET {1}
      /\ 1 \in SlotsOf(c, r) <=> (a.pos # 0 /\ a.server = r)
      /\ 1 \in EmptySlots(c) <=> a.pos = 0
  BY <1>1 DEF SlotsOf, EmptySlots, SlotsWhere
<1>5. CASE p <= c.greatest
  BY <1>5 DEF Insert
<1>6. CASE ~(p <= c.greatest) /\ SlotsOf(c, r) # {}
  <2> DEFINE k == [c EXCEPT !.slots[1].pos = p]
  <2>1. LastOf(SlotsOf(c, r)) = 1 /\ 1 \in SlotsOf(c, r)
    BY <1>1, <1>4, <1>6
  <2>2. ins = [container |-> k, report |-> 0]
    BY <1>6, <2>1 DEF Insert
  <2>3. k.slots = [c.slots EXCEPT ![1] = [a EXCEPT !.pos = p]]
    BY DEF Containers
  <2>4. Len(k.slots) = 1 /\ k.slots[1] = [a EXCEPT !.pos = p]
    <3>1. [a EXCEPT !.pos = p] \in Slots
      BY <1>1 DEF Slots
    <3>2. c.slots \in Seq(Slots)
      BY DEF Containers
    <3> HIDE DEF a
    <3> QED BY <1>1, <2>3, <3>1, <3>2
  <2>5. k.slots[1].server = r /\ k.slots[1].pos = p
    BY <1>1, <1>4, <2>1, <2>4 DEF Slots
  <2> HIDE DEF k
  <2>6. SlotsHeld(k)
    BY <2>4, <2>5, OnlySlotHeld
  <2> QED BY <2>2, <2>6
<1>7. CASE ~(p <= c.greatest) /\ SlotsOf(c, r) = {} /\ EmptySlots(c) # {}
  <2> DEFINE k == Store(c, r, p)
  <2>1. LastOf(EmptySlots(c)) = 1
    BY <1>1, <1>4, <1>7
  <2>2. ins = [container |-> k, report |-> 0]
    BY <1>7 DEF Insert
  <2>3. k.slots = [c.slots EXCEPT ![1] = Ack(r, p)]
    BY <2>1 DEF Containers, Store
  <2>4. Len(k.slots) = 1 /\ k.slots[1] = Ack(r, p)
    <3>1. c.slots \in Seq(Slots)
      BY DEF Containers
    <3> QED BY <1>1, <2>3, <3>1
  <2> HIDE DEF k
  <2>5. SlotsHeld(k)
    BY <2>4, OnlySlotHeld DEF Ack
  <2> QED BY <2>2, <2>5
<1>8. CASE ~(p <= c.greatest) /\ SlotsOf(c, r) = {} /\ EmptySlots(c) = {}
  <2> DEFINE smaller == SlotsWhere(c, LAMBDA x : x.pos < p)
  <2>1. a.pos # 0 /\ a.server # r /\ a.server \in Replicas
        /\ a.pos <= received[a.server]
    BY <1>3, <1>4, <1>8
  <2>2. smaller \in SUBSET {1} /\ (1 \in smaller <=> a.pos < p)
    BY <1>1 DEF SlotsWhere
  <2>3. MinAck(c, p) = IF smaller = {} THEN 0 ELSE LastOf(smaller)
    BY DEF MinAck
  <2> HIDE DEF smaller
  <2>4. CASE a.pos < p
    <3> DEFINE k == Reported(c, a.pos)
               l == Store(k, r, p)
    <3>1. MinAck(c, p) = 1
      BY <1>1, <2>2, <2>3, <2>4
    <3>2. ins = [container |-> l, report |-> a.pos]
      BY <1>8, <3>1 DEF Insert
    <3>3. k \in Containers /\ Len(k.slots) = 1 /\ k.slots[1] = EmptySlot
      BY <1>1, <1>2, ReportedType DEF Reported, Slots
    <3> HIDE DEF k
    <3>4. DOMAIN k.slots = {1} /\ EmptySlots(k) = {1}
      BY <3>3, OneSlot DEF EmptySlots, SlotsWhere, EmptySlot
    <3>5. l.slots = [k.slots EXCEPT ![1] = Ack(r, p)]
      BY <3>3, <3>4, OneSlot DEF Containers, Store
    <3>6. Len(l.slots) = 1 /\ l.slots[1] = Ack(r, p)
      <4>1. k.slots \in Seq(Slots)
        BY <3>3 DEF Containers
      <4> QED BY <3>3, <3>4, <3>5, <4>1
    <3> HIDE DEF l
    <3>7. SlotsHeld(l)
      BY <3>6, OnlySlotHeld DEF Ack
    <3>8. HeldBy(a.pos, 2) /\ a.pos <= received[r]
      BY <1>2, <2>1, <2>4, HeldByTwo
    <3> QED BY <3>2, <3>7, <3>8
  <2>5. CASE ~(a.pos < p)
    <3> DEFINE k == Reported(c, p)
    <3>1. MinAck(c, p) = 0
      BY <2>2, <2>3, <2>5
    <3>2. ins = [container |-> k, report |-> p]
      BY <1>8, <3>1 DEF Insert
    <3>3. Len(k.slots) = 1 /\ (k.slots[1] = EmptySlot \/ k.slots[1] = a)
      BY <1>1, ReportedType DEF Reported
    <3> HIDE DEF k
    <3>4. SlotsHeld(k)
      BY <1>3, <3>3, OnlySlotHeld DEF EmptySlot
    <3>5. HeldBy(p, 2)
      BY <1>2, <2>1, <2>5, HeldByTwo
    <3> QED BY <3>2, <3>4, <3>5
  <2> QED BY <2>4, <2>5
<1> QED BY <1>5, <1>6, <1>7, <1>8

(* After resizing for n replicas, what is reported is on n of them. *)
LEMMA ResizeHeld ==
  ASSUME OneOrTwo, ReplicaTypes, NEW c \in Containers, NEW m \in WaitCounts,
         Len(c.slots) = m - 1, SlotsHeld(c), NEW n \in WaitCounts, n # m
  PROVE  LET res == Resize(c, n)
         IN  /\ SlotsHeld(res.container)
             /\ res.report # 0 =>
                  HeldBy(res.report, n) /\ \E r \in Replicas : res.report <= received[r]
<1>1. (m = 1 /\ n = 2) \/ (m = 2 /\ n = 1)
  BY DEF OneOrTwo
<1> DEFINE first == Emptied(c, n)
<1>2. Resize(c, n) = Reinserted(c, n)[Len(c.slots)]
  BY <1>1 DEF Resize
<1>3. /\ Reinserted(c, n)[0] = first
      /\ \A i \in 1 .. Len(c.slots) :
           Reinserted(c, n)[i] = Reinsert(Reinserted(c, n)[i - 1], c.slots[i])
  BY ReinsertedType, CountsAreNumbers
<1>4. first \in Partial(n)
  BY EmptiedType, CountsAreNumbers
<1>5. CASE m = 1 /\ n = 2
  <2>1. Resize(c, n) = first
    BY <1>2, <1>3, <1>5
  <2>2. first.report = 0
    BY DEF Emptied
  <2>3. Len(first.container.slots) = 1
    BY <1>4, <1>5 DEF Partial
  <2>4. first.container.slots = [i \in 1 .. 2 - 1 |-> EmptySlot]
    BY <1>5 DEF Emptied, NewContainer
  <2>5. first.container.slots[1].pos = 0
    BY <2>4 DEF EmptySlot
  <2> HIDE DEF first
  <2>6. SlotsHeld(first.container)
    BY <2>3, <2>5, OnlySlotHeld
  <2> QED BY <2>1, <2>2, <2>6
<1>6. CASE m = 2 /\ n = 1
  <2> DEFINE a == c.slots[1]
             ins == Insert(first.container, a.server, a.pos)
             res == Resize(c, n)
  <2>1. Len(c.slots) = 1
    BY <1>6
  <2>2. res = Reinsert(first, a)
    BY <1>2, <1>3, <2>1
  <2>3. res = [container |-> ins.container,
               report |-> IF ins.report = 0 /\ first.report = 0
                          THEN 0 ELSE ins.container.greatest]
    BY <2>2 DEF Reinsert
  <2>4. first.report = 0
    BY DEF Emptied
  <2>5. first.container \in Containers /\ Len(first.container.slots) = 0
    BY <1>4, <1>6 DEF Partial
  <2>6. a \in Slots /\ a.server \in Replicas \cup {NoServer} /\ a.pos \in Positions
    <3>1. a \in Slots
      BY <2>1, OneSlot
    <3> QED BY <3>1 DEF Slots
  <2>7. a.pos # 0 => a.server \in Replicas /\ a.pos <= received[a.server]
    BY <2>1 DEF SlotsHeld
  <2> HIDE DEF a, first
  <2>8. ins.report # 0 => a.pos # 0 /\ ins.container.greatest = a.pos
    BY <2>5, <2>6, InsertNoSlot
  <2>9. Len(ins.container.slots) = 0
    BY <2>5, <2>6, InsertType
  <2> HIDE DEF ins, res
  <2>10. SlotsHeld(res.container)
    BY <2>3, <2>9 DEF SlotsHeld
  <2>11. ASSUME res.report # 0
         PROVE  HeldBy(res.report, n) /\ \E r \in Replicas : res.report <= received[r]
    <3>1. res.report = a.pos /\ a.pos # 0
      BY <2>3, <2>4, <2>8, <2>11
    <3>2. a.server \in Replicas /\ a.pos <= received[a.server]
      BY <2>7, <3>1
    <3>3. a.pos \in Nat /\ received[a.server] \in Nat
      <4>1. \A r \in Replicas : received[r] \in Nat
        BY DEF ReplicaTypes, Start
      <4> QED BY <2>6, <3>2, <4>1, PositionsAreNumbers
    <3>4. HeldBy(a.pos, 1)
      BY <3>2, <3>3, HeldByOne
    <3> QED BY <3>1, <3>2, <3>4, <1>6
  <2> QED BY <2>10, <2>11 DEF res
<1> QED BY <1>1, <1>5, <1>6

(* reportReplyBinlog of a position that is on enough replicas. *)
LEMMA ReportReplyHeld ==
  ASSUME WInv, NEW m \in SemiStates, NEW a \in [Sessions -> WaitCounts \cup {0}],
         AcksCount(m, a), NEW p \in Positions, p <= flushed, HeldBy(p, m.count)
  PROVE  AcksCount(ReportReply(m, p), a) /\ CaughtUp(m, ReportReply(m, p))
<1> DEFINE r == ReportReply(m, p)
           most == IF p < m.reply THEN m.reply ELSE p
<1>1. /\ r \in SemiStates /\ r.enabled = m.enabled /\ r.count = m.count
      /\ r.container = m.container /\ r.commit = m.commit
      /\ ~m.enabled => r = m
      /\ m.enabled => r.on = (m.on \/ p >= m.commit) /\ r.reply = most
  BY ReportReplyIs
<1>2. /\ p \in Nat /\ flushed \in Nat /\ m.reply \in Nat /\ m.commit \in Nat
      /\ \A s \in Sessions : pos[s] \in Nat /\ a[s] \in Nat
  <2>1. m.reply \in Positions /\ m.commit \in Positions
    BY DEF SemiStates
  <2>2. \A s \in Sessions : pos[s] \in Positions
    BY DEF WInv, SessionTypes
  <2>3. \A s \in Sessions : a[s] \in Nat
    <3>1. \A n \in WaitCounts \cup {0} : n \in Nat
      BY CountsAreNumbers
    <3> QED BY <3>1
  <2>4. flushed \in Nat
    BY DEF WInv, SessionTypes, Start
  <2> QED BY <2>1, <2>2, <2>3, <2>4, PositionsAreNumbers
<1>3. m.count \in Nat
  BY SemiSyncAssumption DEF SemiStates
<1> HIDE DEF r
<1>4. ReplyHeld(r, a)
  <2>1. CASE ~m.enabled
    BY <1>1, <2>1 DEF AcksCount
  <2>2. CASE m.enabled
    <3>1. r.reply = most /\ r.reply <= flushed
      BY <1>1, <1>2, <2>2 DEF AcksCount, ReplyHeld
    <3>2. ASSUME NEW s \in Sessions, pc[s] # "idle"
          PROVE  /\ pos[s] # 0 /\ a[s] <= r.count
                 /\ pos[s] <= r.reply => HeldBy(pos[s], a[s])
      <4>1. /\ pos[s] # 0 /\ a[s] <= m.count
            /\ pos[s] <= m.reply => HeldBy(pos[s], a[s])
        BY <3>2 DEF AcksCount, ReplyHeld
      <4>2. pos[s] <= p => HeldBy(pos[s], a[s])
        BY <1>2, <1>3, <4>1, HeldEarlier DEF WInv
      <4> QED BY <1>1, <1>2, <3>1, <4>1, <4>2
    <3> QED BY <3>1, <3>2 DEF ReplyHeld
  <2> QED BY <2>1, <2>2 DEF SemiStates
<1>5. AcksCount(r, a)
  BY <1>1, <1>4 DEF AcksCount, CommitIsEnd
<1>6. CaughtUp(m, r)
  <2>1. SUFFICES ASSUME ~m.on, r.on, m.enabled, m.commit # 0
                 PROVE  HeldBy(flushed, r.count)
    BY DEF CaughtUp
  <2>2. p >= m.commit /\ m.commit = flushed
    BY <1>1, <2>1 DEF AcksCount, CommitIsEnd
  <2>3. flushed <= p
    BY <1>2, <2>2
  <2> QED BY <1>1, <1>2, <1>3, <2>3, HeldEarlier DEF WInv
<1> QED BY <1>5, <1>6 DEF r

(* Nothing but the container has changed. *)
LEMMA WithContainerHeld ==
  ASSUME NEW m, NEW k, NEW a, AcksCount(m, a), SlotsHeld(k.container),
         k.reply = m.reply, k.commit = m.commit, k.enabled = m.enabled,
         \A s \in Sessions : pc[s] # "idle" => a[s] <= k.count
  PROVE  AcksCount(k, a)
BY DEF AcksCount, ReplyHeld, CommitIsEnd

(* handleAck. *)
LEMMA HandleAckHeld ==
  ASSUME OneOrTwo, AInv, NEW r \in Replicas, NEW p \in Positions, p <= received[r]
  PROVE  LET k == HandleAck(semi, r, p)
         IN  AcksCount(k, asked) /\ CaughtUp(semi, k)
<1> DEFINE k == HandleAck(semi, r, p)
           ins == Insert(semi.container, r, p)
           kept == [semi EXCEPT !.container = ins.container]
<1>1. /\ semi \in SemiStates /\ semi.container \in Containers
      /\ semi.count \in WaitCounts
      /\ Len(semi.container.slots) = semi.count - 1
      /\ WInv /\ ReplicaTypes /\ AcksCount(semi, asked)
      /\ asked \in [Sessions -> WaitCounts \cup {0}]
  BY DEF AInv, WInv, SemiType, SemiStates, SessionTypes
<1>2. /\ p \in Nat /\ flushed \in Nat /\ received[r] \in Nat
      /\ received[r] <= flushed
  <2>1. flushed \in Nat /\ received[r] \in Nat
    BY DEF AInv, WInv, SessionTypes, ReplicaTypes, Start
  <2> QED BY <2>1, PositionsAreNumbers DEF AInv, Received
<1>3. CASE semi.count = 1
  <2>1. k = ReportReply(semi, p)
    BY <1>3 DEF HandleAck
  <2>2. HeldBy(p, semi.count) /\ p <= flushed
    BY <1>2, <1>3, HeldByOne
  <2> HIDE DEF k
  <2>3. AcksCount(k, asked) /\ CaughtUp(semi, k)
    BY <1>1, <2>1, <2>2, ReportReplyHeld
  <2> QED BY <2>3 DEF k
<1>4. CASE semi.count = 2
  <2>1. /\ SlotsHeld(ins.container)
        /\ ins.report # 0 => HeldBy(ins.report, 2) /\ ins.report <= received[r]
    <3>1. SlotsHeld(semi.container) /\ Len(semi.container.slots) = 1
      BY <1>1, <1>4 DEF AcksCount
    <3> QED BY <1>1, <3>1, InsertOneSlot
  <2>2. ins.report \in Positions /\ ins.container \in Containers
    BY <1>1, InsertType
  <2>3. k = IF ins.report = 0 THEN kept ELSE ReportReply(kept, ins.report)
    BY <1>4 DEF HandleAck
  <2> HIDE DEF ins, k
  <2>4. /\ kept \in SemiStates /\ kept.container = ins.container
        /\ kept.on = semi.on /\ kept.count = semi.count /\ kept.reply = semi.reply
        /\ kept.commit = semi.commit /\ kept.enabled = semi.enabled
    BY <1>1, <2>2 DEF SemiStates
  <2> HIDE DEF kept
  <2>5. AcksCount(kept, asked)
    <3>1. \A s \in Sessions : pc[s] # "idle" => asked[s] <= kept.count
      BY <1>1, <2>4 DEF AcksCount, ReplyHeld
    <3> QED BY <1>1, <2>1, <2>4, <3>1, WithContainerHeld
  <2>6. CASE ins.report = 0
    BY <2>3, <2>4, <2>5, <2>6 DEF CaughtUp, k
  <2>7. CASE ins.report # 0
    <3>1. ins.report <= flushed
      <4>1. ins.report \in Nat /\ ins.report <= received[r]
        BY <2>1, <2>2, <2>7, PositionsAreNumbers
      <4> QED BY <4>1, <1>2
    <3>2. AcksCount(k, asked) /\ CaughtUp(kept, k)
      BY <1>1, <1>4, <2>1, <2>2, <2>3, <2>4, <2>5, <2>7, <3>1, ReportReplyHeld
    <3> QED BY <2>4, <3>2 DEF CaughtUp, k
  <2> QED BY <2>6, <2>7
<1> QED BY <1>1, <1>3, <1>4 DEF OneOrTwo

-----------------------------------------------------------------------------
(* One lemma per action *)

(* The sessions, the log and the replicas stay as they are. *)
LEMMA AcksStay ==
  ASSUME AInv, AcksCount(semi', asked'), WInv',
         UNCHANGED <<flushed, pc, pos, yes, received>>,
         \A r \in Replicas : \A i \in 1 .. Len(acks'[r]) : acks'[r][i] <= received[r]
  PROVE  AInv'
<1>1. Received'
  BY DEF AInv, Received
<1>2. AckedByEnough'
  BY DEF AInv, AckedByEnough, Holders
<1>3. AcksCount(semi, asked)'
  BY DEF AcksCount, SlotsHeld, ReplyHeld, HeldBy, Holders, CommitIsEnd
<1> QED BY <1>1, <1>2, <1>3 DEF AInv

(* The state of the plugin is switched off, or its reply stays as it is. *)
LEMMA OffHeld ==
  ASSUME AInv, NEW k, NEW a, AcksCount(semi, a),
         k.container = semi.container, k.commit = semi.commit,
         k.enabled = semi.enabled, k.count = semi.count,
         k.reply = 0 \/ k.reply = semi.reply
  PROVE  AcksCount(k, a)
<1>1. flushed \in Nat /\ \A s \in Sessions : pos[s] \in Nat
  <2>1. flushed \in Nat /\ \A s \in Sessions : pos[s] \in Positions
    BY DEF AInv, WInv, SessionTypes, Start
  <2> QED BY <2>1, PositionsAreNumbers
<1>2. ReplyHeld(k, a)
  BY <1>1 DEF AcksCount, ReplyHeld
<1> QED BY <1>2 DEF AcksCount, CommitIsEnd

(* What the invariant says, spelt out. *)
LEMMA AInvFacts ==
  ASSUME AInv
  PROVE  /\ WInv /\ Received /\ AcksCount(semi, asked) /\ semi \in SemiStates
         /\ SessionTypes /\ ReplicaTypes
         /\ \A r \in Replicas : received[r] \in Nat
         /\ flushed \in Nat
BY DEF AInv, WInv, SemiType, SessionTypes, ReplicaTypes, Start

(* ReceiveAck preserves the invariant. *)
LEMMA ReceiveAckHeld ==
  ASSUME OneOrTwo, AInv, NEW r \in Replicas, ReceiveAck(r)
  PROVE  AInv' /\ CaughtUp(semi, semi')
<1> DEFINE p == Head(acks[r])
<1>1. acks[r] \in Seq(Positions) /\ acks[r] # << >>
  BY AInvFacts DEF ReplicaTypes, ReceiveAck
<1>2. p \in Positions /\ p = acks[r][1] /\ 1 \in 1 .. Len(acks[r])
  BY <1>1
<1>3. p <= received[r]
  BY <1>2, AInvFacts DEF Received
<1>4. AcksCount(semi', asked) /\ CaughtUp(semi, semi')
  BY <1>2, <1>3, HandleAckHeld DEF ReceiveAck
<1>5. WInv'
  BY ReceiveAckKeeps, AInvFacts
<1>6. ASSUME NEW q \in Replicas, NEW i \in 1 .. Len(acks'[q])
      PROVE  acks'[q][i] <= received[q]
  <2>1. acks \in [Replicas -> Seq(Positions)] /\ acks' = [acks EXCEPT ![r] = Tail(@)]
    BY AInvFacts DEF ReplicaTypes, ReceiveAck
  <2>2. CASE q = r
    <3>1. acks'[q] = Tail(acks[r])
      BY <2>1, <2>2
    <3>2. i + 1 \in 1 .. Len(acks[r]) /\ acks'[q][i] = acks[r][i + 1]
      BY <1>1, <1>6, <3>1
    <3> QED BY <2>2, <3>2, AInvFacts DEF Received
  <2>3. CASE q # r
    <3>1. acks'[q] = acks[q]
      BY <2>1, <2>3
    <3> QED BY <3>1, AInvFacts DEF Received
  <2> QED BY <2>2, <2>3
<1> QED BY <1>4, <1>5, <1>6, AcksStay DEF ReceiveAck, sessionVars

(* DumpStart preserves the invariant. *)
LEMMA DumpStartHeld ==
  ASSUME OneOrTwo, AInv, NEW r \in Replicas, DumpStart(r)
  PROVE  AInv' /\ CaughtUp(semi, semi')
<1>1. received[r] \in Positions /\ received[r] <= received[r]
  BY AInvFacts, SemiSyncAssumption DEF ReplicaTypes, Positions, Start
<1>2. AcksCount(semi', asked) /\ CaughtUp(semi, semi')
  BY <1>1, HandleAckHeld DEF DumpStart
<1>3. WInv'
  BY DumpStartKeeps, AInvFacts
<1>4. \A q \in Replicas : \A i \in 1 .. Len(acks'[q]) : acks'[q][i] <= received[q]
  BY AInvFacts DEF DumpStart, Received
<1> QED BY <1>2, <1>3, <1>4, AcksStay DEF DumpStart, sessionVars

(* DumpEnd preserves the invariant. *)
LEMMA DumpEndHeld ==
  ASSUME AInv, NEW r \in Replicas, DumpEnd(r)
  PROVE  AInv' /\ CaughtUp(semi, semi')
<1>1. semi' = semi \/ semi' = SwitchOff(semi)
  BY DEF DumpEnd
<1>2. AcksCount(semi', asked) /\ (semi'.on => semi.on)
  BY <1>1, AInvFacts, SwitchOffIs, OffHeld
<1>3. WInv'
  BY DumpEndKeeps, AInvFacts
<1>4. ASSUME NEW q \in Replicas, NEW i \in 1 .. Len(acks'[q])
      PROVE  acks'[q][i] <= received[q]
  <2>1. acks' = [acks EXCEPT ![r] = << >>] /\ acks \in [Replicas -> Seq(Positions)]
    BY AInvFacts DEF DumpEnd, ReplicaTypes
  <2>2. q # r
    BY <2>1, <1>4
  <2>3. acks'[q] = acks[q]
    BY <2>1, <2>2
  <2> QED BY <2>3, AInvFacts DEF Received
<1>5. CaughtUp(semi, semi')
  BY <1>2 DEF CaughtUp
<1> QED BY <1>2, <1>3, <1>4, <1>5, AcksStay DEF DumpEnd, sessionVars

(* One more transaction is on one more replica. *)
LEMMA SendHeld ==
  ASSUME AInv, NEW r \in Replicas, Send(r)
  PROVE  AInv'
<1>1. /\ \A q \in Replicas : /\ received[q] \in Nat /\ received'[q] \in Nat
                             /\ received[q] <= received'[q]
                             /\ received'[q] <= flushed
      /\ received'[r] = received[r] + 1
  BY AInvFacts DEF Send, ReplicaTypes, Received
<1>2. WInv'
  BY SendKeeps, AInvFacts
<1>3. UNCHANGED <<semi, flushed, pc, pos, asked, yes>>
  BY DEF Send, sessionVars
<1>4. Received'
  <2>1. ASSUME NEW q \in Replicas, NEW i \in 1 .. Len(acks'[q])
        PROVE  acks'[q][i] <= received'[q]
    <3>1. acks \in [Replicas -> Seq(Positions)]
          /\ acks[q] \in Seq(Positions) /\ acks[r] \in Seq(Positions)
      BY AInvFacts DEF ReplicaTypes
    <3>2. CASE i \in 1 .. Len(acks[q]) /\ acks'[q][i] = acks[q][i]
      <4>1. acks[q][i] \in Nat
        <5>1. acks[q][i] \in Positions
          BY <3>1, <3>2
        <5> QED BY <5>1, PositionsAreNumbers
      <4>2. acks[q][i] <= received[q]
        BY <3>2, AInvFacts DEF Received
      <4> QED BY <1>1, <3>2, <4>1, <4>2
    <3>3. CASE q = r /\ acks'[q][i] = received[r] + 1
      BY <1>1, <3>3
    <3>4. CASE acks'[q] = acks[q]
      BY <2>1, <3>2, <3>4
    <3>5. CASE q = r /\ acks'[q] = Append(acks[q], received[r] + 1)
      <4>1. Len(acks'[q]) = Len(acks[q]) + 1 /\ Len(acks[q]) \in Nat
        BY <3>1, <3>5
      <4>2. CASE i = Len(acks[q]) + 1
        BY <3>1, <3>3, <3>5, <4>2
      <4>3. CASE i # Len(acks[q]) + 1
        <5>1. i \in 1 .. Len(acks[q])
          BY <2>1, <4>1, <4>3
        <5> QED BY <3>1, <3>2, <3>5, <5>1
      <4> QED BY <4>2, <4>3
    <3>6. acks' = [acks EXCEPT ![r] = IF AckRequested(received[r] + 1)
                                      THEN Append(@, received[r] + 1) ELSE @]
      BY DEF Send
    <3> QED BY <3>1, <3>4, <3>5, <3>6
  <2> QED BY <1>1, <1>3, <2>1 DEF Received
<1>5. \A p \in Nat : Holders(p) \subseteq Holders(p)'
  BY <1>1 DEF Holders
<1>6. \A p \in Nat : Cardinality(Holders(p)) <= Cardinality(Holders(p)')
                    /\ Cardinality(Holders(p)) \in Nat
                    /\ Cardinality(Holders(p)') \in Nat
  <2>1. \A p \in Nat : Holders(p)' \in SUBSET Replicas /\ Holders(p) \in SUBSET Replicas
    BY DEF Holders
  <2> QED BY <2>1, <1>5, HoldersFinite, FS_Subset
<1>7. \A p \in Nat : \A n \in Nat : HeldBy(p, n) => HeldBy(p, n)'
  BY <1>6 DEF HeldBy
<1>8. ReplyHeld(semi, asked)'
  <2>1. \A s \in Sessions : pos[s] \in Nat /\ asked[s] \in Nat
    <3>1. \A s \in Sessions : pos[s] \in Positions /\ asked[s] \in WaitCounts \cup {0}
      BY AInvFacts DEF SessionTypes
    <3>2. \A n \in WaitCounts \cup {0} : n \in Nat
      BY CountsAreNumbers
    <3> QED BY <3>1, <3>2, PositionsAreNumbers
  <2>2. ReplyHeld(semi, asked)
    BY AInvFacts DEF AcksCount
  <2> QED BY <1>3, <1>7, <2>1, <2>2 DEF ReplyHeld
<1>9. SlotsHeld(semi.container)'
  <2>1. semi.container \in Containers
    BY AInvFacts DEF SemiStates
  <2>2. \A i \in 1 .. Len(semi.container.slots) : semi.container.slots[i].pos \in Nat
    BY <2>1, SlotsAreFunctions, PositionsAreNumbers
  <2>3. SlotsHeld(semi.container)
    BY AInvFacts DEF AcksCount
  <2> QED BY <1>1, <1>3, <2>2, <2>3, SMTT(40) DEF SlotsHeld
<1>10. AckedByEnough'
  <2>1. yes.pos \in Nat /\ yes.asked \in Nat
    <3>1. yes.pos \in Positions /\ yes.asked \in WaitCounts \cup {0}
      BY AInvFacts DEF SessionTypes
    <3>2. \A n \in WaitCounts \cup {0} : n \in Nat
      BY CountsAreNumbers
    <3> QED BY <3>1, <3>2, PositionsAreNumbers
  <2>2. HeldBy(yes.pos, yes.asked)
    BY DEF AInv, AckedByEnough, HeldBy
  <2>3. \A p, n : p = yes.pos /\ n = yes.asked => HeldBy(p, n)'
    BY <1>7, <2>1, <2>2
  <2> QED BY <1>3, <2>3 DEF AckedByEnough, HeldBy
<1>11. CommitIsEnd(semi)'
  BY <1>3, AInvFacts DEF AcksCount, CommitIsEnd
<1> QED BY <1>2, <1>4, <1>8, <1>9, <1>10, <1>11 DEF AInv, AcksCount

(* Flush preserves the invariant. *)
LEMMA FlushHeld ==
  ASSUME AInv, NEW G \in SUBSET Sessions, Flush(G)
  PROVE  AInv' /\ (semi'.on => semi.on)
<1>1. /\ SessionTypes' /\ flushed' > flushed /\ yes' = yes
      /\ \A s \in G : pos'[s] > flushed /\ asked'[s] = semi.count
      /\ \A s \in Sessions \ G : /\ pc'[s] = pc[s] /\ pos'[s] = pos[s]
                                  /\ asked'[s] = asked[s]
  BY AInvFacts, FlushIs DEF WInv
<1>2. WInv'
  BY AInvFacts, FlushKeeps
<1>3. flushed' \in Positions /\ flushed' \in Nat /\ flushed \in Nat
  BY <1>1, AInvFacts, SemiSyncAssumption DEF SessionTypes, Positions, Start
<1>4. /\ semi'.container = semi.container /\ semi'.count = semi.count
      /\ semi'.enabled = semi.enabled /\ (semi'.on => semi.on)
      /\ semi'.reply = 0 \/ semi'.reply = semi.reply
      /\ semi'.commit = IF semi.enabled THEN flushed' ELSE semi.commit
  <2>1. CASE semi' = WriteTranx(semi, flushed')
    BY <1>3, <2>1, AInvFacts, WriteTranxIs
  <2>2. CASE semi.on /\ semi' = SwitchOff([semi EXCEPT !.commit = flushed'])
    <3> DEFINE k == [semi EXCEPT !.commit = flushed']
    <3>1. /\ k \in SemiStates /\ k.count = semi.count /\ k.commit = flushed'
          /\ k.enabled = semi.enabled /\ k.container = semi.container
      BY <1>3, AInvFacts DEF SemiStates
    <3>2. semi.enabled
      BY <2>2 DEF AInv, WInv, SemiType
    <3>3. semi' = SwitchOff(k)
      BY <2>2
    <3> HIDE DEF k
    <3> QED BY <3>1, <3>2, <3>3, SwitchOffIs
  <2> QED BY <2>1, <2>2 DEF Flush
<1>5. UNCHANGED <<received, acks>>
  BY DEF Flush, replicaVars
<1>6. Received'
  BY <1>1, <1>3, <1>5, AInvFacts DEF Received
<1>7. semi.reply \in Nat /\ semi.reply <= flushed /\ semi.count \in Nat
      /\ ReplyHeld(semi, asked)
  BY AInvFacts, PositionsAreNumbers, CountsAreNumbers
     DEF AcksCount, ReplyHeld, SemiStates
<1>8. \A s \in Sessions : pos'[s] \in Nat /\ pos[s] \in Nat
  <2>1. \A s \in Sessions : pos'[s] \in Positions /\ pos[s] \in Positions
    BY <1>1, AInvFacts DEF SessionTypes
  <2> QED BY <2>1, PositionsAreNumbers
<1>9. \A p, n : HeldBy(p, n) <=> HeldBy(p, n)'
  BY <1>5 DEF HeldBy, Holders
<1>10. ReplyHeld(semi, asked)'
  <2>1. semi'.reply <= flushed'
    BY <1>1, <1>3, <1>4, <1>7
  <2>2. ASSUME NEW s \in Sessions, pc'[s] # "idle"
        PROVE  /\ pos'[s] # 0 /\ asked'[s] <= semi'.count
               /\ pos'[s] <= semi'.reply => HeldBy(pos[s], asked[s])'
    <3>1. CASE s \in G
      <4>1. pos'[s] > flushed /\ asked'[s] = semi.count
        BY <1>1, <3>1
      <4>2. ~(pos'[s] <= semi'.reply)
        BY <1>3, <1>4, <1>7, <1>8, <4>1
      <4> QED BY <1>3, <1>4, <1>7, <1>8, <4>1, <4>2
    <3>2. CASE s \notin G
      <4>1. pc[s] # "idle" /\ pos'[s] = pos[s] /\ asked'[s] = asked[s]
        BY <1>1, <2>2, <3>2
      <4>2. /\ pos[s] # 0 /\ asked[s] <= semi.count
            /\ pos[s] <= semi.reply => HeldBy(pos[s], asked[s])
        BY <1>7, <4>1 DEF ReplyHeld
      <4>3. pos'[s] <= semi'.reply => pos[s] <= semi.reply
        BY <1>4, <1>7, <1>8, <4>1, <4>2
      <4>4. HeldBy(pos[s], asked[s]) => HeldBy(pos[s], asked[s])'
        BY <4>1, <1>5 DEF HeldBy, Holders
      <4> QED BY <1>4, <4>1, <4>2, <4>3, <4>4
    <3> QED BY <3>1, <3>2
  <2> QED BY <2>1, <2>2 DEF ReplyHeld
<1>11. SlotsHeld(semi.container)'
  BY <1>4, <1>5, AInvFacts DEF AcksCount, SlotsHeld
<1>12. CommitIsEnd(semi)'
  BY <1>4, AInvFacts DEF AcksCount, CommitIsEnd
<1>13. AckedByEnough'
  BY <1>1, <1>5 DEF AInv, AckedByEnough, Holders
<1> QED BY <1>2, <1>4, <1>6, <1>10, <1>11, <1>12, <1>13 DEF AInv, AcksCount

(* What a round of commitTrx does to one session and to the count. *)
LEMMA WaitOrLeaveIs ==
  ASSUME NEW s \in Sessions, NEW m \in SemiStates, pos[s] \in Positions, NEW e,
         WaitOrLeave(s, m, e)
  PROVE  /\ semi'.container = m.container /\ semi'.count = m.count
         /\ semi'.enabled = m.enabled /\ semi'.commit = m.commit
         /\ semi'.on => m.on
         /\ semi'.reply = 0 \/ semi'.reply = m.reply
         /\ \/ /\ pc' = [pc EXCEPT ![s] = "idle"] /\ pos' = [pos EXCEPT ![s] = 0]
               /\ asked' = [asked EXCEPT ![s] = 0]
               /\ \/ yes' = yes
                  \/ m.reply >= pos[s] /\ yes' = [pos |-> pos[s], asked |-> asked[s]]
            \/ pc' = [pc EXCEPT ![s] = "waiting"] /\ UNCHANGED <<pos, asked, yes>>
<1> DEFINE k == UpdateWait(m, pos[s])
<1>1. /\ k \in SemiStates /\ k.container = m.container /\ k.count = m.count
      /\ k.enabled = m.enabled /\ k.commit = m.commit /\ k.on = m.on
      /\ k.reply = m.reply
  BY UpdateWaitIs
<1>2. \/ Leave(s, m, e, FALSE)
      \/ Leave(s, m, e, TRUE) /\ m.reply >= pos[s]
      \/ Leave(s, SwitchOff(k), e, FALSE)
      \/ /\ semi' = [k EXCEPT !.signalled = @ \ {s}]
         /\ pc' = [pc EXCEPT ![s] = "waiting"] /\ UNCHANGED <<pos, asked, yes>>
  BY DEF WaitOrLeave
<1> HIDE DEF k
<1>3. CASE Leave(s, m, e, FALSE)
  <2>1. /\ semi'.enabled = m.enabled /\ semi'.on = m.on
        /\ semi'.count = m.count /\ semi'.container = m.container
        /\ semi'.commit = m.commit /\ semi'.reply = m.reply
    BY <1>3, LeaveIs
  <2>2. /\ pc' = [pc EXCEPT ![s] = "idle"] /\ pos' = [pos EXCEPT ![s] = 0]
        /\ asked' = [asked EXCEPT ![s] = 0] /\ yes' = yes
    BY <1>3 DEF Leave
  <2> QED BY <2>1, <2>2
<1>4. CASE Leave(s, m, e, TRUE) /\ m.reply >= pos[s]
  <2>1. /\ semi'.enabled = m.enabled /\ semi'.on = m.on
        /\ semi'.count = m.count /\ semi'.container = m.container
        /\ semi'.commit = m.commit /\ semi'.reply = m.reply
    BY <1>4, LeaveIs
  <2>2. /\ pc' = [pc EXCEPT ![s] = "idle"] /\ pos' = [pos EXCEPT ![s] = 0]
        /\ asked' = [asked EXCEPT ![s] = 0]
        /\ yes' = [pos |-> pos[s], asked |-> asked[s]]
    BY <1>4 DEF Leave
  <2> QED BY <1>4, <2>1, <2>2
<1>5. CASE Leave(s, SwitchOff(k), e, FALSE)
  <2> DEFINE l == SwitchOff(k)
  <2>1. /\ l \in SemiStates /\ l.container = k.container /\ l.count = k.count
        /\ l.enabled = k.enabled /\ l.commit = k.commit /\ l.on = FALSE
        /\ l.reply = 0
    BY <1>1, SwitchOffIs
  <2> HIDE DEF l
  <2>2. Leave(s, l, e, FALSE)
    BY <1>5 DEF l
  <2>3. /\ semi'.enabled = l.enabled /\ semi'.on = l.on
        /\ semi'.count = l.count /\ semi'.container = l.container
        /\ semi'.commit = l.commit /\ semi'.reply = l.reply
    BY <2>1, <2>2, LeaveIs
  <2> QED BY <1>1, <2>1, <2>2, <2>3 DEF Leave
<1>6. CASE /\ semi' = [k EXCEPT !.signalled = @ \ {s}]
           /\ pc' = [pc EXCEPT ![s] = "waiting"] /\ UNCHANGED <<pos, asked, yes>>
  <2>1. /\ semi'.container = k.container /\ semi'.count = k.count
        /\ semi'.enabled = k.enabled /\ semi'.commit = k.commit
        /\ semi'.on = k.on /\ semi'.reply = k.reply
    BY <1>1, <1>6 DEF SemiStates
  <2> QED BY <1>1, <1>6, <2>1
<1> QED BY <1>2, <1>3, <1>4, <1>5, <1>6

(* WaitOrLeave preserves the invariant. *)
LEMMA WaitOrLeaveHeld ==
  ASSUME AInv, WInv', NEW s \in Sessions, pc[s] # "idle", NEW m \in SemiStates,
         m.container = semi.container, m.count = semi.count,
         m.enabled = semi.enabled, m.commit = semi.commit, m.on => semi.on,
         m.reply = 0 \/ m.reply = semi.reply, NEW e, WaitOrLeave(s, m, e),
         UNCHANGED <<flushed, received, acks>>
  PROVE  AInv' /\ (semi'.on => semi.on)
<1>1. /\ \A u \in Sessions : pos[u] \in Nat /\ pos[u] \in Positions
      /\ semi.reply \in Nat /\ flushed \in Nat
  <2>1. /\ \A u \in Sessions : pos[u] \in Positions
        /\ semi.reply \in Positions /\ flushed \in Nat
    BY AInvFacts DEF SessionTypes, SemiStates
  <2> QED BY <2>1, PositionsAreNumbers
<1>2. /\ semi'.container = semi.container /\ semi'.count = semi.count
      /\ semi'.enabled = semi.enabled /\ semi'.commit = semi.commit
      /\ semi'.on => semi.on
      /\ semi'.reply = 0 \/ semi'.reply = semi.reply
  BY <1>1, WaitOrLeaveIs
<1>3. AcksCount(semi', asked)
  BY <1>2, AInvFacts, OffHeld
<1>4. /\ pos[s] # 0
      /\ pos[s] <= semi.reply => HeldBy(pos[s], asked[s])
  BY AInvFacts DEF AcksCount, ReplyHeld
<1>5. \A p, n : HeldBy(p, n) => Cardinality(Holders(p)') >= n
  BY DEF HeldBy, Holders
<1>6. Received'
  BY AInvFacts DEF Received
<1>7. SlotsHeld(semi.container)' /\ CommitIsEnd(semi)'
  BY <1>3 DEF AcksCount, SlotsHeld, CommitIsEnd
<1>8. /\ semi'.reply <= flushed
      /\ \A u \in Sessions : pc[u] # "idle" =>
           /\ pos[u] # 0 /\ asked[u] <= semi'.count
           /\ pos[u] <= semi'.reply => HeldBy(pos[u], asked[u])
  BY <1>3 DEF AcksCount, ReplyHeld
<1>9. ASSUME NEW u \in Sessions, pc'[u] # "idle"
      PROVE  pc[u] # "idle" /\ pos'[u] = pos[u] /\ asked'[u] = asked[u]
  BY <1>1, <1>9, WaitOrLeaveIs, AInvFacts DEF SessionTypes
<1>10. ReplyHeld(semi, asked)'
  <2>1. ASSUME NEW u \in Sessions, pc'[u] # "idle"
        PROVE  /\ pos'[u] # 0 /\ asked'[u] <= semi'.count
               /\ pos'[u] <= semi'.reply => HeldBy(pos[u], asked[u])'
    <3>1. pc[u] # "idle" /\ pos'[u] = pos[u] /\ asked'[u] = asked[u]
      BY <1>9, <2>1
    <3>2. HeldBy(pos[u], asked[u]) => HeldBy(pos[u], asked[u])'
      BY <3>1 DEF HeldBy, Holders
    <3> QED BY <1>8, <3>1, <3>2
  <2> QED BY <1>8, <2>1 DEF ReplyHeld
<1>11. AckedByEnough'
  <2>1. CASE yes' = yes
    BY <2>1 DEF AInv, AckedByEnough, Holders
  <2>2. CASE m.reply >= pos[s] /\ yes' = [pos |-> pos[s], asked |-> asked[s]]
    <3>1. pos[s] <= semi.reply
      BY <1>1, <1>4, <2>2
    <3>2. Cardinality(Holders(pos[s])) >= asked[s]
      BY <1>4, <3>1 DEF HeldBy
    <3>3. yes'.pos = pos[s] /\ yes'.asked = asked[s]
      BY <2>2
    <3> QED BY <3>2, <3>3 DEF AckedByEnough, Holders
  <2> QED BY <1>1, <2>1, <2>2, WaitOrLeaveIs
<1> QED BY <1>2, <1>6, <1>7, <1>10, <1>11 DEF AInv, AcksCount

(* SessionStep preserves the invariant. *)
LEMMA SessionStepHeld ==
  ASSUME AInv, NEW s \in Sessions, CommitTrx(s) \/ WakeUp(s) \/ Timeout(s)
  PROVE  AInv' /\ (semi'.on => semi.on)
<1>1. semi \in SemiStates /\ WInv
  BY AInvFacts
<1>2. WInv'
  BY <1>1, CommitTrxKeeps, WakeUpKeeps, TimeoutKeeps
<1>3. pc[s] # "idle" /\ UNCHANGED <<flushed, received, acks>>
  BY DEF CommitTrx, WakeUp, Timeout, replicaVars
<1>4. CASE CommitTrx(s)
  <2>1. WaitOrLeave(s, semi, FindNode(semi, pos[s]))
    BY <1>4 DEF CommitTrx
  <2> QED BY <1>1, <1>2, <1>3, <2>1, WaitOrLeaveHeld
<1>5. CASE WakeUp(s)
  <2>1. WaitOrLeave(s, semi, entry[s])
    BY <1>5 DEF WakeUp
  <2> QED BY <1>1, <1>2, <1>3, <2>1, WaitOrLeaveHeld
<1>6. CASE Timeout(s)
  <2> DEFINE m == SwitchOff(semi)
  <2>1. WaitOrLeave(s, m, entry[s])
    BY <1>6 DEF Timeout
  <2>2. /\ m \in SemiStates /\ m.container = semi.container
        /\ m.count = semi.count /\ m.enabled = semi.enabled
        /\ m.commit = semi.commit /\ m.on = FALSE /\ m.reply = 0
    BY <1>1, SwitchOffIs
  <2> HIDE DEF m
  <2> QED BY <1>2, <1>3, <2>1, <2>2, WaitOrLeaveHeld
<1> QED BY <1>4, <1>5, <1>6

(* Fewer replicas to wait for ask for less. *)
LEMMA AskedLess ==
  ASSUME AInv, Command, WInv'
  PROVE  /\ AcksCount(semi, asked')
         /\ asked' \in [Sessions -> WaitCounts \cup {0}]
         /\ \A s \in Sessions : asked'[s] <= semi'.count
<1>1. asked' = [s \in Sessions |->
                 IF semi'.count < asked[s] THEN semi'.count ELSE asked[s]]
  BY DEF Command
<1>2. asked' \in [Sessions -> WaitCounts \cup {0}]
  BY DEF WInv, SessionTypes
<1>3. /\ semi'.count \in Nat
      /\ \A s \in Sessions : pos[s] \in Nat /\ asked[s] \in Nat /\ asked'[s] \in Nat
      /\ semi.count \in Nat
  <2>1. \A n \in WaitCounts \cup {0} : n \in Nat
    BY CountsAreNumbers
  <2>2. semi'.count \in WaitCounts /\ semi.count \in WaitCounts
    BY AInvFacts DEF WInv, SemiType, SemiStates
  <2>3. \A s \in Sessions : pos[s] \in Positions /\ asked[s] \in WaitCounts \cup {0}
    BY AInvFacts DEF SessionTypes
  <2> QED BY <1>2, <2>1, <2>2, <2>3, PositionsAreNumbers
<1>4. \A s \in Sessions : asked'[s] <= asked[s] /\ asked'[s] <= semi'.count
  BY <1>1, <1>3
<1>5. ReplyHeld(semi, asked')
  <2>1. ReplyHeld(semi, asked)
    BY AInvFacts DEF AcksCount
  <2>2. ASSUME NEW s \in Sessions, pc[s] # "idle"
        PROVE  /\ pos[s] # 0 /\ asked'[s] <= semi.count
               /\ pos[s] <= semi.reply => HeldBy(pos[s], asked'[s])
    <3>1. /\ pos[s] # 0 /\ asked[s] <= semi.count
          /\ pos[s] <= semi.reply => HeldBy(pos[s], asked[s])
      BY <2>1, <2>2 DEF ReplyHeld
    <3>2. asked'[s] <= semi.count
      BY <1>3, <1>4, <3>1
    <3>3. HeldBy(pos[s], asked[s]) => HeldBy(pos[s], asked'[s])
      BY <1>3, <1>4, AInvFacts, HeldEarlier
    <3> QED BY <3>1, <3>2, <3>3
  <2> QED BY <2>1, <2>2 DEF ReplyHeld
<1> QED BY <1>2, <1>4, <1>5, AInvFacts DEF AcksCount

(* A container that is cleared, or a reply that is, counts for nothing. *)
LEMMA NothingReplied ==
  ASSUME AInv, NEW k, NEW a, AcksCount(semi, a), SlotsHeld(k.container),
         k.reply = 0, k.commit = 0, k.count = semi.count
  PROVE  AcksCount(k, a)
<1>1. flushed \in Nat /\ \A s \in Sessions : pos[s] \in Nat
  <2>1. flushed \in Nat /\ \A s \in Sessions : pos[s] \in Positions
    BY AInvFacts DEF SessionTypes
  <2> QED BY <2>1, PositionsAreNumbers
<1>2. ReplyHeld(k, a)
  BY <1>1 DEF AcksCount, ReplyHeld
<1> QED BY <1>2 DEF AcksCount, CommitIsEnd

(* An empty container claims nothing. *)
LEMMA NewContainerHeld ==
  ASSUME NEW n \in Nat \ {0} PROVE SlotsHeld(NewContainer(n))
<1> DEFINE c == NewContainer(n)
<1>1. Len(c.slots) = n - 1
  BY NewContainerType
<1>2. \A i \in 1 .. n - 1 : c.slots[i] = EmptySlot
  BY DEF NewContainer
<1> HIDE DEF c
<1>3. \A i \in 1 .. Len(c.slots) : c.slots[i].pos = 0
  BY <1>1, <1>2 DEF EmptySlot
<1>4. SlotsHeld(c)
  BY <1>3 DEF SlotsHeld
<1> QED BY <1>4 DEF c

(* SetWaitSlaveCount preserves the invariant. *)
LEMMA SetWaitSlaveCountHeld ==
  ASSUME OneOrTwo, AInv, NEW n \in WaitCounts, SetWaitSlaveCount(n),
         NEW a \in [Sessions -> WaitCounts \cup {0}], AcksCount(semi, a),
         \A s \in Sessions : a[s] <= n
  PROVE  AcksCount(semi', a) /\ CaughtUp(semi, semi')
<1> DEFINE res == Resize(semi.container, n)
           m == [semi EXCEPT !.container = res.container, !.count = n]
<1>1. /\ semi \in SemiStates /\ semi.container \in Containers
      /\ semi.count \in WaitCounts /\ n # semi.count
      /\ Len(semi.container.slots) = semi.count - 1
      /\ SlotsHeld(semi.container) /\ ReplicaTypes
  BY AInvFacts
     DEF AInv, WInv, SemiType, SemiStates, AcksCount, SetWaitSlaveCount
<1>2. /\ SlotsHeld(res.container)
      /\ res.report # 0 =>
           HeldBy(res.report, n) /\ \E r \in Replicas : res.report <= received[r]
  BY <1>1, ResizeHeld
<1>3. res.container \in Containers /\ res.report \in Positions
  BY <1>1, ResizeType, CountsAreNumbers
<1>4. semi' = IF res.report = 0 THEN m ELSE ReportReply(m, res.report)
  BY DEF SetWaitSlaveCount
<1> HIDE DEF res
<1>5. /\ m \in SemiStates /\ m.container = res.container /\ m.count = n
      /\ m.reply = semi.reply /\ m.commit = semi.commit
      /\ m.enabled = semi.enabled /\ m.on = semi.on
  BY <1>1, <1>3 DEF SemiStates
<1> HIDE DEF m
<1>6. AcksCount(m, a)
  BY <1>2, <1>5, WithContainerHeld
<1>7. CASE res.report = 0
  BY <1>4, <1>5, <1>6, <1>7 DEF CaughtUp
<1>8. CASE res.report # 0
  <2>1. res.report <= flushed
    <3>1. PICK r \in Replicas : res.report <= received[r]
      BY <1>2, <1>8
    <3>2. received[r] <= flushed /\ received[r] \in Nat /\ flushed \in Nat
      BY AInvFacts DEF Received
    <3>3. res.report \in Nat
      BY <1>3, PositionsAreNumbers
    <3> QED BY <3>1, <3>2, <3>3
  <2>2. AcksCount(semi', a) /\ CaughtUp(m, semi')
    BY <1>2, <1>3, <1>4, <1>5, <1>6, <1>8, <2>1, AInvFacts, ReportReplyHeld
  <2> QED BY <1>5, <2>2 DEF CaughtUp
<1> QED BY <1>7, <1>8

(* Command preserves the invariant. *)
LEMMA CommandHeld ==
  ASSUME OneOrTwo, AInv, Command
  PROVE  /\ AInv'
         /\ semi'.wait_no_replica = semi.wait_no_replica => CaughtUp(semi, semi')
<1>1. WInv /\ WInv' /\ semi \in SemiStates /\ SemiType(semi) /\ Wakes(semi)
      /\ SessionTypes
  BY AInvFacts, CommandKeeps DEF WInv
<1>2. /\ AcksCount(semi, asked')
      /\ asked' \in [Sessions -> WaitCounts \cup {0}]
      /\ \A s \in Sessions : asked'[s] <= semi'.count
  BY <1>1, AskedLess
<1>3. /\ AcksCount(semi', asked')
      /\ semi'.wait_no_replica = semi.wait_no_replica => CaughtUp(semi, semi')
  <2>1. CASE EnableMaster
    <3> DEFINE b == semi.wait_no_replica \/ clients >= semi.count
    <3>1. semi' = [semi EXCEPT !.enabled = TRUE, !.commit = 0, !.reply = 0,
                              !.wait_inited = FALSE, !.on = b]
      BY <2>1 DEF EnableMaster
    <3> HIDE DEF b
    <3>2. /\ semi'.container = semi.container /\ semi'.reply = 0
          /\ semi'.commit = 0 /\ semi'.count = semi.count
      BY <1>1, <3>1 DEF SemiStates
    <3>3. AcksCount(semi', asked')
      BY <1>2, <3>2, NothingReplied DEF AcksCount
    <3> QED BY <2>1, <3>3 DEF EnableMaster, CaughtUp
  <2>2. CASE DisableMaster
    <3> DEFINE m == SwitchOff(semi)
               c == ClearContainer(semi.container)
    <3>1. m \in SemiStates /\ m.on = FALSE /\ m.reply = 0 /\ m.count = semi.count
      BY <1>1, SwitchOffIs
    <3>2. semi' = [m EXCEPT !.enabled = FALSE, !.commit = 0, !.container = c]
      BY <2>2 DEF DisableMaster
    <3> HIDE DEF m, c
    <3>3. /\ semi'.container = c /\ semi'.reply = 0 /\ semi'.on = FALSE
          /\ semi'.commit = 0 /\ semi'.count = semi.count
      BY <3>1, <3>2 DEF SemiStates
    <3>4. SlotsHeld(c)
      <4> DEFINE n == Len(semi.container.slots) + 1
      <4>1. n \in Nat \ {0}
        BY <1>1, SlotsAreFunctions DEF SemiStates
      <4>2. c = NewContainer(n)
        BY DEF c, ClearContainer
      <4> HIDE DEF n
      <4> QED BY <4>1, <4>2, NewContainerHeld
    <3>5. AcksCount(semi', asked')
      BY <1>2, <3>3, <3>4, NothingReplied
    <3> QED BY <3>3, <3>5 DEF CaughtUp
  <2>3. ASSUME NEW w \in BOOLEAN, SetWaitNoReplica(w)
        PROVE  AcksCount(semi', asked') /\ semi'.wait_no_replica # semi.wait_no_replica
    <3> DEFINE m == [semi EXCEPT !.wait_no_replica = w]
    <3>1. /\ m \in SemiStates /\ m.count = semi.count /\ m.commit = semi.commit
          /\ m.container = semi.container /\ m.enabled = semi.enabled
          /\ m.reply = semi.reply /\ m.wait_no_replica = w
      BY <1>1 DEF SemiStates
    <3>2. /\ w # semi.wait_no_replica
          /\ semi' = IF ~w /\ clients = 0 /\ m.on THEN SwitchOff(m)
                     ELSE IF w /\ m.enabled THEN [m EXCEPT !.on = TRUE] ELSE m
      BY <2>3 DEF SetWaitNoReplica
    <3> HIDE DEF m
    <3>3. /\ semi'.container = m.container /\ semi'.commit = m.commit
          /\ semi'.enabled = m.enabled /\ semi'.count = m.count
          /\ semi'.reply = 0 \/ semi'.reply = m.reply
          /\ semi'.wait_no_replica = w
      <4>1. CASE semi' = SwitchOff(m)
        BY <3>1, <4>1, SwitchOffIs
      <4>2. CASE semi' = [m EXCEPT !.on = TRUE]
        BY <3>1, <4>2 DEF SemiStates
      <4>3. CASE semi' = m
        BY <3>1, <4>3
      <4> QED BY <3>2, <4>1, <4>2, <4>3
    <3>4. AcksCount(semi', asked')
      BY <1>2, <3>1, <3>3, OffHeld
    <3> QED BY <3>2, <3>3, <3>4
  <2>4. ASSUME NEW n \in WaitCounts, SetWaitSlaveCount(n)
        PROVE  AcksCount(semi', asked') /\ CaughtUp(semi, semi')
    <3>1. semi'.count = n
      BY <1>1, <2>4, SetWaitSlaveCountKeeps
    <3> QED BY <1>2, <2>4, <3>1, SetWaitSlaveCountHeld
  <2>5. CASE UNCHANGED semi
    BY <1>2, <2>5 DEF CaughtUp
  <2> QED BY <2>1, <2>2, <2>3, <2>4, <2>5 DEF Command
<1>4. UNCHANGED <<flushed, pc, pos, yes, received, acks>>
  BY DEF Command, replicaVars
<1>5. \A r \in Replicas : \A i \in 1 .. Len(acks'[r]) : acks'[r][i] <= received[r]
  BY <1>4, AInvFacts DEF Received
<1> QED BY <1>1, <1>3, <1>4, <1>5, AcksStay

-----------------------------------------------------------------------------
(* Theorems for one or two replicas to wait for *)

(* The invariant holds at first. *)
LEMMA InitAInv == Init => AInv
<1> SUFFICES ASSUME Init PROVE AInv
  OBVIOUS
<1>1. WInv
  BY InitWInv
<1>2. PICK n \in WaitCounts :
        semi.reply = 0 /\ semi.commit = 0 /\ semi.container = NewContainer(n)
  BY DEF Init
<1>3. SlotsHeld(semi.container)
  BY <1>2, CountsAreNumbers, NewContainerHeld
<1>4. AcksCount(semi, asked)
  BY <1>2, <1>3 DEF Init, AcksCount, ReplyHeld, CommitIsEnd, Start
<1>5. Received
  BY DEF Init, Received, Start
<1>6. AckedByEnough
  <2>1. Cardinality(Holders(0)) \in Nat
    BY HoldersFinite DEF Holders
  <2>2. yes.pos = 0 /\ yes.asked = 0
    BY DEF Init
  <2> QED BY <2>1, <2>2 DEF AckedByEnough
<1> QED BY <1>1, <1>4, <1>5, <1>6 DEF AInv

(* Every step preserves the invariant. *)
LEMMA NextAInv ==
  ASSUME OneOrTwo, AInv, [Next]_vars
  PROVE  /\ AInv'
         /\ semi'.wait_no_replica = semi.wait_no_replica => CaughtUp(semi, semi')
<1>1. CASE UNCHANGED vars \/ AllAtRest
  <2>1. UNCHANGED vars
    BY <1>1 DEF AllAtRest
  <2>2. WInv'
    BY <2>1, AInvFacts, NextWInv
  <2>3. AInv'
    BY <2>1, <2>2
       DEF AInv, vars, sessionVars, replicaVars, Received, AcksCount, SlotsHeld,
           ReplyHeld, CommitIsEnd, HeldBy, Holders, AckedByEnough
  <2> QED BY <2>1, <2>3 DEF CaughtUp, vars
<1>2. CASE \E G \in SUBSET Sessions : Flush(G)
  BY <1>2, FlushHeld DEF CaughtUp
<1>3. CASE \E s \in Sessions : CommitTrx(s) \/ WakeUp(s) \/ Timeout(s)
  BY <1>3, SessionStepHeld DEF CaughtUp
<1>4. CASE \E r \in Replicas : Send(r)
  BY <1>4, SendHeld DEF CaughtUp, Send
<1>5. CASE \E r \in Replicas : ReceiveAck(r) \/ DumpStart(r) \/ DumpEnd(r)
  BY <1>5, ReceiveAckHeld, DumpStartHeld, DumpEndHeld
<1>6. CASE Command
  BY <1>6, CommandHeld
<1> QED BY <1>1, <1>2, <1>3, <1>4, <1>5, <1>6 DEF Next

(***************************************************************************)
(* While rpl_semi_sync_source_wait_for_replica_count is one or two, a      *)
(* transaction that commitTrx counts as semi-synchronous is on as many     *)
(* replicas as were asked for.  With three it need not be: minAck takes    *)
(* the last slot below the new position, not the smallest (run early_ack). *)
(***************************************************************************)
THEOREM AckedByEnoughHolds ==
  ASSUME OneOrTwo PROVE Spec => []AckedByEnough
<1>1. AInv /\ [Next]_vars => AInv'
  BY NextAInv
<1>2. AInv => AckedByEnough
  BY DEF AInv
<1> QED BY InitAInv, <1>1, <1>2, PTL DEF Spec

(***************************************************************************)
(* Under the same condition semi-synchronous replication switches itself   *)
(* on again, in try_switch_on, only once enough replicas have all of the   *)
(* binary log.                                                             *)
(***************************************************************************)
THEOREM OnAgainIsCaughtUpHolds ==
  ASSUME OneOrTwo PROVE Spec => OnAgainIsCaughtUp
<1>1. AInv /\ [Next]_vars => AInv'
  BY NextAInv
<1>2. AInv /\ [Next]_vars =>
        [ /\ ~semi.on /\ semi'.on
          /\ semi.enabled /\ semi'.wait_no_replica = semi.wait_no_replica
          /\ semi.commit # 0
          => Cardinality(Holders(flushed)) >= semi'.count ]_vars
  BY NextAInv DEF CaughtUp, HeldBy
<1> QED BY InitAInv, <1>1, <1>2, PTL DEF Spec, OnAgainIsCaughtUp
=============================================================================
