---------------------------- MODULE LinkBufProofs ----------------------------
(***************************************************************************)
(* The links of the redo log's ring buffer are not lost and its tail is    *)
(* owned by one thread at a time, for any capacity, any number of threads  *)
(* and any lengths of the operations; the tail implements FinishedPrefix.  *)
(***************************************************************************)
EXTENDS LinkBuf, TLAPS

(* In advance_tail_until; after it has read the tail. *)
Advancing == {"load_tail", "load_slot", "lapped", "lock", "confirm", "again",
              "follow", "publish"}
Walking == Advancing \ {"load_tail"}

(* t has reserved a range, and waits for its slot; or has not linked it.   *)
Looking(t) ==
  pc[t] = "look" \/ (pc[t] \in Advancing /\ local[t].task = "space")
Linking(t) == pc[t] \in {"link", "move", "store"}

Op(t) == <<local[t].start, local[t].end>>

(* The range from s to e was reserved. *)
IsOp(s, e) ==
  \/ <<s, e>> \in finished
  \/ \E t \in Threads : Looking(t) /\ local[t].start = s /\ local[t].end = e

(* The ranges that were reserved do not overlap. *)
Apart ==
  /\ \A s, e \in Positions : IsOp(s, e) => s < e /\ e <= sn
  /\ \A s, e, s2, e2 \in Positions :
       IsOp(s, e) /\ IsOp(s2, e2) => \/ s = s2 /\ e = e2
                                     \/ e <= s2 \/ e2 <= s

(* Nobody else has the range that t writes. *)
OwnRange ==
  /\ \A t \in Threads : Looking(t) => Op(t) \notin finished
  /\ \A t \in Threads : Linking(t) => Op(t) \in finished \ linked
  /\ \A t, u \in Threads :
       /\ Looking(t) \/ Linking(t)
       /\ Looking(u) \/ Linking(u)
       /\ local[t].start = local[u].start
       => t = u
  /\ \A t \in Threads : pc[t] = "move" => tail = local[t].start

(* Finished ranges are less than a lap ahead of the tail. *)
InReach == \A s, e \in Positions : <<s, e>> \in finished => s < tail + Capacity

(* What a slot may hold: a link, or what leads nowhere from the tail on.   *)
SlotContents ==
  \A i \in Slots :
    \/ links[i] <= tail /\ SlotIndex(links[i]) = i
    \/ links[i] = 0
    \/ \E s \in Positions : <<s, links[i]>> \in linked /\ SlotIndex(s) = i

(* No operation lies across p. *)
Boundary(p) ==
  p <= sn /\ \A s, e \in Positions : IsOp(s, e) => e <= p \/ p <= s

(* All operations up to p are linked. *)
Passed(p) ==
  /\ Boundary(p)
  /\ \A x \in 0 .. p - 1 :
       \E s, e \in Positions : <<s, e>> \in linked /\ s <= x /\ x < e

(* What a thread in advance_tail_until knows. *)
Knows(place, l) ==
  /\ place \in Walking => l.from <= tail /\ Boundary(l.from)
  /\ place \in {"load_slot", "lapped", "lock", "confirm", "again"} =>
       l.position = l.from
  /\ place = "lapped" =>
       /\ l.next_load >= l.from + Capacity
       /\ tail = l.from => <<l.from, l.next_load>> \in linked
  /\ place \in {"lock", "confirm", "follow", "publish"} =>
       <<l.from, l.next_load>> \in linked /\ l.from < l.next_load
  /\ place \in {"follow", "publish"} =>
       tail = l.from /\ tail < l.position /\ Passed(l.position)

Walks == \A t \in Threads : Knows(pc[t], local[t])

(* t has taken the link at the tail from its slot. *)
Owner(t) ==
  \/ pc[t] \in {"follow", "publish"}
  \/ pc[t] = "confirm" /\ local[t].from = tail

OneOwner ==
  /\ \A t \in Threads : Owner(t) => links[SlotIndex(tail)] <= tail
  /\ \A t, u \in Threads : Owner(t) /\ Owner(u) => t = u

Kept ==
  \A s, e \in Positions :
    <<s, e>> \in linked /\ s > tail => links[SlotIndex(s)] = e

IInv ==
  /\ TypeOK /\ Apart /\ OwnRange /\ InReach /\ SlotContents
  /\ Passed(tail) /\ Walks /\ OneOwner /\ Kept

-----------------------------------------------------------------------------
(* Slots and positions *)

(* Positions a lap apart. *)
LEMMA TimesCapacity ==
  ASSUME NEW m \in Nat, NEW n \in Nat, m < n
  PROVE  Capacity * m + Capacity <= Capacity * n
<1>1. PICK k \in Nat : n = m + 1 + k
  <2>1. n - m - 1 \in Nat /\ n = m + 1 + (n - m - 1)
    OBVIOUS
  <2> QED BY <2>1
<1>2. Capacity * n = Capacity * m + Capacity + Capacity * k
  BY <1>1, LinkBufAssumption
<1>3. Capacity * k \in Nat /\ Capacity * m \in Nat /\ Capacity \in Nat
  BY LinkBufAssumption
<1> QED BY <1>2, <1>3

(* Positions that share a slot are at least a lap apart. *)
LEMMA LapApart ==
  ASSUME NEW a \in Nat, NEW b \in Nat, SlotIndex(a) = SlotIndex(b), a < b
  PROVE  a + Capacity <= b
<1> USE LinkBufAssumption DEF SlotIndex
<1>1. /\ a = Capacity * (a \div Capacity) + (a % Capacity)
      /\ b = Capacity * (b \div Capacity) + (b % Capacity)
      /\ a \div Capacity \in Nat /\ b \div Capacity \in Nat
      /\ a % Capacity \in Nat
  BY SMTT(30)
<1>2. PICK qa \in Nat, qb \in Nat, r \in Nat :
        a = Capacity * qa + r /\ b = Capacity * qb + r
  BY <1>1
<1>3. Capacity * qa \in Nat /\ Capacity * qb \in Nat /\ Capacity \in Nat
  OBVIOUS
<1>4. Capacity * qa < Capacity * qb
  BY <1>2, <1>3
<1>5. qa # qb
  BY <1>3, <1>4
<1>6. ~(qb < qa)
  <2>1. qb < qa => Capacity * qb + Capacity <= Capacity * qa
    BY TimesCapacity
  <2> QED BY <1>3, <1>4, <2>1
<1>7. Capacity * qa + Capacity <= Capacity * qb
  <2>1. qa < qb
    BY <1>5, <1>6
  <2> QED BY <2>1, TimesCapacity
<1> QED BY <1>2, <1>3, <1>7

(* Every position has a slot. *)
LEMMA SlotType ==
  /\ \A p \in Positions : SlotIndex(p) \in Slots /\ p \in Nat
  /\ Capacity \in Nat /\ Capacity >= 1 /\ 0 \in Positions
BY LinkBufAssumption DEF SlotIndex, Slots, Positions

-----------------------------------------------------------------------------
(* Operations *)

(* The invariant holds at first. *)
LEMMA InitIInv == Init => IInv
<1> SUFFICES ASSUME Init PROVE IInv
  OBVIOUS
<1> USE DEF Init
<1>0. 0 \in Nat /\ 0 <= 0 /\ 0 .. 0 - 1 = {}
  OBVIOUS
<1>1. TypeOK
  <2>1. Unset \in Locals
    BY SlotType DEF Unset, Locals
  <2> QED BY <2>1, SlotType DEF TypeOK
<1>2. /\ \A s, e : ~IsOp(s, e)
      /\ \A t \in Threads : ~Looking(t) /\ ~Linking(t) /\ ~Owner(t)
  BY DEF IsOp, Looking, Linking, Owner, Advancing
<1>3. Apart /\ OwnRange /\ InReach /\ OneOwner /\ Kept
  BY <1>2 DEF Apart, OwnRange, InReach, OneOwner, Kept
<1>4. SlotContents
  BY DEF SlotContents
<1>5. Passed(tail)
  BY <1>0, <1>2 DEF Passed, Boundary
<1>6. Walks
  BY DEF Walks, Knows, Walking, Advancing
<1> QED BY <1>1, <1>3, <1>4, <1>5, <1>6 DEF IInv

(* Whatever is reserved later begins at sn. *)
Grows ==
  /\ sn <= sn' /\ linked \subseteq linked'
  /\ \A s, e \in Positions : IsOp(s, e)' => IsOp(s, e) \/ sn <= s

(* Boundaries and passed positions stay what they are. *)
LEMMA BoundaryKept ==
  ASSUME TypeOK, TypeOK', Grows, NEW p \in Positions
  PROVE  /\ Boundary(p) => Boundary(p)'
         /\ Passed(p) => Passed(p)'
<1>1. p \in Nat /\ sn \in Nat /\ sn' \in Nat /\ \A s \in Positions : s \in Nat
  BY SlotType DEF TypeOK
<1>2. ASSUME Boundary(p) PROVE Boundary(p)'
  <2>1. p <= sn'
    BY <1>1, <1>2 DEF Boundary, Grows
  <2>2. ASSUME NEW s \in Positions, NEW e \in Positions, IsOp(s, e)'
        PROVE  e <= p \/ p <= s
    BY <1>1, <1>2, <2>2 DEF Boundary, Grows
  <2> QED BY <2>1, <2>2 DEF Boundary
<1>3. ASSUME Passed(p) PROVE Passed(p)'
  BY <1>2, <1>3 DEF Passed, Grows
<1> QED BY <1>2, <1>3

(* A link leads from one boundary to the next. *)
LEMMA LinkPasses ==
  ASSUME TypeOK, Apart, NEW p \in Positions, NEW e \in Positions, Passed(p),
         <<p, e>> \in linked
  PROVE  p < e /\ Passed(e)
<1>1. \A s \in Positions : s \in Nat
  BY SlotType
<1>2. IsOp(p, e) /\ p < e /\ e <= sn
  BY DEF IsOp, TypeOK, Apart
<1>3. Boundary(e)
  <2>1. ASSUME NEW s \in Positions, NEW f \in Positions, IsOp(s, f)
        PROVE  f <= e \/ e <= s
    BY <1>1, <1>2, <2>1 DEF Apart
  <2> QED BY <1>2, <2>1 DEF Boundary
<1>4. ASSUME NEW x \in 0 .. e - 1
      PROVE  \E s, f \in Positions : <<s, f>> \in linked /\ s <= x /\ x < f
  <2>1. CASE x \in 0 .. p - 1
    BY <2>1 DEF Passed
  <2>2. CASE x \notin 0 .. p - 1
    <3>1. p <= x /\ x < e
      BY <1>1, <2>2
    <3> QED BY <3>1
  <2> QED BY <2>1, <2>2
<1> QED BY <1>2, <1>3, <1>4 DEF Passed

LinksPass ==
  \A p, e \in Positions : Passed(p) /\ <<p, e>> \in linked => Passed(e)

(* Links pass over no boundary in the next state either. *)
LEMMA LinksPassNext == (TypeOK /\ Apart)' => LinksPass'
<1>1. TypeOK /\ Apart => LinksPass
  BY LinkPasses DEF LinksPass
<1> QED BY <1>1, PTL

(***************************************************************************)
(* A link that leads on from a boundary p, less than a lap or read while   *)
(* the tail is not more than a lap behind, is the link of the operation    *)
(* that begins at p.                                                       *)
(***************************************************************************)
LEMMA LinkIsOf ==
  ASSUME IInv, NEW p \in Positions, Boundary(p),
         p < links[SlotIndex(p)],
         \/ links[SlotIndex(p)] < p + Capacity
         \/ tail <= p
  PROVE  <<p, links[SlotIndex(p)]>> \in linked
<1>1. /\ SlotIndex(p) \in Slots /\ p \in Nat /\ Capacity \in Nat /\ Capacity >= 1
      /\ links[SlotIndex(p)] \in Positions /\ links[SlotIndex(p)] \in Nat
      /\ tail \in Nat
  BY SlotType DEF IInv, TypeOK
<1>2. PICK n \in Nat : n = links[SlotIndex(p)]
  BY <1>1
<1>3. n # 0
  BY <1>1, <1>2
<1>4. ~(n <= tail /\ SlotIndex(n) = SlotIndex(p))
  <2>1. SlotIndex(n) = SlotIndex(p) => p + Capacity <= n
    BY <1>1, <1>2, LapApart
  <2> QED BY <1>1, <1>2, <2>1
<1>5. PICK s \in Positions : <<s, n>> \in linked /\ SlotIndex(s) = SlotIndex(p)
  BY <1>1, <1>2, <1>3, <1>4 DEF IInv, SlotContents
<1>6. s \in Nat /\ n \in Positions /\ <<s, n>> \in finished /\ IsOp(s, n) /\ s < n
  BY <1>1, <1>2, <1>5, SlotType DEF IInv, TypeOK, IsOp, Apart
<1>7. ~(s < p)
  BY <1>1, <1>2, <1>6 DEF Boundary
<1>8. ~(p < s)
  <2>1. p < s => p + Capacity <= s
    BY <1>1, <1>5, <1>6, LapApart
  <2>2. s < tail + Capacity
    BY <1>6 DEF IInv, InReach
  <2> QED BY <1>1, <1>2, <1>6, <2>1, <2>2
<1> QED BY <1>1, <1>2, <1>5, <1>6, <1>7, <1>8

-----------------------------------------------------------------------------
(* Types *)

Places == {"idle", "look", "link", "move", "store"} \cup Advancing

(* The updates of a thread's locals keep their type. *)
LEMMA LocalTypes ==
  ASSUME NEW l \in Locals, NEW p \in Positions, NEW q \in Positions
  PROVE  /\ Unset \in Locals
         /\ [Unset EXCEPT !.start = p, !.end = q] \in Locals
         /\ [l EXCEPT !.position = p, !.from = p] \in Locals
         /\ [l EXCEPT !.next_load = p] \in Locals
         /\ [l EXCEPT !.position = p] \in Locals
         /\ \A k \in {"space", "add", "track"} : [l EXCEPT !.task = k] \in Locals
         /\ l.retry + 1 <= 1 => [l EXCEPT !.retry = @ + 1] \in Locals
         /\ l.start \in Positions /\ l.end \in Positions
         /\ l.position \in Positions /\ l.from \in Positions
         /\ l.next_load \in Positions /\ l.retry \in Nat
<1>0. l \in [task : {"space", "add", "track"}, start : Positions,
             end : Positions, position : Positions, from : Positions,
             next_load : Positions, retry : 0 .. 2]
  BY DEF Locals
<1>1. Unset \in Locals
  BY SlotType DEF Unset, Locals
<1>2. [Unset EXCEPT !.start = p, !.end = q] \in Locals
  <2>1. \A k \in Locals : [k EXCEPT !.start = p, !.end = q] \in Locals
    BY DEF Locals
  <2> QED BY <1>1, <2>1
<1>3. [l EXCEPT !.position = p, !.from = p] \in Locals
  BY <1>0 DEF Locals
<1>4. [l EXCEPT !.next_load = p] \in Locals /\ [l EXCEPT !.position = p] \in Locals
  BY <1>0 DEF Locals
<1>5. \A k \in {"space", "add", "track"} : [l EXCEPT !.task = k] \in Locals
  BY <1>0 DEF Locals
<1>6. /\ l.start \in Positions /\ l.end \in Positions
      /\ l.position \in Positions /\ l.from \in Positions
      /\ l.next_load \in Positions /\ l.retry \in Nat
  BY <1>0
<1>7. l.retry + 1 <= 1 => l.retry + 1 \in 0 .. 2
  BY <1>6
<1>8. l.retry + 1 <= 1 => [l EXCEPT !.retry = @ + 1] \in Locals
  BY <1>0, <1>7 DEF Locals
<1> QED BY <1>1, <1>2, <1>3, <1>4, <1>5, <1>6, <1>8

(* A thread that moves changes its own place and locals only. *)
LEMMA GoToTypes ==
  ASSUME TypeOK, NEW t \in Threads, NEW place \in Places, NEW l \in Locals,
         GoTo(t, place, l)
  PROVE  /\ pc' \in [Threads -> Places] /\ local' \in [Threads -> Locals]
         /\ pc'[t] = place /\ local'[t] = l
         /\ \A u \in Threads \ {t} : pc'[u] = pc[u] /\ local'[u] = local[u]
BY DEF TypeOK, GoTo, Places, Advancing

(* The operations of advance_tail_until go from place to place. *)
LEMMA ReturnTypes ==
  ASSUME TypeOK, NEW t \in Threads, Return(t)
  PROVE  /\ pc' \in [Threads -> Places] /\ local' \in [Threads -> Locals]
         /\ \A u \in Threads \ {t} : pc'[u] = pc[u] /\ local'[u] = local[u]
         /\ \/ /\ local[t].task = "space" /\ pc'[t] = "look"
               /\ local'[t].start = local[t].start /\ local'[t].end = local[t].end
            \/ local[t].task # "space" /\ pc'[t] = "idle"
<1>1. local[t] \in Locals
  BY DEF TypeOK
<1>2. local[t].start \in Positions /\ local[t].end \in Positions
  BY <1>1, LocalTypes, SlotType
<1>3. Unset \in Locals
  BY <1>1, <1>2, LocalTypes
<1>4. CASE local[t].task = "space"
  <2> DEFINE l == [Unset EXCEPT !.start = local[t].start, !.end = local[t].end]
  <2>1. GoTo(t, "look", l) /\ "look" \in Places
    BY <1>4 DEF Return, Places
  <2>2. l \in Locals /\ l.start = local[t].start /\ l.end = local[t].end
    <3>1. l \in Locals
      BY <1>1, <1>2, LocalTypes
    <3>2. l.start = local[t].start /\ l.end = local[t].end
      BY DEF Unset
    <3> QED BY <3>1, <3>2
  <2> HIDE DEF l
  <2> QED BY <1>4, <2>1, <2>2, GoToTypes
<1>5. CASE local[t].task # "space"
  <2>1. GoTo(t, "idle", Unset) /\ "idle" \in Places
    BY <1>5 DEF Return, Places
  <2> QED BY <1>3, <1>5, <2>1, GoToTypes
<1> QED BY <1>4, <1>5

-----------------------------------------------------------------------------
(***************************************************************************)
(* A step of t that changes neither the buffer nor the log: it is enough   *)
(* that t keeps its range and knows what its new place requires.           *)
(***************************************************************************)
LEMMA QuietInv ==
  ASSUME IInv, NEW t \in Threads,
         UNCHANGED <<links, tail, sn, finished, linked>>,
         pc' \in [Threads -> Places], local' \in [Threads -> Locals],
         \A u \in Threads \ {t} : pc'[u] = pc[u] /\ local'[u] = local[u],
         Looking(t)' <=> Looking(t), Linking(t)' => Linking(t),
         Looking(t)' \/ Linking(t)' =>
           local'[t].start = local[t].start /\ local'[t].end = local[t].end,
         pc'[t] = "move" => tail = local'[t].start,
         Knows(pc'[t], local'[t]),
         \/ pc'[t] \in {"follow", "publish"}
         \/ pc'[t] = "confirm" /\ local'[t].from = tail
         => Owner(t)
  PROVE  IInv'
<1>1. TypeOK'
  BY DEF IInv, TypeOK, Places, Advancing
<1>2. \A u \in Threads : /\ Looking(u)' <=> Looking(u)
                         /\ Linking(u)' => Linking(u)
                         /\ Looking(u)' \/ Linking(u)' =>
                              /\ local'[u].start = local[u].start
                              /\ local'[u].end = local[u].end
                         /\ Owner(u)' => Owner(u)
                         /\ pc'[u] = "move" => tail = local'[u].start
  <2>1. ASSUME NEW u \in Threads, u # t
        PROVE  /\ pc'[u] = pc[u] /\ local'[u] = local[u]
               /\ (Looking(u)' <=> Looking(u)) /\ (Linking(u)' <=> Linking(u))
               /\ (Owner(u)' <=> Owner(u))
               /\ pc[u] = "move" => tail = local[u].start
    BY <2>1 DEF Looking, Linking, Owner, IInv, OwnRange
  <2>2. Owner(t)' => Owner(t)
    BY DEF Owner
  <2> QED BY <2>1, <2>2
<1>3. \A s, e : IsOp(s, e)' <=> IsOp(s, e)
  BY <1>2 DEF IsOp
<1>4. Apart' /\ InReach' /\ SlotContents' /\ Kept'
  BY <1>3 DEF IInv, Apart, InReach, SlotContents, Kept
<1>5. OwnRange'
  BY <1>2 DEF IInv, OwnRange, Op
<1>6. \A p : (Boundary(p)' <=> Boundary(p)) /\ (Passed(p)' <=> Passed(p))
  BY <1>3 DEF Boundary, Passed
<1>7. Walks' /\ Passed(tail)'
  <2>1. ASSUME NEW u \in Threads PROVE Knows(pc[u], local[u])'
    <3>1. Knows(pc'[u], local'[u])
      BY DEF IInv, Walks
    <3> QED BY <1>6, <3>1 DEF Knows
  <2> QED BY <1>6, <2>1 DEF Walks, IInv
<1>8. OneOwner'
  BY <1>2 DEF IInv, OneOwner
<1> QED BY <1>1, <1>4, <1>5, <1>7, <1>8 DEF IInv

(* advance_tail_until returns, or goes on, and has changed nothing. *)
Quiet == UNCHANGED <<links, tail, sn, finished, linked>>

(* Return preserves the invariant. *)
LEMMA ReturnInv ==
  ASSUME IInv, NEW t \in Threads, pc[t] \in Advancing, Return(t), Quiet
  PROVE  IInv'
<1>1. /\ pc' \in [Threads -> Places] /\ local' \in [Threads -> Locals]
      /\ \A u \in Threads \ {t} : pc'[u] = pc[u] /\ local'[u] = local[u]
      /\ \/ /\ local[t].task = "space" /\ pc'[t] = "look"
            /\ local'[t].start = local[t].start /\ local'[t].end = local[t].end
         \/ local[t].task # "space" /\ pc'[t] = "idle"
  BY ReturnTypes DEF IInv
<1>2. /\ Looking(t)' <=> Looking(t)
      /\ ~Linking(t)'
      /\ Looking(t)' => local'[t].start = local[t].start
                        /\ local'[t].end = local[t].end
  BY <1>1 DEF Looking, Linking, Advancing
<1>3. /\ Knows(pc'[t], local'[t])
      /\ pc'[t] \notin {"follow", "publish", "confirm", "move"}
  BY <1>1 DEF Knows, Walking, Advancing
<1> QED BY <1>1, <1>2, <1>3, QuietInv DEF Quiet

(* A thread that walks on without writing preserves the invariant. *)
LEMMA StayInv ==
  ASSUME IInv, NEW t \in Threads, pc[t] \in Advancing, Quiet,
         NEW place \in Walking, NEW l \in Locals, GoTo(t, place, l),
         l.task = local[t].task, l.start = local[t].start, l.end = local[t].end,
         Knows(place, l),
         \/ place \in {"follow", "publish"}
         \/ place = "confirm" /\ l.from = tail
         => Owner(t)
  PROVE  IInv'
<1>0. place \in Places
  BY DEF Places, Walking
<1>1. /\ pc' \in [Threads -> Places] /\ local' \in [Threads -> Locals]
      /\ \A u \in Threads \ {t} : pc'[u] = pc[u] /\ local'[u] = local[u]
      /\ pc'[t] = place /\ local'[t] = l
  BY <1>0, GoToTypes DEF IInv
<1>2. /\ Looking(t)' <=> Looking(t)
      /\ ~Linking(t)'
      /\ pc'[t] # "move"
  BY <1>1 DEF Looking, Linking, Advancing, Walking
<1>3. /\ local'[t].start = local[t].start /\ local'[t].end = local[t].end
      /\ Knows(pc'[t], local'[t])
      /\ \/ pc'[t] \in {"follow", "publish"}
         \/ pc'[t] = "confirm" /\ local'[t].from = tail
         => Owner(t)
  <2>1. Knows(pc'[t], local'[t])
    BY <1>1, Zenon
  <2>2. \/ pc'[t] \in {"follow", "publish"}
        \/ pc'[t] = "confirm" /\ local'[t].from = tail
        => Owner(t)
    <3>1. local'[t].from = l.from
      BY <1>1
    <3> QED BY <1>1, <3>1
  <2> QED BY <1>1, <2>1, <2>2
<1>4. UNCHANGED <<links, tail, sn, finished, linked>>
  BY DEF Quiet
<1> QED BY <1>1, <1>2, <1>3, <1>4, QuietInv

(* What is known of the local variables when they are needed. *)
LEMMA LocalFacts ==
  ASSUME IInv, NEW t \in Threads
  PROVE  /\ local[t] \in Locals /\ Knows(pc[t], local[t])
         /\ local[t].start \in Positions /\ local[t].end \in Positions
         /\ local[t].position \in Positions /\ local[t].from \in Positions
         /\ local[t].next_load \in Positions /\ local[t].retry \in Nat
         /\ tail \in Positions /\ tail \in Nat
         /\ Boundary(tail)
<1>1. local[t] \in Locals /\ tail \in Positions /\ tail \in Nat
  BY SlotType DEF IInv, TypeOK
<1> QED BY <1>1, LocalTypes DEF IInv, Walks, Passed

(* The locals of a thread that has just read the tail. *)
LEMMA AtTailFacts ==
  ASSUME IInv, NEW l \in Locals
  PROVE  /\ AtTail(l) \in Locals /\ AtTail(l).task = l.task
         /\ AtTail(l).start = l.start /\ AtTail(l).end = l.end
         /\ AtTail(l).position = tail /\ AtTail(l).from = tail
         /\ AtTail(l).next_load = l.next_load
<1>1. tail \in Positions
  BY DEF IInv, TypeOK
<1>2. AtTail(l) \in Locals
  BY <1>1, LocalTypes DEF AtTail
<1> QED BY <1>2 DEF AtTail, Locals

(* ToLoadSlot preserves the invariant. *)
LEMMA ToLoadSlotInv ==
  ASSUME IInv, NEW t \in Threads, pc[t] \in Advancing, Quiet,
         GoTo(t, "load_slot", AtTail(local[t]))
  PROVE  IInv'
<1>1. /\ AtTail(local[t]) \in Locals /\ AtTail(local[t]).task = local[t].task
      /\ AtTail(local[t]).start = local[t].start
      /\ AtTail(local[t]).end = local[t].end
      /\ AtTail(local[t]).position = tail /\ AtTail(local[t]).from = tail
  BY AtTailFacts, LocalFacts
<1>2. tail \in Nat /\ Boundary(tail) /\ tail <= tail
  BY LocalFacts
<1>3. Knows("load_slot", AtTail(local[t])) /\ "load_slot" \in Walking
  BY <1>1, <1>2 DEF Knows, Walking, Advancing
<1> QED BY <1>1, <1>3, StayInv

(* TakeOrReturn preserves the invariant. *)
LEMMA TakeOrReturnInv ==
  ASSUME IInv, NEW t \in Threads, pc[t] \in Advancing, Quiet,
         NEW l \in Locals, TakeOrReturn(t, l),
         l.task = local[t].task, l.start = local[t].start, l.end = local[t].end,
         l.position = l.from, l.from <= tail, Boundary(l.from),
         l.from < l.next_load => <<l.from, l.next_load>> \in linked
  PROVE  IInv'
<1>0. l.from \in Nat /\ l.next_load \in Nat
  BY SlotType DEF Locals
<1>1. Return(t) \/ (GoTo(t, "lock", l) /\ ~(l.next_load <= l.position))
  BY DEF TakeOrReturn
<1>2. CASE Return(t)
  BY <1>2, ReturnInv
<1>3. CASE GoTo(t, "lock", l) /\ ~(l.next_load <= l.position)
  <2>1. l.from < l.next_load
    BY <1>0, <1>3
  <2>2. Knows("lock", l) /\ "lock" \in Walking
    BY <2>1 DEF Knows, Walking, Advancing
  <2> QED BY <1>3, <2>2, StayInv
<1> QED BY <1>1, <1>2, <1>3

(* LoadSlot preserves the invariant. *)
LEMMA LoadSlotInv ==
  ASSUME IInv, NEW t \in Threads, LoadSlot(t)
  PROVE  IInv'
<1> DEFINE next == links[SlotIndex(local[t].position)]
           l == [local[t] EXCEPT !.next_load = next]
<1>0. /\ pc[t] = "load_slot" /\ Quiet
      /\ IF next >= local[t].position + Capacity
         THEN GoTo(t, "lapped", l) ELSE TakeOrReturn(t, l)
  BY DEF LoadSlot, Quiet
<1>1. pc[t] \in Advancing /\ pc[t] \in Walking
  BY <1>0 DEF Advancing, Walking
<1>2. /\ local[t] \in Locals /\ local[t].from \in Positions /\ local[t].from \in Nat
      /\ local[t].position = local[t].from /\ local[t].from <= tail
      /\ Boundary(local[t].from) /\ Capacity \in Nat /\ tail \in Nat
  BY <1>0, <1>1, LocalFacts, SlotType DEF Knows
<1>3. next \in Positions /\ next \in Nat
  BY <1>2, SlotType DEF IInv, TypeOK
<1>4. l \in Locals
  BY <1>2, <1>3, LocalTypes
<1>5. /\ l.task = local[t].task /\ l.start = local[t].start
      /\ l.end = local[t].end /\ l.position = local[t].from
      /\ l.from = local[t].from /\ l.next_load = next
  BY <1>2 DEF Locals
<1>6. \/ next < local[t].from + Capacity
      \/ tail = local[t].from
      => (local[t].from < next => <<local[t].from, next>> \in linked)
  BY <1>2, LinkIsOf
<1> HIDE DEF next, l
<1>7. CASE next >= local[t].position + Capacity
  <2>1. local[t].from < next
    BY <1>2, <1>3, <1>7, SlotType
  <2>2. Knows("lapped", l) /\ "lapped" \in Walking
    BY <1>2, <1>5, <1>6, <1>7, <2>1 DEF Knows, Walking, Advancing
  <2> QED BY <1>0, <1>1, <1>4, <1>5, <1>7, <2>2, StayInv
<1>8. CASE ~(next >= local[t].position + Capacity)
  <2>1. next < local[t].from + Capacity
    BY <1>2, <1>3, <1>8
  <2> QED BY <1>0, <1>1, <1>2, <1>4, <1>5, <1>6, <1>8, <2>1, TakeOrReturnInv
<1> QED BY <1>7, <1>8

(* Lapped preserves the invariant. *)
LEMMA LappedInv ==
  ASSUME IInv, NEW t \in Threads, Lapped(t)
  PROVE  IInv'
<1>0. /\ pc[t] = "lapped" /\ Quiet
      /\ IF tail # local[t].from
         THEN GoTo(t, "load_slot", AtTail(local[t]))
         ELSE TakeOrReturn(t, AtTail(local[t]))
  BY DEF Lapped, Quiet
<1>1. pc[t] \in Advancing
  BY <1>0 DEF Advancing
<1>2. CASE tail # local[t].from
  BY <1>0, <1>1, <1>2, ToLoadSlotInv
<1>3. CASE tail = local[t].from
  <2>1. /\ AtTail(local[t]) \in Locals /\ AtTail(local[t]).task = local[t].task
        /\ AtTail(local[t]).start = local[t].start
        /\ AtTail(local[t]).end = local[t].end
        /\ AtTail(local[t]).position = tail /\ AtTail(local[t]).from = tail
        /\ AtTail(local[t]).next_load = local[t].next_load
    BY AtTailFacts, LocalFacts
  <2>2. tail <= tail /\ Boundary(tail)
    BY LocalFacts
  <2>3. <<tail, local[t].next_load>> \in linked
    BY <1>0, <1>3, LocalFacts DEF Knows
  <2> QED BY <1>0, <1>1, <1>3, <2>1, <2>2, <2>3, TakeOrReturnInv
<1> QED BY <1>2, <1>3

(* Retry preserves the invariant. *)
LEMMA RetryInv ==
  ASSUME IInv, NEW t \in Threads, pc[t] \in {"lock", "confirm"}, Retry(t), Quiet
  PROVE  IInv'
<1> DEFINE l == [local[t] EXCEPT !.retry = @ + 1]
<1>1. pc[t] \in Advancing /\ pc[t] \in Walking
  BY DEF Advancing, Walking
<1>2. MaxRetry(t) \in {0, 1}
  BY DEF MaxRetry
<1>3. Return(t) \/ (GoTo(t, "again", l) /\ ~(local[t].retry + 1 > MaxRetry(t)))
  BY DEF Retry
<1>4. CASE GoTo(t, "again", l) /\ ~(local[t].retry + 1 > MaxRetry(t))
  <2>1. local[t].retry + 1 <= 1
    BY <1>2, <1>4, LocalFacts
  <2>2. l \in Locals
    BY <2>1, LocalTypes, LocalFacts
  <2>3. /\ l.task = local[t].task /\ l.start = local[t].start
        /\ l.end = local[t].end /\ l.position = local[t].position
        /\ l.from = local[t].from
    BY LocalFacts DEF Locals
  <2> HIDE DEF l
  <2>4. Knows("again", l) /\ "again" \in Walking
    BY <1>1, <2>3, LocalFacts DEF Knows, Walking, Advancing
  <2> QED BY <1>1, <1>4, <2>2, <2>3, <2>4, StayInv
<1> QED BY <1>1, <1>3, <1>4, ReturnInv

(* Confirm preserves the invariant. *)
LEMMA ConfirmInv ==
  ASSUME IInv, NEW t \in Threads, Confirm(t)
  PROVE  IInv'
<1> DEFINE l == [local[t] EXCEPT !.position = local[t].next_load]
<1>0. /\ pc[t] = "confirm" /\ Quiet
      /\ IF tail = local[t].from THEN GoTo(t, "follow", l) ELSE Retry(t)
  BY DEF Confirm, TakeLink, Quiet
<1>1. CASE tail # local[t].from
  BY <1>0, <1>1, RetryInv
<1>2. CASE tail = local[t].from
  <2>1. pc[t] \in Advancing /\ pc[t] \in Walking
    BY <1>0 DEF Advancing, Walking
  <2>2. /\ local[t] \in Locals /\ local[t].next_load \in Positions
        /\ tail \in Positions /\ Boundary(tail) /\ tail <= tail
        /\ <<tail, local[t].next_load>> \in linked
    BY <1>0, <1>2, LocalFacts DEF Knows
  <2>3. tail < local[t].next_load /\ Passed(local[t].next_load)
    BY <2>2, LinkPasses DEF IInv
  <2>4. l \in Locals
    BY <2>2, LocalTypes
  <2>5. /\ l.task = local[t].task /\ l.start = local[t].start
        /\ l.end = local[t].end /\ l.position = local[t].next_load
        /\ l.from = local[t].from /\ l.next_load = local[t].next_load
    BY <2>2 DEF Locals
  <2> HIDE DEF l
  <2>6. Knows("follow", l) /\ "follow" \in Walking
    BY <1>2, <2>2, <2>3, <2>5 DEF Knows, Walking, Advancing
  <2>7. Owner(t)
    BY <1>0, <1>2 DEF Owner
  <2> QED BY <1>0, <1>2, <2>1, <2>4, <2>5, <2>6, <2>7, StayInv
<1> QED BY <1>1, <1>2

(* Follow preserves the invariant. *)
LEMMA FollowInv ==
  ASSUME IInv, NEW t \in Threads, Follow(t)
  PROVE  IInv'
<1> DEFINE next == links[SlotIndex(local[t].position)]
           l == [local[t] EXCEPT !.position = next]
<1>0. /\ pc[t] = "follow" /\ Quiet
      /\ \/ GoTo(t, "publish", local[t])
         \/ ~(next <= local[t].position) /\ GoTo(t, "follow", l)
  BY DEF Follow, Quiet
<1>1. pc[t] \in Advancing /\ pc[t] \in Walking /\ Owner(t)
  BY <1>0 DEF Advancing, Walking, Owner
<1>2. /\ local[t] \in Locals /\ local[t].position \in Positions
      /\ Knows("follow", local[t])
      /\ tail = local[t].from /\ tail < local[t].position
      /\ Passed(local[t].position) /\ tail \in Nat /\ local[t].position \in Nat
  BY <1>0, LocalFacts, SlotType DEF Knows
<1>3. CASE GoTo(t, "publish", local[t])
  <2>1. Knows("publish", local[t]) /\ "publish" \in Walking
    BY <1>2 DEF Knows, Walking, Advancing
  <2> QED BY <1>0, <1>1, <1>2, <1>3, <2>1, StayInv
<1>4. CASE ~(next <= local[t].position) /\ GoTo(t, "follow", l)
  <2>1. next \in Positions /\ next \in Nat
    BY <1>2, SlotType DEF IInv, TypeOK
  <2>2. local[t].position < next /\ tail <= local[t].position
        /\ Boundary(local[t].position)
    BY <1>2, <1>4, <2>1 DEF Passed
  <2>3. <<local[t].position, next>> \in linked
    BY <1>2, <2>2, LinkIsOf
  <2>4. Passed(next)
    BY <1>2, <2>1, <2>3, LinkPasses DEF IInv
  <2>5. l \in Locals
    BY <1>2, <2>1, LocalTypes
  <2>6. /\ l.task = local[t].task /\ l.start = local[t].start
        /\ l.end = local[t].end /\ l.position = next
        /\ l.from = local[t].from /\ l.next_load = local[t].next_load
    BY <1>2 DEF Locals
  <2>7. tail < next
    BY <1>2, <2>1, <2>2
  <2> HIDE DEF l, next
  <2>8. Knows("follow", l) /\ "follow" \in Walking
    BY <1>2, <2>4, <2>6, <2>7 DEF Knows, Walking, Advancing
  <2> QED BY <1>0, <1>1, <1>4, <2>5, <2>6, <2>8, StayInv
<1> QED BY <1>0, <1>3, <1>4

(* LoadTail preserves the invariant. *)
LEMMA LoadTailInv ==
  ASSUME IInv, NEW t \in Threads, LoadTail(t) \/ TryAgain(t)
  PROVE  IInv'
<1>1. /\ pc[t] \in Advancing /\ Quiet
      /\ Return(t) \/ GoTo(t, "load_slot", AtTail(local[t]))
  BY DEF LoadTail, TryAgain, Advancing, Quiet
<1> QED BY <1>1, ReturnInv, ToLoadSlotInv

(* Track preserves the invariant. *)
LEMMA TrackInv ==
  ASSUME IInv, NEW t \in Threads, Track(t)
  PROVE  IInv'
<1>1. /\ pc[t] = "idle" /\ Quiet /\ GoTo(t, "load_tail", Unset)
      /\ "load_tail" \in Places
  BY DEF Track, Quiet, Places, Advancing
<1>2. Unset \in Locals /\ Unset.task = "track"
  BY LocalTypes, LocalFacts DEF Unset
<1>3. /\ pc' \in [Threads -> Places] /\ local' \in [Threads -> Locals]
      /\ \A u \in Threads \ {t} : pc'[u] = pc[u] /\ local'[u] = local[u]
      /\ pc'[t] = "load_tail" /\ local'[t] = Unset
  BY <1>1, <1>2, GoToTypes DEF IInv
<1>4. ~Looking(t)' /\ ~Looking(t) /\ ~Linking(t)'
  BY <1>1, <1>2, <1>3 DEF Looking, Linking, Advancing
<1>5. Knows(pc'[t], local'[t])
  BY <1>3 DEF Knows, Walking
<1>6. UNCHANGED <<links, tail, sn, finished, linked>>
  BY <1>1 DEF Quiet
<1> QED BY <1>3, <1>4, <1>5, <1>6, QuietInv

(* AddLink preserves the invariant. *)
LEMMA AddLinkInv ==
  ASSUME IInv, NEW t \in Threads, AddLink(t)
  PROVE  IInv'
<1> DEFINE place == IF tail = local[t].start THEN "move" ELSE "store"
<1>1. /\ pc[t] = "link" /\ GoTo(t, place, local[t]) /\ place \in Places
      /\ UNCHANGED <<links, tail, sn, finished, linked>>
  BY DEF AddLink, Places
<1>2. local[t] \in Locals
  BY LocalFacts
<1> HIDE DEF place
<1>3. /\ pc' \in [Threads -> Places] /\ local' \in [Threads -> Locals]
      /\ \A u \in Threads \ {t} : pc'[u] = pc[u] /\ local'[u] = local[u]
      /\ pc'[t] = place /\ local'[t] = local[t]
  BY <1>1, <1>2, GoToTypes DEF IInv
<1>4. ~Looking(t)' /\ ~Looking(t) /\ Linking(t)
      /\ (pc'[t] = "move" => tail = local'[t].start)
      /\ pc'[t] \in {"move", "store"}
  BY <1>1, <1>3 DEF Looking, Linking, Advancing, place
<1>5. Knows(pc'[t], local'[t])
  BY <1>4 DEF Knows, Walking, Advancing
<1> QED BY <1>1, <1>3, <1>4, <1>5, QuietInv

(* The range has a slot: it counts as finished, and will be linked. *)
LEMMA LookForSpaceInv ==
  ASSUME IInv, NEW t \in Threads, LookForSpace(t)
  PROVE  IInv'
<1>0. pc[t] = "look" /\ UNCHANGED <<links, tail, sn, linked>>
  BY DEF LookForSpace
<1>1. Looking(t) /\ ~Linking(t)
  BY <1>0 DEF Looking, Linking
<1>2. CASE ~HasSpace(local[t].start)
  <2> DEFINE l == [local[t] EXCEPT !.task = "space"]
  <2>1. GoTo(t, "load_tail", l) /\ "load_tail" \in Places /\ UNCHANGED finished
    BY <1>2 DEF LookForSpace, Places, Advancing
  <2>2. l \in Locals
    BY LocalTypes, LocalFacts
  <2>3. l.task = "space" /\ l.start = local[t].start /\ l.end = local[t].end
    BY LocalFacts DEF Locals
  <2> HIDE DEF l
  <2>4. /\ pc' \in [Threads -> Places] /\ local' \in [Threads -> Locals]
        /\ \A u \in Threads \ {t} : pc'[u] = pc[u] /\ local'[u] = local[u]
        /\ pc'[t] = "load_tail" /\ local'[t] = l
    BY <2>1, <2>2, GoToTypes DEF IInv
  <2>5. Looking(t)' /\ ~Linking(t)' /\ Knows(pc'[t], local'[t])
    BY <2>3, <2>4 DEF Looking, Linking, Advancing, Knows, Walking
  <2> QED BY <1>0, <1>1, <2>1, <2>3, <2>4, <2>5, QuietInv
<1>3. CASE HasSpace(local[t].start)
  <2>1. /\ finished' = finished \cup {Op(t)}
        /\ GoTo(t, "link", local[t]) /\ "link" \in Places
    BY <1>3 DEF LookForSpace, Op, Places
  <2>2. /\ local[t] \in Locals /\ local[t].start \in Positions
        /\ local[t].end \in Positions
    BY LocalFacts
  <2>3. /\ pc' \in [Threads -> Places] /\ local' = local
        /\ \A u \in Threads \ {t} : pc'[u] = pc[u]
        /\ pc'[t] = "link"
    <3>1. local' = local
      BY <2>1 DEF GoTo, IInv, TypeOK
    <3> QED BY <2>1, <2>2, <3>1, GoToTypes DEF IInv
  <2>4. TypeOK'
    <3>1. linked' \subseteq finished' /\ finished' \subseteq Positions \X Positions
      BY <1>0, <2>1, <2>2 DEF IInv, TypeOK, Op
    <3> QED BY <1>0, <2>3, <3>1 DEF IInv, TypeOK, Places, Advancing
  <2>5. \A u \in Threads : Looking(u)' <=> Looking(u) /\ u # t
    BY <2>3 DEF Looking, Advancing
  <2>6. \A u \in Threads : Linking(u)' <=> Linking(u) \/ u = t
    BY <2>3 DEF Linking
  <2>7. \A s, e : IsOp(s, e)' <=> IsOp(s, e)
    <3>1. \A s, e : <<s, e>> = Op(t) <=> local[t].start = s /\ local[t].end = e
      BY DEF Op
    <3> QED BY <1>1, <2>1, <2>3, <2>5, <3>1 DEF IsOp
  <2>8. Apart'
    BY <1>0, <2>7 DEF IInv, Apart
  <2>9. InReach'
    <3>1. local[t].start < tail + Capacity
      BY <1>3, <2>2, LocalFacts, SlotType DEF HasSpace
    <3>2. \A s, e \in Positions : <<s, e>> \in finished' =>
            <<s, e>> \in finished \/ s = local[t].start
      BY <2>1 DEF Op
    <3> QED BY <1>0, <3>1, <3>2 DEF IInv, InReach
  <2>10. OwnRange'
    <3>1. Op(t) \notin finished /\ Op(t) \notin linked /\ linked \subseteq finished
      BY <1>1 DEF IInv, OwnRange, TypeOK
    <3>2. ASSUME NEW u \in Threads, Looking(u), u # t PROVE Op(u) \notin finished'
      <4>1. local[u].start # local[t].start
        BY <1>1, <3>2 DEF IInv, OwnRange
      <4> QED BY <2>1, <3>2, <4>1 DEF IInv, OwnRange, Op
    <3>3. \A u \in Threads : Op(u)' = Op(u)
      BY <2>3 DEF Op
    <3>4. \A u \in Threads : Looking(u)' => Op(u)' \notin finished'
      BY <2>5, <3>2, <3>3
    <3>5. \A u \in Threads : Linking(u)' => Op(u)' \in finished' \ linked'
      BY <1>0, <2>1, <2>6, <3>1, <3>3 DEF IInv, OwnRange
    <3>6. \A u, v \in Threads :
            /\ Looking(u)' \/ Linking(u)'
            /\ Looking(v)' \/ Linking(v)'
            /\ local'[u].start = local'[v].start
            => u = v
      <4>1. \A u \in Threads : Looking(u)' \/ Linking(u)' => Looking(u) \/ Linking(u)
        BY <1>1, <2>5, <2>6
      <4> QED BY <2>3, <4>1 DEF IInv, OwnRange
    <3>7. \A u \in Threads : pc'[u] = "move" => tail' = local'[u].start
      BY <1>0, <2>3 DEF IInv, OwnRange
    <3> QED BY <3>4, <3>5, <3>6, <3>7 DEF OwnRange
  <2>11. SlotContents' /\ Kept'
    BY <1>0 DEF IInv, SlotContents, Kept
  <2>12. \A p : (Boundary(p)' <=> Boundary(p)) /\ (Passed(p)' <=> Passed(p))
    BY <1>0, <2>7 DEF Boundary, Passed
  <2>13. Passed(tail)' /\ Walks'
    <3>1. ASSUME NEW u \in Threads PROVE Knows(pc[u], local[u])'
      <4>1. CASE u = t
        BY <2>3, <4>1 DEF Knows, Walking, Advancing
      <4>2. CASE u # t
        <5>1. Knows(pc[u], local[u])
          BY DEF IInv, Walks
        <5> QED BY <1>0, <2>3, <2>12, <4>2, <5>1 DEF Knows
      <4> QED BY <4>1, <4>2
    <3> QED BY <1>0, <2>12, <3>1 DEF Walks, IInv
  <2>14. OneOwner'
    <3>1. \A u \in Threads : Owner(u)' => Owner(u)
      BY <1>0, <2>3 DEF Owner
    <3> QED BY <1>0, <3>1 DEF IInv, OneOwner
  <2> QED BY <2>4, <2>8, <2>9, <2>10, <2>11, <2>13, <2>14 DEF IInv
<1> QED BY <1>2, <1>3

(* What a thread knows stays true while the others go on. *)
LEMMA KnowsKept ==
  ASSUME IInv, TypeOK', Grows, tail <= tail', NEW u \in Threads,
         pc'[u] = pc[u], local'[u] = local[u],
         tail' = tail \/ pc[u] \notin {"follow", "publish"}
  PROVE  Knows(pc[u], local[u])'
<1>1. /\ Knows(pc[u], local[u]) /\ local[u].from \in Positions
      /\ local[u].from \in Nat /\ tail \in Nat /\ tail' \in Nat
      /\ local[u].position \in Positions
  BY LocalFacts, SlotType DEF TypeOK
<1>2. /\ Boundary(local[u].from) => \A p : p = local[u].from => Boundary(p)'
      /\ Passed(local[u].position) => \A p : p = local[u].position => Passed(p)'
  BY <1>1, BoundaryKept DEF IInv
<1>3. Walking \in SUBSET Walking /\ linked \subseteq linked'
  BY DEF Grows
<1>4. pc[u] \in Walking =>
        local[u].from <= tail' /\ \A p : p = local[u].from => Boundary(p)'
  BY <1>1, <1>2 DEF Knows
<1>5. pc[u] = "lapped" =>
        /\ local[u].next_load >= local[u].from + Capacity
        /\ tail' = local[u].from => <<local[u].from, local[u].next_load>> \in linked'
  <2>1. pc[u] = "lapped" => local[u].from <= tail
    BY <1>1 DEF Knows, Walking, Advancing
  <2> QED BY <1>1, <1>3, <2>1 DEF Knows
<1>6. pc[u] \in {"follow", "publish"} =>
        /\ tail' = local[u].from /\ tail' < local[u].position
        /\ \A p : p = local[u].position => Passed(p)'
  BY <1>1, <1>2 DEF Knows
<1>7. pc[u] \in {"lock", "confirm", "follow", "publish"} =>
        /\ <<local[u].from, local[u].next_load>> \in linked'
        /\ local[u].from < local[u].next_load
  BY <1>1, <1>3 DEF Knows
<1>8. pc[u] \in {"load_slot", "lapped", "lock", "confirm", "again"} =>
        local[u].position = local[u].from
  BY <1>1 DEF Knows
<1> QED BY <1>4, <1>5, <1>6, <1>7, <1>8 DEF Knows

(* The next range of the log is reserved. *)
LEMMA ReserveInv ==
  ASSUME IInv, NEW t \in Threads, Reserve(t)
  PROVE  IInv'
<1>1. PICK len \in 1 .. MaxLength :
        /\ pc[t] = "idle" /\ sn + len <= MaxPosition /\ sn' = sn + len
        /\ GoTo(t, "look", [Unset EXCEPT !.start = sn, !.end = sn + len])
        /\ UNCHANGED <<links, tail, finished, linked>>
  BY DEF Reserve
<1> DEFINE l == [Unset EXCEPT !.start = sn, !.end = sn + len]
<1>2. /\ sn \in Positions /\ sn \in Nat /\ len \in Nat /\ len >= 1
      /\ sn + len \in Positions /\ sn' \in Positions
  BY <1>1, LinkBufAssumption DEF IInv, TypeOK, Positions
<1>3. l \in Locals /\ l.start = sn /\ l.end = sn + len
  <2>1. l \in Locals
    BY <1>2, LocalTypes, LocalFacts
  <2> QED BY <2>1 DEF Unset
<1>4. GoTo(t, "look", l) /\ "look" \in Places
  BY <1>1 DEF Places
<1> HIDE DEF l
<1>5. /\ pc' \in [Threads -> Places] /\ local' \in [Threads -> Locals]
      /\ \A u \in Threads \ {t} : pc'[u] = pc[u] /\ local'[u] = local[u]
      /\ pc'[t] = "look" /\ local'[t] = l
  BY <1>3, <1>4, GoToTypes DEF IInv
<1>6. TypeOK'
  BY <1>1, <1>2, <1>5 DEF IInv, TypeOK, Places, Advancing
<1>7. /\ \A u \in Threads \ {t} : /\ Looking(u)' <=> Looking(u)
                                  /\ Linking(u)' <=> Linking(u)
                                  /\ Owner(u)' <=> Owner(u)
      /\ Looking(t)' /\ ~Linking(t)' /\ ~Owner(t)' /\ ~Looking(t)
  BY <1>1, <1>5 DEF Looking, Linking, Owner, Advancing
<1>8. \A s, e : IsOp(s, e)' <=> IsOp(s, e) \/ (s = sn /\ e = sn + len)
  BY <1>1, <1>3, <1>5, <1>7 DEF IsOp
<1>9. \A s, e \in Positions : IsOp(s, e) => s < e /\ e <= sn /\ s \in Nat /\ e \in Nat
  BY SlotType DEF IInv, Apart
<1>10. Grows
  BY <1>1, <1>2, <1>8 DEF Grows
<1>11. Apart'
  <2>1. \A s, e \in Positions : IsOp(s, e)' => s < e /\ e <= sn'
    BY <1>1, <1>2, <1>8, <1>9
  <2>2. ASSUME NEW s \in Positions, NEW e \in Positions,
               NEW s2 \in Positions, NEW e2 \in Positions,
               IsOp(s, e)', IsOp(s2, e2)'
        PROVE  \/ s = s2 /\ e = e2
               \/ e <= s2 \/ e2 <= s
    BY <1>8, <1>9, <2>2 DEF IInv, Apart
  <2> QED BY <2>1, <2>2 DEF Apart
<1>12. OwnRange'
  <2>1. ASSUME NEW u \in Threads, Looking(u) \/ Linking(u)
        PROVE  local[u].start # sn
    <3>1. IsOp(local[u].start, local[u].end)
      BY <2>1 DEF IsOp, IInv, OwnRange, Op
    <3>2. local[u].start \in Positions /\ local[u].end \in Positions
      BY LocalFacts
    <3>3. /\ local[u].start < local[u].end /\ local[u].end <= sn
          /\ local[u].start \in Nat /\ local[u].end \in Nat
      BY <1>9, <3>1, <3>2
    <3> QED BY <1>2, <3>3
  <2>2. \A e \in Positions : <<sn, e>> \notin finished
    BY <1>2, <1>9 DEF IsOp
  <2>3. Op(t)' = <<sn, sn + len>>
    BY <1>3, <1>5 DEF Op
  <2>4. \A u \in Threads \ {t} : Op(u)' = Op(u)
    BY <1>5 DEF Op
  <2>5. \A u \in Threads : Looking(u)' => Op(u)' \notin finished'
    BY <1>1, <1>2, <1>7, <2>2, <2>3, <2>4 DEF IInv, OwnRange
  <2>6. \A u \in Threads : Linking(u)' => Op(u)' \in finished' \ linked'
    BY <1>1, <1>7, <2>4 DEF IInv, OwnRange
  <2>7. \A u, v \in Threads :
          /\ Looking(u)' \/ Linking(u)'
          /\ Looking(v)' \/ Linking(v)'
          /\ local'[u].start = local'[v].start
          => u = v
    BY <1>3, <1>5, <1>7, <2>1 DEF IInv, OwnRange
  <2>8. \A u \in Threads : pc'[u] = "move" => tail' = local'[u].start
    BY <1>1, <1>5 DEF IInv, OwnRange
  <2> QED BY <2>5, <2>6, <2>7, <2>8 DEF OwnRange
<1>13. InReach' /\ SlotContents' /\ Kept'
  BY <1>1 DEF IInv, InReach, SlotContents, Kept
<1>14. Passed(tail)'
  <2>1. \A p : p = tail => Passed(p)'
    BY <1>6, <1>10, BoundaryKept DEF IInv, TypeOK
  <2> QED BY <1>1, <2>1 DEF Passed, Boundary
<1>15. Walks'
  <2>1. ASSUME NEW u \in Threads PROVE Knows(pc[u], local[u])'
    <3>1. CASE u = t
      BY <1>5, <3>1 DEF Knows, Walking, Advancing
    <3>2. tail \in Nat /\ tail' = tail
      BY <1>1, LocalFacts
    <3>3. tail <= tail'
      BY <3>2
    <3> QED BY <1>5, <1>6, <1>10, <3>1, <3>2, <3>3, KnowsKept
  <2> QED BY <2>1 DEF Walks
<1>16. OneOwner'
  BY <1>1, <1>7 DEF IInv, OneOwner
<1> QED BY <1>6, <1>11, <1>12, <1>13, <1>14, <1>15, <1>16 DEF IInv

(***************************************************************************)
(* Steps of t that change what the buffer holds but not what was reserved  *)
(* or finished: OwnRange and the rest of the log's part.                   *)
(***************************************************************************)
LEMMA LogPart ==
  ASSUME IInv, NEW t \in Threads, UNCHANGED <<sn, finished>>, TypeOK',
         \A u \in Threads \ {t} : pc'[u] = pc[u] /\ local'[u] = local[u],
         Looking(t)' <=> Looking(t), ~Linking(t)',
         Looking(t)' =>
           local'[t].start = local[t].start /\ local'[t].end = local[t].end,
         linked' = linked \/ (Linking(t) /\ linked' = linked \cup {Op(t)}),
         tail <= tail', tail' = tail \/ \A u \in Threads \ {t} : pc[u] # "move"
  PROVE  /\ Apart' /\ OwnRange' /\ InReach' /\ Grows
         /\ \A s, e : IsOp(s, e)' <=> IsOp(s, e)
<1>1. \A u \in Threads : /\ Looking(u)' <=> Looking(u)
                         /\ Linking(u)' => Linking(u) /\ u # t
                         /\ Looking(u)' \/ Linking(u)' =>
                              /\ local'[u].start = local[u].start
                              /\ local'[u].end = local[u].end
                              /\ Op(u)' = Op(u)
  <2>1. ASSUME NEW u \in Threads, u # t
        PROVE  /\ pc'[u] = pc[u] /\ local'[u] = local[u] /\ Op(u)' = Op(u)
               /\ (Looking(u)' <=> Looking(u)) /\ (Linking(u)' <=> Linking(u))
    BY <2>1 DEF Looking, Linking, Op
  <2>2. Looking(t)' => Op(t)' = Op(t)
    BY DEF Op
  <2> QED BY <2>1, <2>2
<1>2. \A s, e : IsOp(s, e)' <=> IsOp(s, e)
  BY <1>1 DEF IsOp
<1>3. Apart'
  BY <1>2 DEF IInv, Apart
<1>4. /\ sn \in Nat /\ tail \in Nat /\ tail' \in Nat /\ Capacity \in Nat
      /\ \A s \in Positions : s \in Nat
  BY SlotType DEF IInv, TypeOK
<1>5. InReach'
  BY <1>4 DEF IInv, InReach
<1>6. Grows
  <2>1. sn <= sn'
    BY <1>4
  <2>2. linked \subseteq linked'
    OBVIOUS
  <2> QED BY <1>2, <2>1, <2>2 DEF Grows
<1>7. ASSUME NEW u \in Threads, pc'[u] = "move"
      PROVE  tail' = local'[u].start
  <2>1. u # t
    BY <1>7 DEF Linking
  <2>2. pc[u] = "move" /\ local'[u] = local[u]
    BY <1>7, <2>1
  <2> QED BY <2>1, <2>2 DEF IInv, OwnRange
<1>8. ASSUME NEW u \in Threads, Linking(u)' PROVE Op(u)' \in finished' \ linked'
  <2>1. Linking(u) /\ u # t /\ Op(u)' = Op(u) /\ Op(u) \in finished \ linked
    BY <1>1, <1>8 DEF IInv, OwnRange
  <2>2. Linking(t) => Op(u) # Op(t)
    BY <2>1 DEF IInv, OwnRange, Op
  <2> QED BY <2>1, <2>2
<1>9. OwnRange'
  BY <1>1, <1>7, <1>8 DEF IInv, OwnRange
<1> QED BY <1>2, <1>3, <1>5, <1>6, <1>9

(***************************************************************************)
(* The operation at the tail moves it: its own link was never stored, and  *)
(* so no other thread can.                                                 *)
(***************************************************************************)
LEMMA MoveTailInv ==
  ASSUME IInv, NEW t \in Threads, MoveTail(t)
  PROVE  IInv'
<1>0. /\ pc[t] = "move" /\ tail' = local[t].end
      /\ linked' = linked \cup {Op(t)} /\ GoTo(t, "idle", Unset)
      /\ UNCHANGED <<links, sn, finished>> /\ "idle" \in Places
  BY DEF MoveTail, Op, Places
<1>1. /\ local[t].start \in Positions /\ local[t].end \in Positions
      /\ tail \in Positions /\ tail \in Nat /\ local[t].end \in Nat
  BY LocalFacts, SlotType
<1>2. /\ Linking(t) /\ ~Looking(t) /\ tail = local[t].start
      /\ Op(t) \in finished \ linked
  BY <1>0 DEF Linking, Looking, Advancing, IInv, OwnRange
<1>3. tail < local[t].end /\ tail < tail' /\ tail <= tail'
  <2>1. IsOp(local[t].start, local[t].end)
    BY <1>2 DEF IsOp, Op
  <2>2. local[t].start < local[t].end
    BY <1>1, <2>1 DEF IInv, Apart
  <2> QED BY <1>0, <1>1, <1>2, <2>2
<1>4. /\ pc' \in [Threads -> Places] /\ local' \in [Threads -> Locals]
      /\ \A u \in Threads \ {t} : pc'[u] = pc[u] /\ local'[u] = local[u]
      /\ pc'[t] = "idle"
  <2>1. Unset \in Locals
    BY LocalTypes, LocalFacts
  <2> QED BY <1>0, <2>1, GoToTypes DEF IInv
<1>5. TypeOK'
  <2>1. linked' \subseteq finished'
    BY <1>0, <1>2 DEF IInv, TypeOK
  <2> QED BY <1>0, <1>1, <1>4, <2>1 DEF IInv, TypeOK, Places, Advancing
<1>6. ~Looking(t)' /\ ~Linking(t)' /\ ~Owner(t)'
  BY <1>4 DEF Looking, Linking, Owner, Advancing
<1>7. \A u \in Threads \ {t} : pc[u] # "move"
  BY <1>2 DEF IInv, OwnRange, Linking
<1>8. Apart' /\ OwnRange' /\ InReach' /\ Grows
  BY <1>0, <1>2, <1>3, <1>4, <1>5, <1>6, <1>7, LogPart
<1>9. \A u \in Threads : ~Owner(u)
  <2>1. ASSUME NEW u \in Threads, Owner(u) PROVE FALSE
    <3>1. /\ local[u].next_load \in Positions
          /\ <<tail, local[u].next_load>> \in linked
      BY <2>1, LocalFacts DEF Owner, Knows
    <3>2. IsOp(tail, local[u].next_load) /\ IsOp(tail, local[t].end)
      BY <1>2, <3>1 DEF IsOp, Op, IInv, TypeOK
    <3>3. local[u].next_load = local[t].end
      <4>1. tail < local[u].next_load
        BY <1>1, <3>1, <3>2 DEF IInv, Apart
      <4>2. \/ local[u].next_load = local[t].end
            \/ local[u].next_load <= tail \/ local[t].end <= tail
        BY <1>1, <3>1, <3>2 DEF IInv, Apart
      <4>3. local[u].next_load \in Nat
        BY <3>1, SlotType
      <4> QED BY <1>1, <1>3, <4>1, <4>2, <4>3
    <3> QED BY <1>2, <3>1, <3>3 DEF Op
  <2> QED BY <2>1
<1>10. \A u \in Threads : ~Owner(u)'
  <2>1. ASSUME NEW u \in Threads, u # t PROVE ~Owner(u)'
    <3>1. pc[u] = "confirm" => local[u].from <= tail
      BY LocalFacts DEF Knows, Walking, Advancing
    <3>2. local[u].from \in Nat
      BY LocalFacts, SlotType
    <3>3. pc[u] = "confirm" => local[u].from # tail'
      BY <1>0, <1>1, <1>3, <3>1, <3>2
    <3>4. pc[u] \notin {"follow", "publish"}
      BY <1>9 DEF Owner
    <3> QED BY <1>4, <2>1, <3>3, <3>4 DEF Owner
  <2> QED BY <1>6, <2>1
<1>11. OneOwner'
  BY <1>10 DEF OneOwner
<1>12. SlotContents'
  <2>1. tail \in Nat /\ tail' \in Nat /\ \A i \in Slots : links[i] \in Nat
    BY <1>0, <1>1, SlotType DEF IInv, TypeOK
  <2>2. \A i \in Slots : links[i] <= tail => links[i] <= tail'
    BY <1>3, <2>1
  <2>3. linked \subseteq linked'
    BY <1>8 DEF Grows
  <2> QED BY <1>0, <2>2, <2>3 DEF IInv, SlotContents
<1>13. Kept'
  <2>1. ASSUME NEW s \in Positions, NEW e \in Positions, <<s, e>> \in linked', s > tail'
        PROVE  <<s, e>> \in linked /\ s > tail
    <3>1. s \in Nat /\ s > tail
      BY <1>0, <1>1, <1>3, <2>1, SlotType
    <3>2. <<s, e>> # Op(t)
      BY <1>1, <1>2, <3>1 DEF Op
    <3> QED BY <1>0, <2>1, <3>1, <3>2
  <2> QED BY <1>0, <2>1 DEF IInv, Kept
<1>14. \A p : p = tail' => Passed(p)'
  <2>1. \A p : p = tail => Passed(p)'
    BY <1>1, <1>5, <1>8, BoundaryKept DEF IInv
  <2>2. ASSUME NEW p \in Positions, Passed(p)', NEW e \in Positions,
               <<p, e>> \in linked'
        PROVE  Passed(e)'
    BY <1>5, <1>8, <2>2, LinksPassNext DEF LinksPass
  <2>3. <<tail, tail'>> \in linked'
    BY <1>0, <1>2 DEF Op
  <2> QED BY <1>0, <1>1, <2>1, <2>2, <2>3
<1>15. Walks'
  <2>1. ASSUME NEW u \in Threads PROVE Knows(pc[u], local[u])'
    <3>1. CASE u = t
      BY <1>4, <3>1 DEF Knows, Walking, Advancing
    <3>2. CASE u # t
      <4>1. pc[u] \notin {"follow", "publish"}
        BY <1>9 DEF Owner
      <4> QED BY <1>3, <1>4, <1>5, <1>8, <3>2, <4>1, KnowsKept
    <3> QED BY <3>1, <3>2
  <2> QED BY <2>1 DEF Walks
<1>16. Passed(tail)'
  BY <1>14 DEF Passed, Boundary
<1> QED BY <1>5, <1>8, <1>11, <1>12, <1>13, <1>15, <1>16 DEF IInv

(* A finished range that is not yet linked has not been passed. *)
LEMMA UnlinkedAhead ==
  ASSUME IInv, NEW s \in Positions, NEW e \in Positions, <<s, e>> \in finished,
         <<s, e>> \notin linked
  PROVE  tail <= s
<1>1. s \in Nat /\ tail \in Nat /\ IsOp(s, e) /\ s < e /\ e \in Nat
  BY SlotType DEF IInv, TypeOK, IsOp, Apart
<1>2. SUFFICES ASSUME s < tail PROVE FALSE
  BY <1>1
<1>3. s \in 0 .. tail - 1
  BY <1>1, <1>2
<1>4. PICK s2, e2 \in Positions : <<s2, e2>> \in linked /\ s2 <= s /\ s < e2
  BY <1>3 DEF IInv, Passed
<1>5. IsOp(s2, e2) /\ s2 \in Nat /\ e2 \in Nat
  BY <1>4, SlotType DEF IInv, TypeOK, IsOp
<1>6. \/ s = s2 /\ e = e2
      \/ e <= s2 \/ e2 <= s
  BY <1>1, <1>5 DEF IInv, Apart
<1> QED BY <1>1, <1>4, <1>5, <1>6

(* The link goes to a slot that no link ahead of the tail uses. *)
LEMMA StoreLinkInv ==
  ASSUME IInv, NEW t \in Threads, StoreLink(t)
  PROVE  IInv'
<1> DEFINE i == SlotIndex(local[t].start)
           l == [local[t] EXCEPT !.task = "add"]
<1>0. /\ pc[t] = "store" /\ links' = [links EXCEPT ![i] = local[t].end]
      /\ linked' = linked \cup {Op(t)} /\ GoTo(t, "load_tail", l)
      /\ UNCHANGED <<tail, sn, finished>> /\ "load_tail" \in Places
  BY DEF StoreLink, Op, Places, Advancing
<1>1. /\ local[t].start \in Positions /\ local[t].end \in Positions
      /\ tail \in Positions /\ tail \in Nat /\ local[t].end \in Nat
      /\ local[t].start \in Nat /\ i \in Slots /\ tail <= tail
  BY LocalFacts, SlotType
<1>2. Linking(t) /\ ~Looking(t) /\ Op(t) \in finished \ linked
  BY <1>0 DEF Linking, Looking, Advancing, IInv, OwnRange
<1>3. l \in Locals /\ l.task = "add"
  <2>1. l \in Locals
    BY LocalTypes, LocalFacts
  <2> QED BY <2>1, LocalFacts DEF Locals
<1>4. /\ pc' \in [Threads -> Places] /\ local' \in [Threads -> Locals]
      /\ \A u \in Threads \ {t} : pc'[u] = pc[u] /\ local'[u] = local[u]
      /\ pc'[t] = "load_tail" /\ local'[t] = l
  BY <1>0, <1>3, GoToTypes DEF IInv
<1>5. TypeOK'
  <2>1. linked' \subseteq finished'
    BY <1>0, <1>2 DEF IInv, TypeOK
  <2>2. links' \in [Slots -> Positions]
    BY <1>0, <1>1 DEF IInv, TypeOK
  <2> QED BY <1>0, <1>4, <2>1, <2>2 DEF IInv, TypeOK, Places, Advancing
<1>6. ~Looking(t)' /\ ~Linking(t)' /\ ~Owner(t)'
  BY <1>3, <1>4 DEF Looking, Linking, Owner, Advancing
<1>7. Apart' /\ OwnRange' /\ InReach' /\ Grows
  BY <1>0, <1>1, <1>2, <1>4, <1>5, <1>6, LogPart
<1>8. tail <= local[t].start /\ local[t].start < tail + Capacity
  BY <1>1, <1>2, UnlinkedAhead DEF Op, IInv, InReach
<1>9. /\ links'[i] = local[t].end
      /\ \A j \in Slots : j # i => links'[j] = links[j]
  BY <1>0, <1>1 DEF IInv, TypeOK
<1>10. \A s, e \in Positions : <<s, e>> \in linked' =>
         <<s, e>> \in linked \/ (s = local[t].start /\ e = local[t].end)
  BY <1>0 DEF Op
<1>11. Kept'
  <2>1. ASSUME NEW s \in Positions, NEW e \in Positions, <<s, e>> \in linked, s > tail
        PROVE  SlotIndex(s) # i
    <3>1. s \in Nat /\ Capacity \in Nat /\ e \in Nat
      BY SlotType
    <3>2. <<s, e>> \in finished /\ s < tail + Capacity
      BY <2>1 DEF IInv, TypeOK, InReach
    <3>3. s # local[t].start
      <4>1. IsOp(s, e) /\ IsOp(local[t].start, local[t].end)
        BY <1>2, <3>2 DEF IsOp, Op
      <4>2. s < e /\ local[t].start < local[t].end
        BY <1>1, <4>1 DEF IInv, Apart
      <4>3. \/ s = local[t].start /\ e = local[t].end
            \/ e <= local[t].start \/ local[t].end <= s
        BY <1>1, <4>1 DEF IInv, Apart
      <4>4. <<s, e>> # <<local[t].start, local[t].end>>
        BY <1>2, <2>1 DEF Op
      <4> QED BY <1>1, <3>1, <4>2, <4>3, <4>4
    <3>4. ASSUME SlotIndex(s) = i PROVE FALSE
      <4>1. s < local[t].start => s + Capacity <= local[t].start
        BY <1>1, <3>1, <3>4, LapApart
      <4>2. local[t].start < s => local[t].start + Capacity <= s
        BY <1>1, <3>1, <3>4, LapApart
      <4> QED BY <1>1, <1>8, <2>1, <3>1, <3>2, <3>3, <4>1, <4>2
    <3> QED BY <3>4
  <2>2. ASSUME NEW s \in Positions, NEW e \in Positions, <<s, e>> \in linked', s > tail
        PROVE  links'[SlotIndex(s)] = e
    <3>1. CASE <<s, e>> \in linked
      <4>1. SlotIndex(s) \in Slots /\ SlotIndex(s) # i
        BY <2>1, <2>2, <3>1, SlotType
      <4> QED BY <1>9, <2>2, <3>1, <4>1 DEF IInv, Kept
    <3>2. CASE s = local[t].start /\ e = local[t].end
      BY <1>9, <3>2
    <3> QED BY <1>10, <2>2, <3>1, <3>2
  <2> QED BY <1>0, <2>2 DEF Kept
<1>12. SlotContents'
  <2>1. ASSUME NEW j \in Slots
        PROVE  \/ links'[j] <= tail' /\ SlotIndex(links'[j]) = j
               \/ links'[j] = 0
               \/ \E s \in Positions : <<s, links'[j]>> \in linked' /\ SlotIndex(s) = j
    <3>1. CASE j = i
      <4>1. <<local[t].start, links'[j]>> \in linked'
        BY <1>0, <1>9, <3>1 DEF Op
      <4> QED BY <1>1, <3>1, <4>1
    <3>2. CASE j # i
      <4>1. linked \subseteq linked'
        BY <1>0
      <4> QED BY <1>0, <1>9, <3>2, <4>1 DEF IInv, SlotContents
    <3> QED BY <3>1, <3>2
  <2> QED BY <2>1 DEF SlotContents
<1>13. OneOwner'
  <2>1. \A u \in Threads : Owner(u)' => Owner(u) /\ u # t
    BY <1>0, <1>4, <1>6 DEF Owner
  <2>2. ASSUME NEW u \in Threads, Owner(u)
        PROVE  SlotIndex(tail) # i
    <3>1. /\ local[u].next_load \in Positions
          /\ <<tail, local[u].next_load>> \in linked
      BY <2>2, LocalFacts DEF Owner, Knows
    <3>2. IsOp(tail, local[u].next_load) /\ IsOp(local[t].start, local[t].end)
      BY <1>2, <3>1 DEF IsOp, Op, IInv, TypeOK
    <3>3. tail # local[t].start
      <4>1. tail < local[u].next_load /\ local[t].start < local[t].end
        BY <1>1, <3>1, <3>2 DEF IInv, Apart
      <4>2. \/ tail = local[t].start /\ local[u].next_load = local[t].end
            \/ local[u].next_load <= local[t].start \/ local[t].end <= tail
        BY <1>1, <3>1, <3>2 DEF IInv, Apart
      <4>3. local[u].next_load \in Nat
        BY <3>1, SlotType
      <4>4. <<tail, local[u].next_load>> # <<local[t].start, local[t].end>>
        BY <1>2, <3>1 DEF Op
      <4> QED BY <1>1, <4>1, <4>2, <4>3, <4>4
    <3>4. tail < local[t].start /\ Capacity \in Nat
      BY <1>1, <1>8, <3>3, SlotType
    <3>5. SlotIndex(tail) = i => tail + Capacity <= local[t].start
      BY <1>1, <3>4, LapApart
    <3> QED BY <1>1, <1>8, <3>4, <3>5
  <2>3. SlotIndex(tail) \in Slots
    BY <1>1, SlotType
  <2> QED BY <1>0, <1>9, <2>1, <2>2, <2>3 DEF IInv, OneOwner
<1>14. Walks'
  <2>1. ASSUME NEW u \in Threads PROVE Knows(pc[u], local[u])'
    <3>1. CASE u = t
      BY <1>4, <3>1 DEF Knows, Walking, Advancing
    <3>2. CASE u # t
      BY <1>0, <1>1, <1>4, <1>5, <1>7, <3>2, KnowsKept
    <3> QED BY <3>1, <3>2
  <2> QED BY <2>1 DEF Walks
<1>15. Passed(tail)'
  <2>1. \A p : p = tail => Passed(p)'
    BY <1>1, <1>5, <1>7, BoundaryKept DEF IInv
  <2> QED BY <1>0, <2>1 DEF Passed, Boundary
<1> QED BY <1>5, <1>7, <1>11, <1>12, <1>13, <1>14, <1>15 DEF IInv

(***************************************************************************)
(* The compare-exchange replaces the link at the tail, or what a later     *)
(* owner of the slot left there; never the link of an operation ahead.     *)
(***************************************************************************)
LEMMA LockSlotInv ==
  ASSUME IInv, NEW t \in Threads, LockSlot(t)
  PROVE  IInv'
<1> DEFINE i == SlotIndex(local[t].position)
<1>0. pc[t] = "lock" /\ UNCHANGED <<tail, sn, finished, linked>> /\ "confirm" \in Places
  BY DEF LockSlot, Places, Advancing
<1>1. /\ local[t] \in Locals /\ local[t].from \in Positions
      /\ local[t].next_load \in Positions /\ local[t].from \in Nat
      /\ local[t].next_load \in Nat /\ local[t].position = local[t].from
      /\ local[t].from <= tail /\ Boundary(local[t].from)
      /\ <<local[t].from, local[t].next_load>> \in linked
      /\ local[t].from < local[t].next_load
      /\ tail \in Positions /\ tail \in Nat /\ i \in Slots
      /\ i = SlotIndex(local[t].from) /\ tail <= tail
  BY <1>0, LocalFacts, SlotType DEF Knows, Walking, Advancing
<1>2. CASE links[i] # local[t].next_load
  <2>1. Retry(t) /\ Quiet
    BY <1>0, <1>2 DEF LockSlot, Quiet
  <2> QED BY <1>0, <2>1, RetryInv
<1>3. CASE links[i] = local[t].next_load
  <2>0. links' = [links EXCEPT ![i] = local[t].from] /\ GoTo(t, "confirm", local[t])
    BY <1>1, <1>3 DEF LockSlot
  <2>1. /\ pc' \in [Threads -> Places] /\ local' = local
        /\ \A u \in Threads \ {t} : pc'[u] = pc[u]
        /\ pc'[t] = "confirm"
    <3>1. local' = local
      BY <2>0 DEF GoTo, IInv, TypeOK
    <3> QED BY <1>0, <1>1, <2>0, <3>1, GoToTypes DEF IInv
  <2>2. TypeOK'
    <3>1. links' \in [Slots -> Positions]
      BY <1>1, <2>0 DEF IInv, TypeOK
    <3> QED BY <1>0, <2>1, <3>1 DEF IInv, TypeOK, Places, Advancing
  <2>3. /\ ~Linking(t)' /\ (Looking(t)' <=> Looking(t))
        /\ \A u \in Threads : local'[u] = local[u]
    BY <1>0, <2>1 DEF Looking, Linking, Advancing
  <2>4. Apart' /\ OwnRange' /\ InReach' /\ Grows
    BY <1>0, <1>1, <2>1, <2>2, <2>3, LogPart
  <2>5. links'[i] = local[t].from /\ \A j \in Slots : j # i => links'[j] = links[j]
    BY <1>1, <2>0 DEF IInv, TypeOK
  <2>6. Kept'
    <3>1. ASSUME NEW s \in Positions, NEW e \in Positions, <<s, e>> \in linked, s > tail
          PROVE  SlotIndex(s) # i
      <4>1. s \in Nat /\ e \in Nat /\ links[SlotIndex(s)] = e
        BY <3>1, SlotType DEF IInv, Kept
      <4>2. IsOp(s, e) /\ IsOp(local[t].from, local[t].next_load) /\ s < e
        BY <1>1, <3>1 DEF IsOp, IInv, TypeOK, Apart
      <4>3. \/ s = local[t].from
            \/ e <= local[t].from \/ local[t].next_load <= s
        BY <1>1, <4>2 DEF IInv, Apart
      <4>4. e # local[t].next_load
        BY <1>1, <3>1, <4>1, <4>2, <4>3
      <4> QED BY <1>3, <4>1, <4>4
    <3>2. ASSUME NEW s \in Positions, NEW e \in Positions, <<s, e>> \in linked, s > tail
          PROVE  links'[SlotIndex(s)] = e
      BY <2>5, <3>1, <3>2, SlotType DEF IInv, Kept
    <3> QED BY <1>0, <3>2 DEF Kept
  <2>7. SlotContents'
    <3>1. ASSUME NEW j \in Slots
          PROVE  \/ links'[j] <= tail' /\ SlotIndex(links'[j]) = j
                 \/ links'[j] = 0
                 \/ \E s \in Positions : <<s, links'[j]>> \in linked' /\ SlotIndex(s) = j
      <4>1. CASE j = i
        BY <1>0, <1>1, <2>5, <4>1
      <4>2. CASE j # i
        BY <1>0, <2>5, <4>2 DEF IInv, SlotContents
      <4> QED BY <4>1, <4>2
    <3> QED BY <3>1 DEF SlotContents
  <2>8. OneOwner'
    <3>1. \A u \in Threads : Owner(u)' => Owner(u) \/ (u = t /\ local[t].from = tail)
      BY <1>0, <2>1 DEF Owner
    <3>2. SlotIndex(tail) \in Slots /\ links[SlotIndex(tail)] \in Nat
      BY <1>1, SlotType DEF IInv, TypeOK
    <3>3. ~Owner(t)
      BY <1>0 DEF Owner
    <3>4. ASSUME NEW u \in Threads, Owner(u) PROVE local[t].from # tail
      <4>1. links[SlotIndex(tail)] <= tail
        BY <3>4 DEF IInv, OneOwner
      <4> QED BY <1>1, <1>3, <4>1
    <3>5. ASSUME NEW u \in Threads, Owner(u)' PROVE links'[SlotIndex(tail)] <= tail
      <4>1. CASE SlotIndex(tail) = i
        BY <1>1, <2>5, <4>1
      <4>2. CASE SlotIndex(tail) # i
        <5>1. Owner(u)
          BY <1>1, <3>1, <3>5, <4>2
        <5> QED BY <2>5, <3>2, <4>2, <5>1 DEF IInv, OneOwner
      <4> QED BY <4>1, <4>2
    <3>6. \A u, v \in Threads : Owner(u)' /\ Owner(v)' => u = v
      BY <3>1, <3>4 DEF IInv, OneOwner
    <3> QED BY <1>0, <3>5, <3>6 DEF OneOwner
  <2>9. \A p : p = local[t].from => Boundary(p)'
    BY <1>1, <2>2, <2>4, BoundaryKept DEF IInv
  <2>10. Walks'
    <3>1. ASSUME NEW u \in Threads PROVE Knows(pc[u], local[u])'
      <4>1. CASE u = t
        BY <1>0, <1>1, <2>1, <2>9, <4>1 DEF Knows, Walking, Advancing
      <4>2. CASE u # t
        BY <1>0, <1>1, <2>1, <2>2, <2>4, <4>2, KnowsKept
      <4> QED BY <4>1, <4>2
    <3> QED BY <3>1 DEF Walks
  <2>11. Passed(tail)'
    <3>1. \A p : p = tail => Passed(p)'
      BY <1>1, <2>2, <2>4, BoundaryKept DEF IInv
    <3> QED BY <1>0, <3>1 DEF Passed, Boundary
  <2> QED BY <2>2, <2>4, <2>6, <2>7, <2>8, <2>10, <2>11 DEF IInv
<1> QED BY <1>2, <1>3

(* The owner publishes how far it came; it is the only one. *)
LEMMA PublishTailInv ==
  ASSUME IInv, NEW t \in Threads, PublishTail(t)
  PROVE  IInv'
<1>0. /\ pc[t] = "publish" /\ tail' = local[t].position /\ Return(t)
      /\ UNCHANGED <<links, sn, finished, linked>>
  BY DEF PublishTail
<1>1. /\ local[t].position \in Positions /\ tail \in Positions /\ tail \in Nat
      /\ local[t].position \in Nat /\ tail = local[t].from
      /\ tail < local[t].position /\ Passed(local[t].position)
      /\ local[t].next_load \in Positions
      /\ <<tail, local[t].next_load>> \in linked /\ tail <= local[t].position
  <2>1. /\ local[t].position \in Positions /\ tail \in Positions /\ tail \in Nat
        /\ local[t].next_load \in Positions /\ Knows("publish", local[t])
    BY <1>0, LocalFacts
  <2>2. /\ tail = local[t].from /\ tail < local[t].position
        /\ Passed(local[t].position)
        /\ <<local[t].from, local[t].next_load>> \in linked
    BY <2>1 DEF Knows
  <2>3. local[t].position \in Nat
    BY <2>1, SlotType
  <2>4. tail <= local[t].position
    BY <2>1, <2>2, <2>3
  <2> QED BY <2>1, <2>2, <2>3, <2>4
<1>2. Owner(t) /\ ~Linking(t)
  BY <1>0 DEF Owner, Linking
<1>3. /\ pc' \in [Threads -> Places] /\ local' \in [Threads -> Locals]
      /\ \A u \in Threads \ {t} : pc'[u] = pc[u] /\ local'[u] = local[u]
      /\ \/ /\ local[t].task = "space" /\ pc'[t] = "look"
            /\ local'[t].start = local[t].start /\ local'[t].end = local[t].end
         \/ local[t].task # "space" /\ pc'[t] = "idle"
  BY <1>0, ReturnTypes DEF IInv
<1>4. TypeOK'
  BY <1>0, <1>1, <1>3 DEF IInv, TypeOK, Places, Advancing
<1>5. /\ Looking(t)' <=> Looking(t)
      /\ ~Linking(t)' /\ ~Owner(t)'
      /\ Looking(t)' => local'[t].start = local[t].start
                        /\ local'[t].end = local[t].end
  BY <1>0, <1>3 DEF Looking, Linking, Owner, Advancing
<1>6. \A u \in Threads : pc[u] # "move"
  <2>1. ASSUME NEW u \in Threads, pc[u] = "move" PROVE FALSE
    <3>1. /\ tail = local[u].start /\ Op(u) \in finished \ linked
          /\ local[u].end \in Positions
      BY <2>1, LocalFacts DEF IInv, OwnRange, Linking
    <3>2. IsOp(tail, local[t].next_load) /\ IsOp(tail, local[u].end)
      BY <1>1, <3>1 DEF IsOp, Op, IInv, TypeOK
    <3>3. tail < local[t].next_load /\ tail < local[u].end
      BY <1>1, <3>1, <3>2 DEF IInv, Apart
    <3>4. \/ local[t].next_load = local[u].end
          \/ local[t].next_load <= tail \/ local[u].end <= tail
      BY <1>1, <3>1, <3>2 DEF IInv, Apart
    <3>5. local[t].next_load \in Nat /\ local[u].end \in Nat
      BY <1>1, <3>1, SlotType
    <3>6. local[t].next_load = local[u].end
      BY <1>1, <3>3, <3>4, <3>5
    <3> QED BY <1>1, <3>1, <3>6 DEF Op
  <2> QED BY <2>1
<1>7. tail <= tail' /\ tail < tail'
  BY <1>0, <1>1
<1>8. Apart' /\ OwnRange' /\ InReach' /\ Grows
  BY <1>0, <1>3, <1>4, <1>5, <1>6, <1>7, LogPart
<1>9. \A u \in Threads \ {t} : ~Owner(u)
  BY <1>2 DEF IInv, OneOwner
<1>10. \A u \in Threads : ~Owner(u)'
  <2>1. ASSUME NEW u \in Threads, u # t PROVE ~Owner(u)'
    <3>1. pc[u] = "confirm" => local[u].from <= tail
      BY LocalFacts DEF Knows, Walking, Advancing
    <3>2. local[u].from \in Nat
      BY LocalFacts, SlotType
    <3>3. pc[u] = "confirm" => local[u].from # tail'
      BY <1>0, <1>1, <1>7, <3>1, <3>2
    <3>4. pc[u] \notin {"follow", "publish"}
      BY <1>9, <2>1 DEF Owner
    <3> QED BY <1>3, <2>1, <3>3, <3>4 DEF Owner
  <2> QED BY <1>5, <2>1
<1>11. OneOwner'
  BY <1>10 DEF OneOwner
<1>12. SlotContents'
  <2>1. tail' \in Nat /\ \A i \in Slots : links[i] \in Nat
    BY <1>0, <1>1, SlotType DEF IInv, TypeOK
  <2>2. \A i \in Slots : links[i] <= tail => links[i] <= tail'
    BY <1>1, <1>7, <2>1
  <2> QED BY <1>0, <2>2 DEF IInv, SlotContents
<1>13. Kept'
  <2>1. \A s \in Positions : s > tail' => s > tail
    BY <1>0, <1>1, <1>7, SlotType
  <2> QED BY <1>0, <2>1 DEF IInv, Kept
<1>14. Passed(tail)'
  <2>1. \A p : p = local[t].position => Passed(p)'
    BY <1>1, <1>4, <1>8, BoundaryKept DEF IInv
  <2> QED BY <1>0, <2>1 DEF Passed, Boundary
<1>15. Walks'
  <2>1. ASSUME NEW u \in Threads PROVE Knows(pc[u], local[u])'
    <3>1. CASE u = t
      BY <1>3, <3>1 DEF Knows, Walking, Advancing
    <3>2. CASE u # t
      <4>1. pc[u] \notin {"follow", "publish"}
        BY <1>9, <3>2 DEF Owner
      <4> QED BY <1>3, <1>4, <1>7, <1>8, <3>2, <4>1, KnowsKept
    <3> QED BY <3>1, <3>2
  <2> QED BY <2>1 DEF Walks
<1> QED BY <1>4, <1>8, <1>11, <1>12, <1>13, <1>14, <1>15 DEF IInv

(* Advance preserves the invariant. *)
LEMMA AdvanceInv ==
  ASSUME IInv, NEW t \in Threads, AdvanceStep(t)
  PROVE  IInv'
BY LoadTailInv, LoadSlotInv, LappedInv, LockSlotInv, ConfirmInv, FollowInv,
   PublishTailInv DEF AdvanceStep

(* So does a step that changes nothing. *)
LEMMA UnchangedInv == IInv /\ UNCHANGED vars => IInv'
<1> SUFFICES ASSUME IInv, UNCHANGED vars PROVE IInv'
  OBVIOUS
<1>1. UNCHANGED <<links, tail, sn, finished, linked, pc, local>>
  BY DEF vars
<1>2. /\ \A t \in Threads : /\ Looking(t)' <=> Looking(t)
                            /\ Linking(t)' <=> Linking(t)
                            /\ Owner(t)' <=> Owner(t)
                            /\ Op(t)' = Op(t)
      /\ \A s, e : IsOp(s, e)' <=> IsOp(s, e)
  BY <1>1 DEF Looking, Linking, Owner, IsOp, Op
<1>3. TypeOK' /\ Apart' /\ OwnRange' /\ InReach' /\ SlotContents'
  BY <1>1, <1>2, ZenonT(40) DEF IInv, TypeOK, Apart, OwnRange, InReach, SlotContents
<1>4. \A p : (Boundary(p)' <=> Boundary(p)) /\ (Passed(p)' <=> Passed(p))
  BY <1>1, <1>2 DEF Boundary, Passed
<1>5. Passed(tail)' /\ Walks'
  BY <1>1, <1>4 DEF IInv, Walks, Knows
<1>6. OneOwner' /\ Kept'
  BY <1>1, <1>2 DEF IInv, OneOwner, Kept
<1> QED BY <1>3, <1>5, <1>6 DEF IInv

(* Every step preserves the invariant. *)
LEMMA NextInv == IInv /\ [Next]_vars => IInv'
<1> SUFFICES ASSUME IInv, [Next]_vars PROVE IInv'
  OBVIOUS
<1>1. ASSUME NEW t \in Users, Reserve(t) \/ UserStep(t) PROVE IInv'
  <2>1. t \in Threads
    BY DEF Threads
  <2> QED BY <1>1, <2>1, ReserveInv, LookForSpaceInv, AddLinkInv, MoveTailInv,
             StoreLinkInv, AdvanceInv DEF UserStep
<1>2. ASSUME NEW t \in Trackers, Track(t) \/ AdvanceStep(t) PROVE IInv'
  <2>1. t \in Threads
    BY DEF Threads
  <2> QED BY <1>2, <2>1, TrackInv, AdvanceInv
<1> QED BY <1>1, <1>2, UnchangedInv DEF Next, AllPublished

(* The invariant holds in every state. *)
LEMMA Inductive == Spec => []IInv
<1> QED BY InitIInv, NextInv, PTL DEF Spec

-----------------------------------------------------------------------------
(* Theorems *)

(***************************************************************************)
(* Whoever is past the confirmation of its lock finds the tail where it    *)
(* read it (ut_a(from == m_tail.load()) in advance_tail_until), and so the *)
(* tail is published by one thread at a time, for any capacity, any number *)
(* of threads and any lengths of the operations.                           *)
(***************************************************************************)
THEOREM TailIsOwnedHolds == Spec => []TailIsOwned
<1>1. IInv => TailIsOwned
  BY DEF IInv, Walks, Knows, TailIsOwned
<1> QED BY <1>1, Inductive, PTL

(***************************************************************************)
(* No link that the tail has not reached is overwritten, neither by a link *)
(* of the next lap (has_space) nor by a thread that slept since it read    *)
(* its slot (the compare-exchange in advance_tail_until).                  *)
(***************************************************************************)
THEOREM LinksAreKeptHolds == Spec => []LinksAreKept
<1>1. ASSUME IInv, NEW op \in linked, op[1] > tail
      PROVE  links[SlotIndex(op[1])] = op[2]
  <2>1. op[1] \in Positions /\ op[2] \in Positions /\ op = <<op[1], op[2]>>
    BY <1>1 DEF IInv, TypeOK
  <2> QED BY <1>1, <2>1 DEF IInv, Kept
<1>2. IInv => LinksAreKept
  BY <1>1 DEF LinksAreKept
<1> QED BY <1>2, Inductive, PTL

(* A step of the buffer is a step of FinishedPrefix, or changes nothing a  *)
(* reader of the tail can see.                                             *)
LEMMA PublishSimulation ==
  ASSUME IInv, IInv', UNCHANGED <<sn, finished>>, tail < tail'
  PROVE  Prefix!Publish
<1>1. tail \in Nat /\ tail' \in Nat /\ sn \in Nat /\ tail' \in Positions
  BY SlotType DEF IInv, TypeOK
<1>2. tail' <= sn
  BY DEF IInv, Passed, Boundary
<1>3. tail' \in tail + 1 .. sn
  BY <1>1, <1>2
<1>4. ASSUME NEW x \in tail .. tail' - 1
      PROVE  \E op \in finished : op[1] <= x /\ x < op[2]
  <2>0. \A a, b \in Nat : a .. b - 1 \subseteq 0 .. b - 1
    OBVIOUS
  <2>1. x \in 0 .. tail' - 1
    BY <1>1, <2>0
  <2>2. \A y \in 0 .. tail' - 1 :
          \E s, e \in Positions : <<s, e>> \in linked' /\ s <= y /\ y < e
    BY DEF IInv, Passed
  <2>3. PICK s, e \in Positions : <<s, e>> \in linked' /\ s <= x /\ x < e
    BY <2>1, <2>2
  <2>4. <<s, e>> \in finished
    BY <2>3 DEF IInv, TypeOK
  <2> QED BY <2>3, <2>4
<1>5. Prefix!Covered(tail')
  BY <1>4 DEF Prefix!Covered
<1> QED BY <1>3, <1>5 DEF Prefix!Publish

(* Every step of Link_buf is a step of FinishedPrefix, or none. *)
LEMMA StepSimulation ==
  IInv /\ IInv' /\ [Next]_vars => [Prefix!Next]_(Prefix!vars)
<1> SUFFICES ASSUME IInv, IInv', [Next]_vars
             PROVE  Prefix!Next \/ UNCHANGED <<sn, finished, tail>>
  BY DEF Prefix!vars
<1>1. CASE UNCHANGED vars
  BY <1>1 DEF vars
<1>2. ASSUME NEW t \in Threads, Reserve(t) PROVE Prefix!Next
  <2>1. Prefix!Reserve
    BY <1>2 DEF Reserve, Prefix!Reserve
  <2> QED BY <2>1 DEF Prefix!Next
<1>3. ASSUME NEW t \in Threads, LookForSpace(t)
      PROVE  Prefix!Next \/ UNCHANGED <<sn, finished, tail>>
  <2>1. CASE ~HasSpace(local[t].start)
    BY <1>3, <2>1 DEF LookForSpace
  <2>2. CASE HasSpace(local[t].start)
    <3>1. /\ pc[t] = "look" /\ finished' = finished \cup {<<local[t].start, local[t].end>>}
          /\ UNCHANGED <<sn, tail>>
      BY <1>3, <2>2 DEF LookForSpace
    <3>2. local[t].start \in Positions /\ local[t].end \in Positions /\ sn \in Nat
      BY LocalFacts, SlotType DEF IInv, TypeOK
    <3>3. IsOp(local[t].start, local[t].end)
      BY <3>1 DEF IsOp, Looking
    <3>4. local[t].start < local[t].end /\ local[t].end <= sn
      BY <3>2, <3>3 DEF IInv, Apart
    <3>5. local[t].start \in 0 .. sn /\ local[t].end \in 0 .. sn
      BY <3>2, <3>4, SlotType
    <3>6. Prefix!Finish
      BY <3>1, <3>4, <3>5 DEF Prefix!Finish
    <3> QED BY <3>6 DEF Prefix!Next
  <2> QED BY <2>1, <2>2
<1>4. ASSUME NEW t \in Threads, MoveTail(t) PROVE Prefix!Next
  <2>1. /\ pc[t] = "move" /\ tail' = local[t].end /\ UNCHANGED <<sn, finished>>
    BY <1>4 DEF MoveTail
  <2>2. /\ tail = local[t].start /\ Op(t) \in finished
        /\ local[t].start \in Positions /\ local[t].end \in Positions
    BY <2>1, LocalFacts DEF IInv, OwnRange, Linking
  <2>3. IsOp(local[t].start, local[t].end)
    BY <2>2 DEF IsOp, Op
  <2>4. tail < tail'
    BY <2>1, <2>2, <2>3 DEF IInv, Apart
  <2> QED BY <2>1, <2>4, PublishSimulation DEF Prefix!Next
<1>5. ASSUME NEW t \in Threads, PublishTail(t) PROVE Prefix!Next
  <2>1. /\ pc[t] = "publish" /\ tail' = local[t].position
        /\ UNCHANGED <<sn, finished>>
    BY <1>5 DEF PublishTail
  <2>2. tail < tail'
    BY <2>1, LocalFacts DEF Knows
  <2> QED BY <2>1, <2>2, PublishSimulation DEF Prefix!Next
<1>6. ASSUME NEW t \in Threads,
             \/ AddLink(t) \/ StoreLink(t) \/ Track(t) \/ LoadTail(t)
             \/ LoadSlot(t) \/ Lapped(t) \/ LockSlot(t) \/ Confirm(t)
             \/ TryAgain(t) \/ Follow(t)
      PROVE  UNCHANGED <<sn, finished, tail>>
  BY <1>6 DEF AddLink, StoreLink, Track, LoadTail, LoadSlot, Lapped, LockSlot,
              Confirm, TryAgain, Follow
<1>7. Users \subseteq Threads /\ Trackers \subseteq Threads
  BY DEF Threads
<1> QED BY <1>1, <1>2, <1>3, <1>4, <1>5, <1>6, <1>7
        DEF Next, UserStep, AdvanceStep, AllPublished

(***************************************************************************)
(* The tail implements FinishedPrefix: it only moves forward, and only     *)
(* over ranges that are finished, whoever publishes it                     *)
(* (add_link_advance_tail, advance_tail).  This is what the log writer and *)
(* the checkpointer rely on.                                               *)
(***************************************************************************)
THEOREM Refinement == Spec => ImplementsFinishedPrefix
<1>1. Init => Prefix!Init
  BY DEF Init, Prefix!Init
<1> QED BY <1>1, StepSimulation, Inductive, PTL
        DEF Spec, ImplementsFinishedPrefix, Prefix!Spec
=============================================================================
