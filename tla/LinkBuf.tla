------------------------------ MODULE LinkBuf ------------------------------
(***************************************************************************)
(* The lock-free ring buffer of links with which InnoDB finds out up to    *)
(* which position of the redo log all concurrent writes are complete       *)
(* (Link_buf in storage/innobase/include/ut0link_buf.h).  A thread that    *)
(* finished the range [start, end) stores end in the slot of start; the    *)
(* tail is advanced along the links, by any thread.  There is no mutex:    *)
(* to take the link at the tail a thread replaces it in its slot by a      *)
(* position that leads nowhere.  Slots are not reset when they are         *)
(* passed, and are used again once the tail is a lap ahead.                *)
(*                                                                         *)
(* Every step is one access to an atomic variable.  The accesses are taken *)
(* to be sequentially consistent.                                          *)
(***************************************************************************)
EXTENDS Naturals, FiniteSets

CONSTANTS
  Users,       \* threads that write to the redo log
  Trackers,    \* threads that only advance the tail (log writer, closer)
  Capacity,    \* m_capacity
  MaxPosition, \* bound: positions
  MaxLength    \* bound: length of an operation

Threads == Users \cup Trackers

ASSUME LinkBufAssumption ==
  /\ Users \cap Trackers = {}
  /\ Capacity \in Nat \ {0}
  /\ MaxPosition \in Nat /\ MaxLength \in Nat

VARIABLES
  links,     \* m_links
  tail,      \* m_tail
  sn,        \* log.sn: the next position to be reserved
  finished,  \* ranges whose writes are complete
  linked,    \* those of them whose link was stored
  pc,        \* where each thread stands
  local      \* its local variables

vars == <<links, tail, sn, finished, linked, pc, local>>

Slots == 0 .. Capacity - 1
Positions == 0 .. MaxPosition

(***************************************************************************)
(* task: for what the thread advances the tail; start, end: the range it   *)
(* writes (start_lsn, end_lsn); the others are the local variables of      *)
(* advance_tail_until.                                                     *)
(***************************************************************************)
Locals ==
  [task : {"space", "add", "track"}, start : Positions, end : Positions,
   position : Positions, from : Positions, next_load : Positions,
   retry : 0 .. 2]

(* The local variables of a thread that is not at work. *)
Unset == [task |-> "track", start |-> 0, end |-> 0, position |-> 0,
          from |-> 0, next_load |-> 0, retry |-> 0]

TypeOK ==
  /\ links \in [Slots -> Positions]
  /\ tail \in Positions /\ sn \in Positions
  /\ finished \subseteq Positions \X Positions
  /\ linked \subseteq finished
  /\ pc \in [Threads -> {"idle", "look", "link", "move", "store", "load_tail",
               "load_slot", "lapped", "lock", "confirm", "again", "follow",
               "publish"}]
  /\ local \in [Threads -> Locals]

Init ==
  /\ links = [i \in Slots |-> 0]
  /\ tail = 0 /\ sn = 0
  /\ finished = {} /\ linked = {}
  /\ pc = [t \in Threads |-> "idle"]
  /\ local = [t \in Threads |-> Unset]

SlotIndex(p) == p % Capacity

(* Thread t goes on at a place, with new values of its local variables. *)
GoTo(t, place, l) ==
  /\ pc' = [pc EXCEPT ![t] = place]
  /\ local' = [local EXCEPT ![t] = l]

-----------------------------------------------------------------------------
(* Writing to the redo log *)

(* A range of the log is reserved and written. *)
Reserve(t) ==
  /\ pc[t] = "idle"
  /\ \E len \in 1 .. MaxLength :
       /\ sn + len <= MaxPosition
       /\ sn' = sn + len
       /\ GoTo(t, "look", [Unset EXCEPT !.start = sn, !.end = sn + len])
  /\ UNCHANGED <<links, tail, finished, linked>>

(* mutant: the slot one lap ahead of the tail is taken for a free one *)
HasSpace_OneMore(p) == tail + Capacity >= p

HasSpace(p) == tail + Capacity > p

(* has_space: is the slot of start free, or does it become so? *)
LookForSpace(t) ==
  /\ pc[t] = "look"
  /\ IF HasSpace(local[t].start)
     THEN /\ finished' = finished \cup {<<local[t].start, local[t].end>>}
          /\ GoTo(t, "link", local[t])
     ELSE /\ GoTo(t, "load_tail", [local[t] EXCEPT !.task = "space"])
          /\ UNCHANGED finished
  /\ UNCHANGED <<links, tail, sn, linked>>

(***************************************************************************)
(* add_link_advance_tail: the operation at the tail moves it, since nobody *)
(* else can; any other stores its link and then tries to advance the tail. *)
(***************************************************************************)
AddLink(t) ==
  /\ pc[t] = "link"
  /\ GoTo(t, IF tail = local[t].start THEN "move" ELSE "store", local[t])
  /\ UNCHANGED <<links, tail, sn, finished, linked>>

MoveTail(t) ==
  /\ pc[t] = "move"
  /\ tail' = local[t].end
  /\ linked' = linked \cup {<<local[t].start, local[t].end>>}
  /\ GoTo(t, "idle", Unset)
  /\ UNCHANGED <<links, sn, finished>>

StoreLink(t) ==
  /\ pc[t] = "store"
  /\ links' = [links EXCEPT ![SlotIndex(local[t].start)] = local[t].end]
  /\ linked' = linked \cup {<<local[t].start, local[t].end>>}
  /\ GoTo(t, "load_tail", [local[t] EXCEPT !.task = "add"])
  /\ UNCHANGED <<tail, sn, finished>>

(* advance_tail, called by a thread that writes nothing itself. *)
Track(t) ==
  /\ t \in Trackers
  /\ pc[t] = "idle"
  /\ tail < sn
  /\ GoTo(t, "load_tail", Unset)
  /\ UNCHANGED <<links, tail, sn, finished, linked>>

-----------------------------------------------------------------------------
(* advance_tail_until *)

MaxRetry(t) == IF local[t].task = "space" THEN 0 ELSE 1

(* A thread that added a link does not go further than the end of it. *)
StopCondition(t, p) == local[t].task = "add" /\ p > local[t].start

(* Where advance_tail_until returns to. *)
Return(t) ==
  IF local[t].task = "space"
  THEN GoTo(t, "look", [Unset EXCEPT !.start = local[t].start,
                                     !.end = local[t].end])
  ELSE GoTo(t, "idle", Unset)

(* The thread reads the tail and starts from there. *)
AtTail(l) == [l EXCEPT !.position = tail, !.from = tail]

LoadTail(t) ==
  /\ pc[t] = "load_tail"
  /\ GoTo(t, "load_slot", AtTail(local[t]))
  /\ UNCHANGED <<links, tail, sn, finished, linked>>

(* The link that was loaded is followed, or there is none to follow. *)
TakeOrReturn(t, l) ==
  IF l.next_load <= l.position \/ StopCondition(t, l.position)
  THEN Return(t)
  ELSE GoTo(t, "lock", l)

(* mutant: a slot of the next lap is not told from one of this lap *)
LoadSlot_AnyLap(t) ==
  /\ pc[t] = "load_slot"
  /\ TakeOrReturn(t, [local[t] EXCEPT
                        !.next_load = links[SlotIndex(local[t].position)]])
  /\ UNCHANGED <<links, tail, sn, finished, linked>>

LoadSlot(t) ==
  LET next == links[SlotIndex(local[t].position)]
      loaded == [local[t] EXCEPT !.next_load = next]
  IN
  /\ pc[t] = "load_slot"
  /\ IF next >= local[t].position + Capacity
     THEN GoTo(t, "lapped", loaded)
     ELSE TakeOrReturn(t, loaded)
  /\ UNCHANGED <<links, tail, sn, finished, linked>>

(* mutant: a link that is a lap long is taken for one of another lap *)
Lapped_GiveUp(t) ==
  /\ pc[t] = "lapped"
  /\ IF tail # local[t].from
     THEN GoTo(t, "load_slot", AtTail(local[t]))
     ELSE Return(t)
  /\ UNCHANGED <<links, tail, sn, finished, linked>>

(* The slot was used again, or its link is at least a lap long. *)
Lapped(t) ==
  /\ pc[t] = "lapped"
  /\ IF tail # local[t].from
     THEN GoTo(t, "load_slot", AtTail(local[t]))
     ELSE TakeOrReturn(t, AtTail(local[t]))
  /\ UNCHANGED <<links, tail, sn, finished, linked>>

(* One try more was in vain. *)
Retry(t) ==
  IF local[t].retry + 1 > MaxRetry(t)
  THEN Return(t)
  ELSE GoTo(t, "again", [local[t] EXCEPT !.retry = @ + 1])

(* The compare-exchange on the slot. *)
LockSlot(t) ==
  LET i == SlotIndex(local[t].position) IN
  /\ pc[t] = "lock"
  /\ IF links[i] = local[t].next_load
     THEN /\ links' = [links EXCEPT ![i] = local[t].position]
          /\ GoTo(t, "confirm", local[t])
     ELSE Retry(t) /\ UNCHANGED links
  /\ UNCHANGED <<tail, sn, finished, linked>>

(* The thread has the tail, and goes on from the end of the link. *)
TakeLink(t) ==
  GoTo(t, "follow", [local[t] EXCEPT !.position = local[t].next_load])

(***************************************************************************)
(* The thread may have slept since it read the tail, and have taken a link *)
(* the tail has passed long ago: it looks at the tail again.               *)
(***************************************************************************)
Confirm(t) ==
  /\ pc[t] = "confirm"
  /\ IF tail = local[t].from THEN TakeLink(t) ELSE Retry(t)
  /\ UNCHANGED <<links, tail, sn, finished, linked>>

(* Another try, if the tail has moved. *)
TryAgain(t) ==
  /\ pc[t] = "again"
  /\ IF tail = local[t].from
     THEN Return(t)
     ELSE GoTo(t, "load_slot", AtTail(local[t]))
  /\ UNCHANGED <<links, tail, sn, finished, linked>>

(* mutant: a slot of the last lap is followed backwards *)
Follow_Backwards(t) ==
  LET next == links[SlotIndex(local[t].position)] IN
  /\ pc[t] = "follow"
  /\ IF next = local[t].position \/ StopCondition(t, local[t].position)
     THEN GoTo(t, "publish", local[t])
     ELSE GoTo(t, "follow", [local[t] EXCEPT !.position = next])
  /\ UNCHANGED <<links, tail, sn, finished, linked>>

(* The thread owns the tail and goes as far as the links lead. *)
Follow(t) ==
  LET next == links[SlotIndex(local[t].position)] IN
  /\ pc[t] = "follow"
  /\ IF next <= local[t].position \/ StopCondition(t, local[t].position)
     THEN GoTo(t, "publish", local[t])
     ELSE GoTo(t, "follow", [local[t] EXCEPT !.position = next])
  /\ UNCHANGED <<links, tail, sn, finished, linked>>

PublishTail(t) ==
  /\ pc[t] = "publish"
  /\ tail' = local[t].position
  /\ Return(t)
  /\ UNCHANGED <<links, sn, finished, linked>>

-----------------------------------------------------------------------------
AdvanceStep(t) ==
  \/ LoadTail(t) \/ LoadSlot(t) \/ Lapped(t) \/ LockSlot(t) \/ Confirm(t)
  \/ TryAgain(t) \/ Follow(t) \/ PublishTail(t)

UserStep(t) ==
  LookForSpace(t) \/ AddLink(t) \/ MoveTail(t) \/ StoreLink(t) \/ AdvanceStep(t)

(* The bound on positions is reached and all is published. *)
AllPublished ==
  /\ tail = MaxPosition
  /\ \A t \in Threads : pc[t] = "idle"
  /\ UNCHANGED vars

Next ==
  \/ \E t \in Users : Reserve(t) \/ UserStep(t)
  \/ \E t \in Trackers : Track(t) \/ AdvanceStep(t)
  \/ AllPublished

Spec == Init /\ [][Next]_vars

(* Threads run, and a tracker comes back as long as the tail lags behind. *)
FairSpec ==
  /\ Spec
  /\ \A t \in Users : WF_vars(UserStep(t))
  /\ \A t \in Trackers : WF_vars(Track(t) \/ AdvanceStep(t))

-----------------------------------------------------------------------------
(* Properties *)

(***************************************************************************)
(* The tail is published by one thread at a time: whoever is past the      *)
(* confirmation of its lock finds the tail where it read it                *)
(* (ut_a(from == m_tail.load()) in advance_tail_until).                    *)
(***************************************************************************)
TailIsOwned ==
  \A t \in Threads : pc[t] \in {"follow", "publish"} => tail = local[t].from

(***************************************************************************)
(* Slots are used again lap after lap, and a thread that slept may still   *)
(* write to one: no link that the tail has not reached is ever lost.       *)
(***************************************************************************)
LinksAreKept ==
  \A op \in linked : op[1] > tail => links[SlotIndex(op[1])] = op[2]

(* The published position is the end of a finished prefix, at all times. *)
Prefix == INSTANCE FinishedPrefix

ImplementsFinishedPrefix == Prefix!Spec

(***************************************************************************)
(* The tail does not stop short of an operation: whatever was reserved is  *)
(* published in the end, although the threads that find the tail taken     *)
(* give up after one retry.                                                *)
(***************************************************************************)
TailCatchesUp == []<>(tail = sn)
=============================================================================
