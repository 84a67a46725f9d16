---------------------------- MODULE AckContainer ----------------------------
(***************************************************************************)
(* The container in which the source of semi-synchronous replication       *)
(* counts acknowledgements when it waits for more than one replica         *)
(* (AckContainer in plugin/semisync).  It has one slot less than the       *)
(* number of replicas to wait for: an acknowledgement of one more replica  *)
(* than there are slots says that all of them have the smallest position.  *)
(*                                                                         *)
(* A position of the binary log is a number; 0 stands for an empty name.   *)
(***************************************************************************)
EXTENDS Naturals, Sequences

CONSTANT NoServer \* server_id of an empty slot

(* AckInfo *)
EmptySlot == [server |-> NoServer, pos |-> 0]

Ack(server, pos) == [server |-> server, pos |-> pos]

(* A container for acknowledgements of n replicas. *)
NewContainer(n) == [slots |-> [i \in 1 .. n - 1 |-> EmptySlot], greatest |-> 0]

(* clear() *)
ClearContainer(c) == NewContainer(Len(c.slots) + 1)

(* The slots that satisfy a condition on their contents. *)
SlotsWhere(c, Cond(_)) == {i \in DOMAIN c.slots : Cond(c.slots[i])}

(* m_empty_slot as updateIfExist leaves it: the last of the empty slots. *)
EmptySlots(c) == SlotsWhere(c, LAMBDA a : a.pos = 0)

LastOf(S) == CHOOSE i \in S : \A j \in S : j <= i

(* mutant: a second acknowledgement of a replica counts like another's *)
SlotsOf_None(c, server) == {}

(* The slot that updateIfExist finds for a replica. *)
SlotsOf(c, server) == SlotsWhere(c, LAMBDA a : a.pos # 0 /\ a.server = server)

(***************************************************************************)
(* minAck: the slot that is reported when the container is full, 0 if the  *)
(* new position is not greater than any.  The loop keeps the last slot     *)
(* that is smaller than the new position.                                  *)
(***************************************************************************)
MinAck(c, pos) ==
  LET smaller == SlotsWhere(c, LAMBDA a : a.pos < pos)
  IN  IF smaller = {} THEN 0 ELSE LastOf(smaller)

(* m_greatest_ack becomes pos; remove_all empties the slots that equal it. *)
Reported(c, pos) ==
  [slots |-> [i \in DOMAIN c.slots |->
               IF c.slots[i].pos = pos THEN EmptySlot ELSE c.slots[i]],
   greatest |-> pos]

Store(c, server, pos) ==
  [c EXCEPT !.slots[LastOf(EmptySlots(c))] = Ack(server, pos)]

(* insert: the container afterwards, and the position to report or 0. *)
Insert(c, server, pos) ==
  IF pos <= c.greatest
  THEN [container |-> c, report |-> 0]
  ELSE IF SlotsOf(c, server) # {}
  THEN [container |-> [c EXCEPT !.slots[LastOf(SlotsOf(c, server))].pos = pos],
        report |-> 0]
  ELSE IF EmptySlots(c) # {}
  THEN [container |-> Store(c, server, pos), report |-> 0]
  ELSE IF MinAck(c, pos) = 0
  THEN [container |-> Reported(c, pos), report |-> pos]
  ELSE LET min == c.slots[MinAck(c, pos)].pos
       IN  [container |-> Store(Reported(c, min), server, pos),
            report |-> min]

(***************************************************************************)
(* resize: the old acknowledgements are inserted again, one by one.  What  *)
(* is reported is the greatest position that was, since all insertions     *)
(* return the address of m_greatest_ack.                                   *)
(***************************************************************************)
Reinsert(r, a) ==
  LET ins == Insert(r.container, a.server, a.pos)
  IN  [container |-> ins.container,
       report |-> IF ins.report = 0 /\ r.report = 0
                  THEN 0 ELSE ins.container.greatest]

(* The new container once the first i of the old slots are in it. *)
Reinserted(c, n) ==
  LET first == [container |-> [NewContainer(n) EXCEPT !.greatest = c.greatest],
                report |-> 0]
      r[i \in 0 .. Len(c.slots)] ==
        IF i = 0 THEN first ELSE Reinsert(r[i - 1], c.slots[i])
  IN  r

Resize(c, n) ==
  IF n - 1 = Len(c.slots)
  THEN [container |-> c, report |-> 0]
  ELSE Reinserted(c, n)[Len(c.slots)]
=============================================================================
