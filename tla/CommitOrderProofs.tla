-------------------------- MODULE CommitOrderProofs --------------------------
(***************************************************************************)
(* The tickets of a replica's group commit are passed in turn, for any     *)
(* number of applier workers, view changes, failures and retries; and      *)
(* without view changes workers commit in relay log order.                 *)
(***************************************************************************)
EXTENDS CommitOrderManager, FiniteSetTheorems, SequenceTheorems, TLAPS

AllPlaces ==
  {"idle", "apply", "order", "check", "request", "waiting", "ticket", "asleep",
   "count", "signal", "finish", "wake", "freeze", "grant", "unfreeze",
   "stopped", "pop_front", "own_ticket"}

AllStages ==
  {"FINISHED", "REGISTERED", "FINISHED_APPLYING", "REQUESTED_GRANT", "WAITED",
   "WAITED_OVERTAKE"}

(* The types of what is neither in the queue nor in the ticket manager. *)
SessionTypes ==
  /\ pc \in [Sessions -> AllPlaces]
  /\ stage \in [Workers -> AllStages]
  /\ m_wait \in [Workers -> {"EMPTY", "GRANTED", "VICTIM"}]
  /\ deadlock \in [Workers -> BOOLEAN]
  /\ trx \in [Sessions -> 0 .. MaxTrx]
  /\ retries \in [Workers -> 0 .. MaxRetries]
  /\ failing \in [Sessions -> BOOLEAN]
  /\ blocked_by \in [Workers -> Workers \cup {NO_WORKER}]
  /\ waking \in [Workers -> [worker : Workers \cup {NO_WORKER},
                             nr : 0 .. SeqModulus - 1]]
  /\ ticket \in [Sessions -> Nat]
  /\ rollback_trx \in BOOLEAN
  /\ registered \in 0 .. MaxTrx
  /\ faults \in 0 .. MaxFaults
  /\ again \in BOOLEAN

LogTypes == log \in Seq([trx : 0 .. MaxTrx, ticket : Nat, overtook : BOOLEAN])

(* In wait_for_ticket_turn and finish_session_ticket. *)
TicketPlaces == {"ticket", "asleep", "count", "signal"}

(* In finish_one after the queue was left. *)
WakePlaces == {"wake", "freeze", "grant", "unfreeze"}

(* How far a worker is tells the stage its node says. *)
Places ==
  /\ \A w \in Workers :
       /\ pc[w] \notin {"pop_front", "own_ticket"}
       /\ pc[w] \in {"idle", "stopped"} => stage[w] = "FINISHED"
       /\ pc[w] \in {"apply", "order"} => stage[w] = "REGISTERED"
       /\ pc[w] \in {"check", "request"} => stage[w] = "FINISHED_APPLYING"
       /\ pc[w] = "waiting" => stage[w] = "REQUESTED_GRANT"
       /\ pc[w] \in TicketPlaces /\ failing[w] =>
            stage[w] \in {"REGISTERED", "FINISHED"}
       /\ pc[w] \in TicketPlaces /\ ~failing[w] =>
            stage[w] \in {"WAITED", "WAITED_OVERTAKE", "FINISHED"}
       /\ pc[w] \in {"finish"} \cup WakePlaces =>
            stage[w] \in {"WAITED", "WAITED_OVERTAKE"}
  /\ \A v \in Views :
       /\ pc[v] \in {"idle", "pop_front", "own_ticket", "stopped"}
                      \cup TicketPlaces
       /\ ~failing[v]
  /\ \A s \in Sessions :
       pc[s] \in {"idle", "pop_front", "own_ticket"} => ticket[s] = Unset

(* The worker has a place in the queue. *)
InQueue(w) == stage[w] # "FINISHED" /\ pc[w] \notin WakePlaces

Members ==
  /\ \A w \in Workers :
       InQueue(w) <=> \E i \in 1 .. Len(commit_queue) : commit_queue[i] = w
  /\ \A i, j \in 1 .. Len(commit_queue) :
       commit_queue[i] = commit_queue[j] => i = j

(* The sessions that hold ticket t and are not yet counted as processed. *)
Holders(t) == {s \in Sessions : AheadOfItsTicket(s) /\ ticket[s] = t}

(* Sessions ever given ticket t, and those of them that have passed. *)
Issued(t) == IF t = back THEN back_sessions ELSE sessions_per[t - front + 1]
Passed(t) == IF t = front THEN processed ELSE 0

(* The queue of ticket sizes has one for every closed ticket. *)
TicketBounds == front <= back /\ Len(sessions_per) = back - front

(* What makes the two counts of a ticket mean what pop_front_ticket takes  *)
(* them for.                                                               *)
TicketCounts ==
  /\ front <= back /\ Len(sessions_per) = back - front
  /\ \A s \in Sessions : AheadOfItsTicket(s) => ticket[s] \in front .. back
  /\ \A t \in front .. back :
       /\ IsFiniteSet(Holders(t))
       /\ Cardinality(Holders(t)) + Passed(t) = Issued(t)
  /\ \A s \in Sessions : pc[s] = "count" => ticket[s] = front

(* Only a committed transaction that is applied again upsets the counts. *)
CountsUntilAgain == ~again => TicketCounts

(* Nothing in the flush queue is ahead of the front ticket. *)
LogTickets == TicketOrder /\ \A i \in DOMAIN log : log[i].ticket <= front

IInv ==
  /\ QueueTypeOK /\ TicketTypeOK /\ SessionTypes /\ LogTypes
  /\ Places /\ Members /\ TicketBounds /\ CountsUntilAgain /\ LogTickets

-----------------------------------------------------------------------------
(* The assumptions on the sequence numbers, spelt out. *)
LEMMA ModulusFacts ==
  /\ SeqModulus \in Nat /\ SeqModulus > 3
  /\ FirstNumber \in 0 .. SeqModulus - 1 /\ 0 \in 0 .. SeqModulus - 1
<1>1. Cardinality(Workers) \in Nat
  BY QueueAssumption, FS_CardinalityType
<1> QED BY <1>1, QueueAssumption

(* The invariant holds at first. *)
LEMMA InitIInv == Init => IInv
<1> SUFFICES ASSUME Init PROVE IInv
  OBVIOUS
<1> USE DEF Init, QueueInit, TicketInit
<1>1. QueueTypeOK
  BY ModulusFacts DEF QueueTypeOK, NO_SEQUENCE_NR
<1>0. TicketTypeOK /\ LogTypes /\ LogTickets
  BY DEF TicketTypeOK, LogTypes, LogTickets, TicketOrder, Unset
<1>2. SessionTypes
  <2>1. waking \in [Workers -> [worker : Workers \cup {NO_WORKER},
                                nr : 0 .. SeqModulus - 1]]
    BY ModulusFacts DEF NobodyToWake, NO_SEQUENCE_NR
  <2>2. 0 \in 0 .. MaxTrx /\ 0 \in 0 .. MaxRetries /\ 0 \in 0 .. MaxFaults
    BY ManagerAssumption
  <2>3. "idle" \in AllPlaces /\ "FINISHED" \in AllStages
    BY DEF AllPlaces, AllStages
  <2> QED BY <2>1, <2>2, <2>3 DEF SessionTypes, Unset
<1>3. Places
  BY DEF Places, Sessions, TicketPlaces, WakePlaces
<1>4. Members
  BY DEF Members, InQueue
<1>5. TicketCounts
  <2>1. \A t : Holders(t) = {}
    BY DEF Holders, AheadOfItsTicket
  <2>2. \A t : IsFiniteSet(Holders(t)) /\ Cardinality(Holders(t)) = 0
    BY <2>1, FS_EmptySet
  <2> QED BY <2>2 DEF TicketCounts, AheadOfItsTicket, Issued, Passed
<1>6. TicketBounds /\ CountsUntilAgain
  BY <1>5 DEF TicketBounds, TicketCounts, CountsUntilAgain
<1> QED BY <1>0, <1>1, <1>2, <1>3, <1>4, <1>6 DEF IInv

(***************************************************************************)
(* What leaves the queue, the tickets and the log alone, and neither gives *)
(* nor takes a session's place or ticket, keeps everything but the types   *)
(* and the places.                                                         *)
(***************************************************************************)
SamePlaces == \A w \in Workers : InQueue(w)' <=> InQueue(w)

SameHolders ==
  \A s \in Sessions :
    /\ AheadOfItsTicket(s)' <=> AheadOfItsTicket(s)
    /\ AheadOfItsTicket(s) => ticket'[s] = ticket[s]

(* Nobody passes its ticket, or takes another one before it is counted. *)
NobodyPasses ==
  \A s \in Sessions :
    pc'[s] = "count" => pc[s] = "count" /\ ticket'[s] = ticket[s]

(* Who is in the queue, when neither it nor the places change. *)
LEMMA MembersSame ==
  ASSUME Members, SamePlaces, UNCHANGED commit_queue
  PROVE  Members'
BY DEF Members, SamePlaces

(* The counts of the tickets, when nobody takes or passes one. *)
LEMMA CountsSame ==
  ASSUME TicketCounts, SameHolders, UNCHANGED ticketVars,
         \A s \in Sessions : pc'[s] = "count" => ticket'[s] = front
  PROVE  TicketCounts'
<1>1. \A t : Holders(t)' = Holders(t)
  BY DEF Holders, SameHolders
<1> QED BY <1>1 DEF TicketCounts, SameHolders, Issued, Passed, ticketVars

(* A step that leaves the tickets alone and what is in the log. *)
LEMMA KeptTickets ==
  ASSUME IInv, UNCHANGED <<ticketVars, log>>, QueueTypeOK', SessionTypes',
         Places', Members', NobodyPasses, ~again' => ~again /\ SameHolders
  PROVE  IInv'
<1>1. ASSUME ~again' PROVE TicketCounts'
  <2>1. \A s \in Sessions : pc'[s] = "count" => ticket'[s] = front
    BY <1>1 DEF IInv, CountsUntilAgain, TicketCounts, NobodyPasses
  <2> QED BY <1>1, <2>1, CountsSame DEF IInv, CountsUntilAgain
<1>2. TicketTypeOK' /\ TicketBounds' /\ LogTypes' /\ LogTickets'
  BY DEF IInv, TicketTypeOK, TicketBounds, LogTypes, LogTickets, TicketOrder,
         ticketVars
<1> QED BY <1>1, <1>2 DEF IInv, CountsUntilAgain

(* One that leaves alone who is in the queue, too. *)
LEMMA KeptStep ==
  ASSUME IInv, UNCHANGED <<commit_queue, ticketVars, log>>, QueueTypeOK',
         SessionTypes', Places', SamePlaces, NobodyPasses,
         ~again' => ~again /\ SameHolders
  PROVE  IInv'
<1>1. Members'
  BY MembersSame DEF IInv
<1> QED BY <1>1, KeptTickets

(* And one that leaves the numbers alone. *)
LEMMA QuietStep ==
  ASSUME IInv, UNCHANGED <<queueVars, ticketVars, log>>, SessionTypes',
         Places', SamePlaces, NobodyPasses,
         ~again' => ~again /\ SameHolders
  PROVE  IInv'
<1>1. QueueTypeOK'
  BY DEF IInv, QueueTypeOK, queueVars
<1> QED BY <1>1, KeptStep DEF queueVars

(* A worker that goes from one place in Commit_order_manager::wait to      *)
(* another one.                                                            *)
LEMMA WaitInv ==
  ASSUME IInv, NEW w \in Workers,
         \/ EnterWait(w) \/ NotMyTurn(w) \/ RequestGrant(w)
         \/ FirstInQueue(w) \/ AskedToRollBack(w)
         \/ Granted(w) \/ Victim(w) \/ Overtake(w)
         \/ DeadlockFound(w) \/ ApplyError(w)
  PROVE  IInv'
<1> USE DEF IInv, Sessions
<1> USE DEF EnterWait, NotMyTurn, RequestGrant, FirstInQueue, AskedToRollBack,
            Granted, Victim, Overtake, DeadlockFound, ApplyError, ItIsMyTurn,
            LeaveWait, HeedRollbackStatus, WaitFailed, RetryTransaction,
            ReleaseLocks, GoTo, sharedVars
<1>1. UNCHANGED <<queueVars, ticketVars, log>>
  OBVIOUS
<1>2. SessionTypes'
  <2>1. retries' \in [Workers -> 0 .. MaxRetries]
    BY ManagerAssumption DEF SessionTypes
  <2>2. failing' \in [Sessions -> BOOLEAN] /\ rollback_trx' \in BOOLEAN
    BY DEF SessionTypes
  <2>3. faults' \in 0 .. MaxFaults
    BY ManagerAssumption DEF SessionTypes
  <2>4. blocked_by' \in [Workers -> Workers \cup {NO_WORKER}]
    BY DEF SessionTypes
  <2>5. UNCHANGED <<trx, waking, ticket, registered, again>>
    OBVIOUS
  <2>6. pc' \in [Sessions -> AllPlaces]
    BY DEF SessionTypes, AllPlaces
  <2>7. stage' \in [Workers -> AllStages]
    BY DEF SessionTypes, AllStages
  <2>8. m_wait' \in [Workers -> {"EMPTY", "GRANTED", "VICTIM"}]
    BY DEF SessionTypes
  <2>9. deadlock' \in [Workers -> BOOLEAN]
    BY DEF SessionTypes
  <2> QED BY <2>1, <2>2, <2>3, <2>4, <2>5, <2>6, <2>7, <2>8,
             <2>9 DEF SessionTypes
<1>3. Places'
  BY DEF SessionTypes, Places, TicketPlaces, WakePlaces
<1>4. SamePlaces
  BY DEF SamePlaces, InQueue, SessionTypes, Places, TicketPlaces, WakePlaces
<1>5. SameHolders
  BY DEF SameHolders, AheadOfItsTicket, SessionTypes
<1>6. NobodyPasses
  BY DEF NobodyPasses, SessionTypes
<1>7. UNCHANGED again
  OBVIOUS
<1> QED BY <1>1, <1>2, <1>3, <1>4, <1>5, <1>6, <1>7, QuietStep

-----------------------------------------------------------------------------
(* The ticket manager *)

(* What the counts say of the front and the back ticket. *)
LEMMA FrontAndBack ==
  ASSUME TicketTypeOK, TicketCounts
  PROVE  /\ front \in front .. back /\ back \in front .. back
         /\ front \in Nat \ {0} /\ back \in Nat \ {0} /\ front <= back
         /\ Len(sessions_per) = back - front
         /\ back_sessions \in Nat /\ processed \in Nat
         /\ sessions_per \in Seq(Nat \ {0})
BY DEF TicketTypeOK, TicketCounts, Unset

(* What the ticket manager keeps whatever its callers count. *)
LEMMA BoundsKept ==
  ASSUME TicketTypeOK, TicketBounds,
         \/ AssignSessionToTicket \/ AddProcessedSession \/ PopFrontTicket
         \/ PushNewTicket(0) \/ PushNewTicket(1) \/ UNCHANGED ticketVars
  PROVE  TicketTypeOK' /\ TicketBounds' /\ front' \in Nat /\ front <= front'
<1> USE DEF TicketTypeOK, TicketBounds, Unset
<1>1. CASE AssignSessionToTicket \/ AddProcessedSession \/ UNCHANGED ticketVars
  BY <1>1 DEF AssignSessionToTicket, AddProcessedSession, ticketVars
<1>2. CASE PopFrontTicket
  <2>1. CASE ~FrontTicketDone
    BY <1>2, <2>1 DEF PopFrontTicket
  <2>2. CASE FrontTicketDone
    <3>1. /\ front # back /\ processed' = 0 /\ front' = front + 1
          /\ sessions_per' = Tail(sessions_per)
          /\ UNCHANGED <<back, back_sessions>>
      BY <1>2, <2>2 DEF FrontTicketDone, PopFrontTicket
    <3>2. sessions_per # << >> /\ front < back
      BY <3>1
    <3>3. /\ Tail(sessions_per) \in Seq(Nat \ {0})
          /\ Len(Tail(sessions_per)) = Len(sessions_per) - 1
      BY <3>2
    <3> QED BY <3>1, <3>2, <3>3
  <2> QED BY <2>1, <2>2
<1>3. ASSUME NEW own \in {0, 1}, PushNewTicket(own)
      PROVE  TicketTypeOK' /\ TicketBounds' /\ front' \in Nat /\ front <= front'
  <2>1. CASE back_sessions + own = 0
    BY <1>3, <2>1 DEF PushNewTicket
  <2>2. CASE back_sessions + own # 0
    <3>1. /\ back' = back + 1 /\ back_sessions' = 0
          /\ sessions_per' = Append(sessions_per, back_sessions + own)
          /\ UNCHANGED <<front, processed>>
      BY <1>3, <2>2 DEF PushNewTicket
    <3>2. back_sessions + own \in Nat \ {0}
      BY <2>2
    <3>3. /\ sessions_per' \in Seq(Nat \ {0})
          /\ Len(sessions_per') = Len(sessions_per) + 1
      BY <3>1, <3>2, AppendProperties
    <3> QED BY <3>1, <3>3
  <2> QED BY <2>1, <2>2
<1> QED BY <1>1, <1>2, <1>3

(* A session is given the back ticket. *)
LEMMA AssignCounts ==
  ASSUME TicketTypeOK, TicketCounts, AssignSessionToTicket,
         NEW s \in Sessions, ~AheadOfItsTicket(s),
         \A x \in Sessions :
           /\ AheadOfItsTicket(x)' <=> x = s \/ AheadOfItsTicket(x)
           /\ AheadOfItsTicket(x) => ticket'[x] = ticket[x],
         ticket'[s] = back,
         \A x \in Sessions : pc'[x] = "count" => ticket'[x] = front
  PROVE  TicketTypeOK' /\ TicketCounts'
<1>0. UNCHANGED <<back, front, processed, sessions_per>>
      /\ back_sessions' = back_sessions + 1
  BY DEF AssignSessionToTicket
<1>1. TicketTypeOK'
  BY <1>0 DEF TicketTypeOK
<1>2. \A t \in front .. back :
        /\ t # back => Holders(t)' = Holders(t)
        /\ t = back => Holders(t)' = Holders(t) \cup {s} /\ s \notin Holders(t)
  BY DEF Holders
<1>3. \A t \in front .. back :
        /\ IsFiniteSet(Holders(t)')
        /\ Cardinality(Holders(t)') = Cardinality(Holders(t))
                                        + (IF t = back THEN 1 ELSE 0)
        /\ Cardinality(Holders(t)) \in Nat
  BY <1>2, FS_AddElement, FS_CardinalityType DEF TicketCounts
<1>4. \A t \in front .. back : Cardinality(Holders(t)') + Passed(t)' = Issued(t)'
  BY <1>0, <1>3, FrontAndBack DEF TicketCounts, Passed, Issued
<1>5. \A x \in Sessions : AheadOfItsTicket(x)' => ticket'[x] \in front .. back
  BY FrontAndBack DEF TicketCounts
<1> QED BY <1>0, <1>1, <1>3, <1>4, <1>5 DEF TicketCounts

(* A session is counted in the front ticket. *)
LEMMA ProcessedCounts ==
  ASSUME TicketTypeOK, TicketCounts, AddProcessedSession,
         NEW s \in Sessions, pc[s] = "count",
         UNCHANGED <<ticket, failing>>,
         pc' = [pc EXCEPT ![s] = "signal"], SessionTypes
  PROVE  TicketTypeOK' /\ TicketCounts'
<1>0. UNCHANGED <<back, front, back_sessions, sessions_per>>
      /\ processed' = processed + 1
  BY DEF AddProcessedSession
<1>1. TicketTypeOK'
  BY <1>0 DEF TicketTypeOK
<1>2. ticket[s] = front /\ AheadOfItsTicket(s)
  BY FrontAndBack DEF TicketCounts, AheadOfItsTicket, Unset
<1>3. \A x \in Sessions : AheadOfItsTicket(x)' <=> x # s /\ AheadOfItsTicket(x)
  BY DEF AheadOfItsTicket, SessionTypes
<1>4. \A t \in front .. back :
        /\ t # front => Holders(t)' = Holders(t)
        /\ t = front => Holders(t)' = Holders(t) \ {s} /\ s \in Holders(t)
  BY <1>2, <1>3 DEF Holders
<1>5. \A t \in front .. back :
        /\ IsFiniteSet(Holders(t)')
        /\ Cardinality(Holders(t)') = Cardinality(Holders(t))
                                        - (IF t = front THEN 1 ELSE 0)
        /\ Cardinality(Holders(t)) \in Nat
  BY <1>4, FS_RemoveElement, FS_CardinalityType DEF TicketCounts
<1>6. \A t \in front .. back : Cardinality(Holders(t)') + Passed(t)' = Issued(t)'
  BY <1>0, <1>5, FrontAndBack, SMTT(40) DEF TicketCounts, Passed, Issued
<1>7. \A x \in Sessions : AheadOfItsTicket(x)' => ticket'[x] \in front .. back
  BY <1>3 DEF TicketCounts
<1>8. \A x \in Sessions : pc'[x] = "count" => ticket'[x] = front
  BY DEF TicketCounts, SessionTypes
<1> QED BY <1>0, <1>1, <1>5, <1>6, <1>7, <1>8 DEF TicketCounts

(***************************************************************************)
(* pop_front_ticket: when the counts meet, nobody holds the front ticket.  *)
(***************************************************************************)
LEMMA PopCounts ==
  ASSUME TicketTypeOK, TicketCounts, PopFrontTicket, SameHolders,
         NobodyPasses
  PROVE  /\ TicketTypeOK' /\ TicketCounts'
         /\ front' \in Nat /\ front <= front'
<1>0. \A t : Holders(t)' = Holders(t)
  BY DEF Holders, SameHolders
<1>1. CASE ~FrontTicketDone
  <2>1. UNCHANGED ticketVars
    BY <1>1 DEF PopFrontTicket, ticketVars
  <2>2. \A x \in Sessions : pc'[x] = "count" => ticket'[x] = front
    BY DEF TicketCounts, NobodyPasses
  <2> QED BY <2>1, <2>2, CountsSame, FrontAndBack DEF ticketVars, TicketTypeOK
<1>2. CASE FrontTicketDone
  <2>0. /\ front # back /\ processed = Head(sessions_per)
        /\ processed' = 0 /\ front' = front + 1
        /\ sessions_per' = Tail(sessions_per)
        /\ UNCHANGED <<back, back_sessions>>
    BY <1>2 DEF FrontTicketDone, PopFrontTicket
  <2>1. /\ sessions_per # << >> /\ front < back
        /\ Head(sessions_per) = sessions_per[1]
        /\ Tail(sessions_per) \in Seq(Nat \ {0})
        /\ Len(Tail(sessions_per)) = Len(sessions_per) - 1
        /\ \A i \in 1 .. Len(sessions_per) - 1 :
             Tail(sessions_per)[i] = sessions_per[i + 1]
    BY <2>0, FrontAndBack
  <2>2. TicketTypeOK' /\ front' <= back' /\ Len(sessions_per') = back' - front'
    BY <2>0, <2>1, FrontAndBack DEF TicketTypeOK, Unset
  <2>3. Holders(front) = {}
    <3>0. front \in front .. back /\ front # back /\ front - front + 1 = 1
      BY <2>0, FrontAndBack
    <3>1. Cardinality(Holders(front)) + processed = sessions_per[1]
      BY <3>0, SMTT(40) DEF TicketCounts, Passed, Issued
    <3>2. IsFiniteSet(Holders(front)) /\ Cardinality(Holders(front)) \in Nat
      BY FrontAndBack, FS_CardinalityType DEF TicketCounts
    <3>3. Cardinality(Holders(front)) = 0
      BY <2>0, <2>1, <3>1, <3>2, FrontAndBack
    <3> QED BY <3>2, <3>3, FS_EmptySet
  <2>4. \A x \in Sessions : AheadOfItsTicket(x) => ticket[x] \in front + 1 .. back
    BY <2>3, FrontAndBack DEF TicketCounts, Holders
  <2>5. \A x \in Sessions : pc[x] # "count"
    BY <2>3, FrontAndBack DEF TicketCounts, Holders, AheadOfItsTicket, Unset
  <2>6. \A t \in front + 1 .. back :
          IsFiniteSet(Holders(t)') /\ Cardinality(Holders(t)') = Issued(t)
    <3>1. SUFFICES ASSUME NEW t \in front + 1 .. back
                   PROVE  /\ IsFiniteSet(Holders(t)')
                          /\ Cardinality(Holders(t)') = Issued(t)
      OBVIOUS
    <3>2. t \in front .. back /\ t # front
      BY FrontAndBack
    <3>3. /\ IsFiniteSet(Holders(t)) /\ Cardinality(Holders(t)) \in Nat
          /\ Cardinality(Holders(t)) + 0 = Issued(t)
      BY <3>2, FS_CardinalityType DEF TicketCounts, Passed
    <3> QED BY <1>0, <3>3
  <2>7. \A t \in front + 1 .. back : Issued(t)' = Issued(t) /\ Passed(t)' = 0
    <3>1. SUFFICES ASSUME NEW t \in front + 1 .. back
                   PROVE  Issued(t)' = Issued(t) /\ Passed(t)' = 0
      OBVIOUS
    <3>2. Passed(t)' = 0
      BY <2>0 DEF Passed
    <3>3. CASE t = back
      BY <2>0, <3>2, <3>3 DEF Issued
    <3>4. CASE t # back
      <4>1. /\ t - (front + 1) + 1 \in 1 .. Len(sessions_per) - 1
            /\ t - (front + 1) + 1 + 1 = t - front + 1
        <5>1. t \in Int /\ front + 1 <= t /\ t < back
          BY <3>4, FrontAndBack
        <5>2. t - front <= back - front - 1
          BY <5>1, FrontAndBack
        <5> QED BY <5>1, <5>2, FrontAndBack, SMTT(40)
      <4>2. Issued(t)' = Tail(sessions_per)[t - (front + 1) + 1]
        BY <2>0, <3>4 DEF Issued
      <4> QED BY <2>1, <3>2, <3>4, <4>1, <4>2 DEF Issued
    <3> QED BY <3>2, <3>3, <3>4
  <2>8. \A t \in front' .. back' :
          /\ IsFiniteSet(Holders(t)')
          /\ Cardinality(Holders(t)') + Passed(t)' = Issued(t)'
    <3>1. SUFFICES ASSUME NEW t \in front + 1 .. back
                   PROVE  /\ IsFiniteSet(Holders(t)')
                          /\ Cardinality(Holders(t)') + Passed(t)' = Issued(t)'
      BY <2>0
    <3>2. Cardinality(Holders(t)') \in Nat
      BY <2>6, FS_CardinalityType
    <3> QED BY <2>6, <2>7, <3>2
  <2>9. \A x \in Sessions : AheadOfItsTicket(x)' => ticket'[x] \in front' .. back'
    BY <2>0, <2>4 DEF SameHolders
  <2> QED BY <2>0, <2>2, <2>5, <2>8, <2>9, FrontAndBack DEF TicketCounts, NobodyPasses
<1> QED BY <1>1, <1>2

(* The back ticket is closed, and a new one opened that nobody holds yet.  *)
LEMMA PushCounts ==
  ASSUME TicketTypeOK, TicketCounts, NEW own \in {0, 1}, PushNewTicket(own),
         \A x \in Sessions :
           AheadOfItsTicket(x)' => ticket'[x] \in front .. back,
         \A t \in front .. back :
           /\ IsFiniteSet(Holders(t)')
           /\ Cardinality(Holders(t)') = Cardinality(Holders(t))
                                           + (IF t = back THEN own ELSE 0),
         NobodyPasses
  PROVE  TicketTypeOK' /\ TicketCounts'
<1>0. UNCHANGED <<front, processed>> /\ back_sessions' = 0
  BY DEF PushNewTicket
<1>1. \A t \in front .. back :
        /\ Cardinality(Holders(t)) \in Nat
        /\ Cardinality(Holders(t)') + Passed(t)
             = Issued(t) + (IF t = back THEN own ELSE 0)
  <2>1. \A t \in front .. back : /\ Cardinality(Holders(t)) \in Nat
                                 /\ Passed(t) \in Nat
    BY FS_CardinalityType, FrontAndBack DEF TicketCounts, Passed
  <2> QED BY <2>1 DEF TicketCounts
<1>2. CASE back_sessions + own = 0
  <2>1. back_sessions = 0 /\ own = 0 /\ UNCHANGED ticketVars
    BY <1>0, <1>2, FrontAndBack DEF PushNewTicket, ticketVars
  <2>2. \A t \in front .. back : Passed(t)' = Passed(t) /\ Issued(t)' = Issued(t)
    BY <2>1 DEF Passed, Issued, ticketVars
  <2>3. \A t \in front .. back : Issued(t) \in Nat
    BY FrontAndBack DEF Issued
  <2>4. \A t \in front .. back :
          Cardinality(Holders(t)') + Passed(t)' = Issued(t)'
    BY <1>1, <2>1, <2>2, <2>3
  <2> QED BY <2>1, <2>4 DEF TicketCounts, TicketTypeOK, ticketVars, NobodyPasses
<1>3. CASE back_sessions + own # 0
  <2>1. /\ back' = back + 1
        /\ sessions_per' = Append(sessions_per, back_sessions + own)
    BY <1>3 DEF PushNewTicket
  <2>2. back_sessions + own \in Nat \ {0}
    BY <1>3, FrontAndBack
  <2>3. /\ sessions_per' \in Seq(Nat \ {0})
        /\ Len(sessions_per') = Len(sessions_per) + 1
        /\ sessions_per'[Len(sessions_per) + 1] = back_sessions + own
        /\ \A i \in 1 .. Len(sessions_per) : sessions_per'[i] = sessions_per[i]
    BY <2>1, <2>2, FrontAndBack, AppendProperties
  <2>4. TicketTypeOK' /\ front' <= back' /\ Len(sessions_per') = back' - front'
    BY <1>0, <2>1, <2>3, FrontAndBack, SMTT(40) DEF TicketTypeOK, Unset
  <2>5. \A t \in front .. back :
          Issued(t)' = Issued(t) + (IF t = back THEN own ELSE 0)
    <3>1. SUFFICES ASSUME NEW t \in front .. back
                   PROVE  Issued(t)' = Issued(t) + (IF t = back THEN own ELSE 0)
      OBVIOUS
    <3>2. t # back' /\ t - front + 1 \in 1 .. Len(sessions_per) + 1
      BY <2>1, FrontAndBack
    <3>3. Issued(t)' = sessions_per'[t - front + 1]
      BY <1>0, <3>2 DEF Issued
    <3>4. CASE t = back
      BY <2>3, <3>3, <3>4, FrontAndBack DEF Issued
    <3>5. CASE t # back
      <4>1. t - front + 1 \in 1 .. Len(sessions_per)
        BY <3>5, FrontAndBack
      <4> QED BY <2>3, <3>3, <3>5, <4>1, FrontAndBack DEF Issued
    <3> QED BY <3>4, <3>5
  <2>6. \A t \in Nat : t = back + 1 => Holders(t)' = {}
    BY FrontAndBack DEF Holders
  <2>7. \A t \in front' .. back' :
          /\ IsFiniteSet(Holders(t)')
          /\ Cardinality(Holders(t)') + Passed(t)' = Issued(t)'
    <3>1. SUFFICES ASSUME NEW t \in front .. back + 1
                   PROVE  /\ IsFiniteSet(Holders(t)')
                          /\ Cardinality(Holders(t)') + Passed(t)' = Issued(t)'
      BY <1>0, <2>1
    <3>2. CASE t = back + 1
      <4>1. Issued(t)' = 0 /\ Passed(t)' = 0
        BY <1>0, <2>1, <3>2, FrontAndBack DEF Issued, Passed
      <4>2. Holders(t)' = {}
        BY <2>6, <3>2, FrontAndBack
      <4>3. IsFiniteSet(Holders(t)') /\ Cardinality(Holders(t)') = 0
        BY <4>2, FS_EmptySet
      <4> QED BY <4>1, <4>3
    <3>3. CASE t # back + 1
      <4>1. t \in front .. back
        BY <3>3, FrontAndBack
      <4>2. Passed(t)' = Passed(t)
        BY <1>0 DEF Passed
      <4> QED BY <1>1, <2>5, <4>1, <4>2
    <3> QED BY <3>2, <3>3
  <2>8. \A x \in Sessions : AheadOfItsTicket(x)' => ticket'[x] \in front' .. back'
    BY <1>0, <2>1, FrontAndBack
  <2>9. \A x \in Sessions : pc'[x] = "count" => ticket'[x] = front'
    BY <1>0 DEF TicketCounts, NobodyPasses
  <2> QED BY <2>4, <2>7, <2>8, <2>9 DEF TicketCounts
<1> QED BY <1>2, <1>3

-----------------------------------------------------------------------------
(* The actions on the queue and on the tickets *)

(* Two workers meet at a row lock; one is reported. *)
LEMMA BlockedInv ==
  ASSUME IInv, NEW u \in Workers, NEW w \in Workers, Blocked(u, w)
  PROVE  IInv'
<1> USE DEF IInv, Sessions, Blocked, CheckAndReportDeadlock
<1>1. UNCHANGED <<queueVars, ticketVars, log, pc, stage, failing, ticket, again>>
  OBVIOUS
<1>2. SessionTypes'
  BY ManagerAssumption DEF SessionTypes
<1>3. Places'
  BY DEF Places
<1>4. SamePlaces /\ SameHolders
  BY DEF SamePlaces, SameHolders, InQueue, AheadOfItsTicket
<1>5. NobodyPasses
  BY DEF NobodyPasses
<1> QED BY <1>1, <1>2, <1>3, <1>4, <1>5, QuietStep

(* The steps of finish_one after the queue was left. *)
LEMMA WakeInv ==
  ASSUME IInv, NEW w \in Workers,
         \/ LookForNext(w) \/ FreezeNext(w) \/ NextIsGone(w)
         \/ GrantNext(w) \/ UnfreezeNext(w)
  PROVE  IInv'
<1> USE DEF IInv, Sessions
<1> USE DEF LookForNext, FreezeNext, NextIsGone, GrantNext, UnfreezeNext,
            PlaceIsFree, CommitIsOver, CommittedIsAppliedAgain,
            CommittedIsGivenUp, GoTo, Freeze, Unfreeze, queueVars, sharedVars
<1>1. UNCHANGED <<ticketVars, log, commit_queue, next_nr, generator>>
  OBVIOUS
<1>2. SessionTypes'
  <2>1. pc' \in [Sessions -> AllPlaces]
    BY DEF SessionTypes, AllPlaces
  <2>2. stage' \in [Workers -> AllStages]
    BY DEF SessionTypes, AllStages
  <2>3. m_wait' \in [Workers -> {"EMPTY", "GRANTED", "VICTIM"}]
    BY DEF SessionTypes
  <2>4. deadlock' \in [Workers -> BOOLEAN] /\ UNCHANGED failing
    BY ZenonT(40) DEF SessionTypes
  <2>5. retries' \in [Workers -> 0 .. MaxRetries] /\ trx' \in [Sessions -> 0 .. MaxTrx]
    <3>1. 0 \in 0 .. MaxRetries /\ 0 \in 0 .. MaxTrx
      BY ManagerAssumption
    <3>2. retries' = retries \/ retries' = [retries EXCEPT ![w] = 0]
      OBVIOUS
    <3>3. trx' = trx \/ trx' = [trx EXCEPT ![w] = 0]
      OBVIOUS
    <3> QED BY <3>1, <3>2, <3>3 DEF SessionTypes
  <2>6. blocked_by' \in [Workers -> Workers \cup {NO_WORKER}]
    BY DEF SessionTypes, ReleaseLocks
  <2>7. ticket' \in [Sessions -> Nat]
    BY DEF SessionTypes, Unset
  <2>8. waking' \in [Workers -> [worker : Workers \cup {NO_WORKER},
                                 nr : 0 .. SeqModulus - 1]]
    <3>1. Front \in Workers \cup {NO_WORKER}
      BY DEF Front, QueueTypeOK
    <3>2. NobodyToWake \in [worker : Workers \cup {NO_WORKER},
                            nr : 0 .. SeqModulus - 1]
      BY ModulusFacts DEF NobodyToWake, NO_SEQUENCE_NR
    <3> QED BY <3>1, <3>2 DEF SessionTypes
  <2>9. /\ rollback_trx' \in BOOLEAN /\ again' \in BOOLEAN
        /\ UNCHANGED <<registered, faults>>
    BY ZenonT(40) DEF SessionTypes
  <2> QED BY <2>1, <2>2, <2>3, <2>4, <2>5, <2>6, <2>7, <2>8, <2>9
          DEF SessionTypes
<1>3. Places'
  <2>1. /\ pc'[w] \in {"freeze", "grant", "unfreeze", "idle", "ticket", "stopped"}
        /\ pc'[w] \in {"freeze", "grant", "unfreeze"} => stage'[w] = stage[w]
        /\ pc'[w] \in {"idle", "ticket", "stopped"} => stage'[w] = "FINISHED"
        /\ pc'[w] = "idle" => ticket'[w] = Unset
    BY DEF SessionTypes
  <2>2. /\ \A s \in Sessions \ {w} : pc'[s] = pc[s] /\ ticket'[s] = ticket[s]
        /\ \A u \in Workers \ {w} : stage'[u] = stage[u]
        /\ UNCHANGED failing
    BY DEF SessionTypes
  <2>3. pc[w] \in WakePlaces /\ stage[w] \in {"WAITED", "WAITED_OVERTAKE"}
    BY DEF Places, WakePlaces
  <2> HIDE DEF LookForNext, FreezeNext, NextIsGone, GrantNext, UnfreezeNext
  <2>4. w \notin Views
    BY ManagerAssumption
  <2> QED BY <2>1, <2>2, <2>3, <2>4 DEF Places, TicketPlaces, WakePlaces
<1>4. SamePlaces
  BY DEF SamePlaces, InQueue, SessionTypes, Places, TicketPlaces, WakePlaces
<1>5. ~again' => ~again /\ SameHolders
  BY DEF SameHolders, AheadOfItsTicket, SessionTypes
<1>6. NobodyPasses
  <2>1. /\ pc'[w] # "count"
        /\ \A s \in Sessions \ {w} : pc'[s] = pc[s] /\ ticket'[s] = ticket[s]
    BY DEF SessionTypes
  <2> QED BY <2>1 DEF NobodyPasses
<1>7. seq_nr' \in [Workers -> 0 .. SeqModulus - 1]
  <2>1. 1 \in 0 .. SeqModulus - 1 /\ waking[w].nr \in 0 .. SeqModulus - 1
    BY ModulusFacts DEF SessionTypes
  <2>2. \/ seq_nr' = seq_nr
        \/ \E x : seq_nr' = [seq_nr EXCEPT ![x] = 1]
        \/ \E x : seq_nr' = [seq_nr EXCEPT ![x] =
                                IF @ = 1 THEN waking[w].nr ELSE @]
    BY DEF SEQUENCE_NR_FROZEN
  <2> QED BY <2>1, <2>2 DEF QueueTypeOK
<1>8. QueueTypeOK'
  BY <1>1, <1>7 DEF QueueTypeOK
<1> QED BY <1>1, <1>2, <1>3, <1>4, <1>5, <1>6, <1>8, KeptStep

(* A worker that is not in the queue is appended to it. *)
LEMMA RegisterInv ==
  ASSUME IInv, NEW w \in Workers, RegisterTrx(w)
  PROVE  IInv'
<1> USE DEF IInv, Sessions, RegisterTrx, Push, GoTo
<1>1. UNCHANGED <<ticketVars, log, again>>
  OBVIOUS
<1>2. QueueTypeOK'
  <2>1. \A n \in Nat : SkipReserved(n) \in 0 .. SeqModulus - 1
    BY ModulusFacts DEF SkipReserved, SEQUENCE_NR_FROZEN
  <2>2. SkipReserved(generator) \in 0 .. SeqModulus - 1
    BY <2>1, ModulusFacts DEF QueueTypeOK
  <2>3. SkipReserved(SkipReserved(generator) + 1) \in 0 .. SeqModulus - 1
    BY <2>1, <2>2, ModulusFacts
  <2>4. (SkipReserved(generator) + 1) % SeqModulus \in 0 .. SeqModulus - 1
    BY <2>2, ModulusFacts
  <2> QED BY <2>2, <2>3, <2>4 DEF QueueTypeOK
<1>3. SessionTypes'
  BY ManagerAssumption DEF SessionTypes, AllPlaces, AllStages
<1>4. Places'
  BY ManagerAssumption DEF SessionTypes, Places, TicketPlaces, WakePlaces
<1>5. SameHolders
  BY DEF SameHolders, AheadOfItsTicket, SessionTypes, Places
<1>6. NobodyPasses
  BY DEF NobodyPasses, SessionTypes
<1>7. Members'
  <2>1. \A x \in Workers : InQueue(x)' <=> x = w \/ InQueue(x)
    BY DEF InQueue, SessionTypes, WakePlaces
  <2>2. ~InQueue(w)
    BY DEF Places, InQueue
  <2>3. /\ Len(commit_queue') = Len(commit_queue) + 1
        /\ commit_queue'[Len(commit_queue) + 1] = w
        /\ \A i \in 1 .. Len(commit_queue) : commit_queue'[i] = commit_queue[i]
        /\ Len(commit_queue) \in Nat
    BY AppendProperties, LenProperties DEF QueueTypeOK
  <2>4. \A i \in 1 .. Len(commit_queue) : commit_queue[i] # w
    BY <2>2 DEF Members
  <2>5. \A i \in 1 .. Len(commit_queue') :
          i \in 1 .. Len(commit_queue) \/ i = Len(commit_queue) + 1
    BY <2>3
  <2>6. \A i, j \in 1 .. Len(commit_queue') :
          commit_queue'[i] = commit_queue'[j] => i = j
    BY <2>3, <2>4, <2>5 DEF Members
  <2>7. \A x \in Workers :
          InQueue(x)' <=> \E i \in 1 .. Len(commit_queue') : commit_queue'[i] = x
    <3>1. SUFFICES ASSUME NEW x \in Workers
                   PROVE  InQueue(x)' <=> \E i \in 1 .. Len(commit_queue') :
                                            commit_queue'[i] = x
      OBVIOUS
    <3>2. \A i \in 1 .. Len(commit_queue) : i \in 1 .. Len(commit_queue')
      BY <2>3
    <3>3. Len(commit_queue) + 1 \in 1 .. Len(commit_queue')
      BY <2>3
    <3> QED BY <2>1, <2>3, <2>5, <3>2, <3>3 DEF Members
  <2> QED BY <2>6, <2>7 DEF Members
<1> QED BY <1>1, <1>2, <1>3, <1>4, <1>5, <1>6, <1>7, KeptTickets

(* A sequence without its i-th element. *)
LEMMA WithoutOne ==
  ASSUME NEW S, NEW q \in Seq(S), NEW i \in 1 .. Len(q), NEW r,
         \/ r = SubSeq(q, 1, i - 1) \o SubSeq(q, i + 1, Len(q))
         \/ i = 1 /\ r = Tail(q)
  PROVE  /\ r \in Seq(S) /\ Len(r) = Len(q) - 1 /\ Len(q) \in Nat
         /\ \A j \in 1 .. Len(r) : r[j] = q[IF j < i THEN j ELSE j + 1]
<1>1. CASE i = 1 /\ r = Tail(q)
  BY <1>1
<1>2. CASE r = SubSeq(q, 1, i - 1) \o SubSeq(q, i + 1, Len(q))
  <2>1. /\ SubSeq(q, 1, i - 1) \in Seq(S) /\ Len(SubSeq(q, 1, i - 1)) = i - 1
        /\ \A j \in 1 .. i - 1 : SubSeq(q, 1, i - 1)[j] = q[j]
    OBVIOUS
  <2>2. /\ SubSeq(q, i + 1, Len(q)) \in Seq(S)
        /\ Len(SubSeq(q, i + 1, Len(q))) = Len(q) - i
        /\ \A j \in 1 .. Len(q) - i : SubSeq(q, i + 1, Len(q))[j] = q[j + i]
    OBVIOUS
  <2>3. /\ r \in Seq(S) /\ Len(r) = Len(q) - 1
        /\ \A j \in 1 .. Len(q) - 1 :
             r[j] = IF j <= i - 1 THEN SubSeq(q, 1, i - 1)[j]
                                  ELSE SubSeq(q, i + 1, Len(q))[j - (i - 1)]
    <3> DEFINE a == SubSeq(q, 1, i - 1)
               b == SubSeq(q, i + 1, Len(q))
    <3>1. a \in Seq(S) /\ b \in Seq(S) /\ r = a \o b
      BY <1>2, <2>1, <2>2
    <3>2. Len(a) = i - 1 /\ Len(b) = Len(q) - i
      BY <2>1, <2>2
    <3> HIDE DEF a, b
    <3>3. /\ a \o b \in Seq(S) /\ Len(a \o b) = Len(a) + Len(b)
          /\ \A j \in 1 .. Len(a) + Len(b) :
               (a \o b)[j] = IF j <= Len(a) THEN a[j] ELSE b[j - Len(a)]
      BY <3>1, ConcatProperties
    <3>4. Len(a) + Len(b) = Len(q) - 1
      BY <3>2
    <3>5. /\ r \in Seq(S) /\ Len(r) = Len(q) - 1
          /\ \A j \in 1 .. Len(q) - 1 :
               r[j] = IF j <= i - 1 THEN a[j] ELSE b[j - (i - 1)]
      BY <3>1, <3>2, <3>3, <3>4
    <3> QED BY <3>5 DEF a, b
  <2>4. SUFFICES ASSUME NEW j \in 1 .. Len(q) - 1
                 PROVE  r[j] = q[IF j < i THEN j ELSE j + 1]
    BY <2>3
  <2>5. CASE j < i
    BY <2>1, <2>3, <2>5
  <2>6. CASE ~(j < i)
    <3>1. j - (i - 1) \in 1 .. Len(q) - i /\ j - (i - 1) + i = j + 1
      BY <2>6
    <3> QED BY <2>2, <2>3, <2>6, <3>1, SMTT(40)
  <2> QED BY <2>5, <2>6
<1> QED BY <1>1, <1>2

(* The worker leaves the queue, from the front or from the middle. *)
LEMMA LeaveQueueInv ==
  ASSUME IInv, NEW w \in Workers, LeaveQueue(w)
  PROVE  IInv'
<1> USE DEF IInv, Sessions
<1>0. /\ pc[w] = "finish" /\ pc' = [pc EXCEPT ![w] = "wake"]
      /\ waking' = [waking EXCEPT ![w] =
                      [NobodyToWake EXCEPT !.nr = NumberToWake(w)]]
      /\ IF stage[w] = "WAITED" THEN Front = w /\ Pop(w) ELSE Remove(w)
      /\ UNCHANGED <<ticketVars, stage, m_wait, deadlock, trx, retries, failing,
                     blocked_by, ticket, rollback_trx, registered, faults, log,
                     again>>
  BY DEF LeaveQueue, GoTo, sharedVars
<1>1. PICK i \in 1 .. Len(commit_queue) :
        /\ commit_queue[i] = w
        /\ \/ commit_queue' = SubSeq(commit_queue, 1, i - 1) \o
                                SubSeq(commit_queue, i + 1, Len(commit_queue))
           \/ i = 1 /\ commit_queue' = Tail(commit_queue)
  <2>1. CASE stage[w] = "WAITED"
    <3>1. commit_queue # << >> /\ commit_queue[1] = w
      BY <1>0, <2>1, QueueAssumption DEF Front, QueueTypeOK
    <3>2. 1 \in 1 .. Len(commit_queue)
      BY <3>1 DEF QueueTypeOK
    <3> QED BY <1>0, <2>1, <3>1, <3>2 DEF Pop
  <2>2. CASE stage[w] # "WAITED"
    <3>1. InQueue(w)
      BY <1>0 DEF InQueue, Places, WakePlaces
    <3>2. DOMAIN commit_queue = 1 .. Len(commit_queue)
      BY LenProperties DEF QueueTypeOK
    <3>3. \E j \in DOMAIN commit_queue : commit_queue[j] = w
      BY <3>1, <3>2 DEF Members
    <3>4. Remove(w)
      BY <1>0, <2>2
    <3> QED BY <3>2, <3>3, <3>4 DEF Remove
  <2> QED BY <2>1, <2>2
<1>2. /\ commit_queue' \in Seq(Workers) /\ Len(commit_queue) \in Nat
      /\ Len(commit_queue') = Len(commit_queue) - 1
      /\ \A j \in 1 .. Len(commit_queue') :
           commit_queue'[j] = commit_queue[IF j < i THEN j ELSE j + 1]
  <2>1. commit_queue \in Seq(Workers)
    BY DEF QueueTypeOK
  <2> QED BY <1>1, <2>1, WithoutOne, ZenonT(40)
<1>3. QueueTypeOK'
  <2>1. seq_nr' = [seq_nr EXCEPT ![w] = 0] /\ generator' = generator
    BY <1>0 DEF Pop, Remove, ResetCommitSequenceNr, NO_SEQUENCE_NR
  <2>2. next_nr' \in [Workers -> 0 .. SeqModulus - 1]
    <3>1. \/ next_nr' = [next_nr EXCEPT ![w] = 0]
          \/ \E x : next_nr' = [next_nr EXCEPT ![w] = 0, ![x] = next_nr[w]]
      BY <1>0 DEF Pop, Remove, NO_SEQUENCE_NR
    <3> QED BY <3>1, ModulusFacts DEF QueueTypeOK
  <2> QED BY <1>2, <2>1, <2>2, ModulusFacts DEF QueueTypeOK
<1>4. SessionTypes'
  <2>1. NumberToWake(w) \in 0 .. SeqModulus - 1
    BY ModulusFacts DEF NumberToWake, QueueTypeOK, NO_SEQUENCE_NR
  <2>2. [NobodyToWake EXCEPT !.nr = NumberToWake(w)] \in
          [worker : Workers \cup {NO_WORKER}, nr : 0 .. SeqModulus - 1]
    BY <2>1 DEF NobodyToWake
  <2>3. waking' \in [Workers -> [worker : Workers \cup {NO_WORKER},
                                 nr : 0 .. SeqModulus - 1]]
    BY <1>0, <2>2 DEF SessionTypes
  <2> QED BY <1>0, <2>3 DEF SessionTypes, AllPlaces
<1>5. Places'
  BY <1>0 DEF SessionTypes, Places, TicketPlaces, WakePlaces
<1>6. SameHolders
  BY <1>0 DEF SameHolders, AheadOfItsTicket, SessionTypes
<1>7. NobodyPasses
  BY <1>0 DEF NobodyPasses, SessionTypes
<1>8. Members'
  <2>1. \A x \in Workers : InQueue(x)' <=> x # w /\ InQueue(x)
    BY <1>0 DEF InQueue, SessionTypes, WakePlaces
  <2>2. \A j \in 1 .. Len(commit_queue') :
          (IF j < i THEN j ELSE j + 1) \in 1 .. Len(commit_queue) \ {i}
    BY <1>2
  <2>3. \A j, k \in 1 .. Len(commit_queue') :
          commit_queue'[j] = commit_queue'[k] => j = k
    BY <1>2, <2>2 DEF Members
  <2>4. \A j \in 1 .. Len(commit_queue') : commit_queue'[j] # w
    BY <1>1, <1>2, <2>2 DEF Members
  <2>5. \A k \in 1 .. Len(commit_queue) \ {i} :
          \E j \in 1 .. Len(commit_queue') : commit_queue'[j] = commit_queue[k]
    <3>1. SUFFICES ASSUME NEW k \in 1 .. Len(commit_queue) \ {i}
                   PROVE  \E j \in 1 .. Len(commit_queue') :
                            commit_queue'[j] = commit_queue[k]
      OBVIOUS
    <3>2. CASE k < i
      BY <1>2, <3>2
    <3>3. CASE ~(k < i)
      <4>1. /\ k - 1 \in 1 .. Len(commit_queue') /\ ~(k - 1 < i)
            /\ (k - 1) + 1 = k
        BY <1>2, <3>3
      <4> QED BY <1>2, <4>1
    <3> QED BY <3>2, <3>3
  <2>6. \A x \in Workers :
          InQueue(x)' <=> \E j \in 1 .. Len(commit_queue') : commit_queue'[j] = x
    <3>1. SUFFICES ASSUME NEW x \in Workers
                   PROVE  InQueue(x)' <=> \E j \in 1 .. Len(commit_queue') :
                                            commit_queue'[j] = x
      OBVIOUS
    <3>2. ASSUME InQueue(x)'
          PROVE  \E j \in 1 .. Len(commit_queue') : commit_queue'[j] = x
      <4>1. PICK k \in 1 .. Len(commit_queue) : commit_queue[k] = x /\ x # w
        BY <2>1, <3>2 DEF Members
      <4>2. k # i
        BY <1>1, <4>1
      <4> QED BY <2>5, <4>1, <4>2
    <3>3. ASSUME NEW j \in 1 .. Len(commit_queue'), commit_queue'[j] = x
          PROVE  InQueue(x)'
      BY <1>2, <2>1, <2>2, <2>4, <3>3 DEF Members
    <3> QED BY <3>2, <3>3
  <2> QED BY <2>3, <2>6 DEF Members
<1> QED BY <1>0, <1>3, <1>4, <1>5, <1>6, <1>7, <1>8, KeptTickets

(* The types of one element of the log. *)
LEMMA LogElements ==
  ASSUME LogTypes, NEW i \in DOMAIN log
  PROVE  log[i].ticket \in Nat /\ log[i].trx \in 0 .. MaxTrx
<1>1. log[i] \in [trx : 0 .. MaxTrx, ticket : Nat, overtook : BOOLEAN]
  BY ElementOfSeq, LenProperties DEF LogTypes
<1> QED BY <1>1

(* What a step on the tickets leaves alone. *)
LEMMA TicketStepInv ==
  ASSUME IInv, UNCHANGED <<queueVars, log>>, SessionTypes', Places',
         SamePlaces, CountsUntilAgain',
         \/ AssignSessionToTicket \/ AddProcessedSession \/ PopFrontTicket
         \/ PushNewTicket(0) \/ PushNewTicket(1)
  PROVE  IInv'
<1>0. TicketTypeOK' /\ TicketBounds' /\ front' \in Nat /\ front <= front'
  BY BoundsKept DEF IInv
<1>1. Members'
  BY MembersSame DEF IInv, queueVars
<1>2. QueueTypeOK' /\ LogTypes'
  BY DEF IInv, QueueTypeOK, LogTypes, queueVars
<1>3. LogTickets'
  <2>1. TicketOrder'
    BY DEF IInv, LogTickets, TicketOrder
  <2>2. \A i \in DOMAIN log : log[i].ticket \in Nat /\ log[i].ticket <= front
    BY LogElements DEF IInv, LogTickets
  <2>3. front \in Nat
    BY DEF IInv, TicketTypeOK
  <2>4. \A i \in DOMAIN log : log[i].ticket <= front'
    BY <1>0, <2>2, <2>3
  <2> QED BY <2>1, <2>4 DEF LogTickets
<1> QED BY <1>0, <1>1, <1>2, <1>3 DEF IInv

(* A worker is given the back ticket, unless it has one. *)
LEMMA AssignTicketInv ==
  ASSUME IInv, NEW w \in Workers, AssignTicket(w)
  PROVE  IInv'
<1> USE DEF IInv, Sessions
<1>0. /\ pc[w] = "apply" /\ pc' = [pc EXCEPT ![w] = "order"]
      /\ UNCHANGED <<queueVars, stage, m_wait, deadlock, trx, retries, failing,
                     blocked_by, waking, rollback_trx, registered, faults, log,
                     again>>
  BY DEF AssignTicket, GoTo, sharedVars
<1>1. ticket' \in [Sessions -> Nat]
  BY DEF AssignTicket, SessionTypes, TicketTypeOK
<1>2. SessionTypes'
  BY <1>0, <1>1 DEF SessionTypes, AllPlaces
<1>3. Places' /\ SamePlaces
  <2>1. \A s \in Sessions : s # w => ticket'[s] = ticket[s]
    BY DEF AssignTicket, SessionTypes
  <2>2. Places'
    BY <1>0, <2>1 DEF SessionTypes, Places, TicketPlaces, WakePlaces
  <2> QED BY <1>0, <2>2 DEF SamePlaces, InQueue, SessionTypes, WakePlaces
<1>4. NobodyPasses
  <2>1. \A s \in Sessions : s # w => ticket'[s] = ticket[s]
    BY DEF AssignTicket, SessionTypes
  <2> QED BY <1>0, <2>1 DEF NobodyPasses, SessionTypes
<1>5. CASE ticket[w] = Unset
  <2>1. ticket' = [ticket EXCEPT ![w] = back] /\ AssignSessionToTicket
    BY <1>5 DEF AssignTicket
  <2>2. ~AheadOfItsTicket(w) /\ ticket'[w] = back /\ back # Unset
    BY <1>5, <2>1 DEF AheadOfItsTicket, SessionTypes, TicketTypeOK
  <2>3. \A x \in Sessions :
          /\ AheadOfItsTicket(x)' <=> x = w \/ AheadOfItsTicket(x)
          /\ AheadOfItsTicket(x) => ticket'[x] = ticket[x]
    BY <1>0, <2>1, <2>2 DEF AheadOfItsTicket, SessionTypes
  <2>4. CountsUntilAgain'
    <3>1. ASSUME ~again PROVE TicketCounts'
      <4>1. TicketCounts
        BY <3>1 DEF CountsUntilAgain
      <4>2. \A x \in Sessions : pc'[x] = "count" => ticket'[x] = front
        BY <1>4, <4>1 DEF NobodyPasses, TicketCounts
      <4> QED BY <2>1, <2>2, <2>3, <4>1, <4>2, AssignCounts
    <3> QED BY <1>0, <3>1 DEF CountsUntilAgain
  <2> QED BY <1>0, <1>2, <1>3, <2>1, <2>4, TicketStepInv
<1>6. CASE ticket[w] # Unset
  <2>1. UNCHANGED <<ticket, ticketVars>>
    BY <1>6 DEF AssignTicket
  <2>2. SameHolders
    BY <1>0, <2>1 DEF SameHolders, AheadOfItsTicket, SessionTypes
  <2> QED BY <1>0, <1>2, <1>3, <1>4, <2>1, <2>2, QuietStep
<1> QED BY <1>5, <1>6

(* The entries of the flush queue come in the order of their tickets. *)
LEMMA PassTicketInv ==
  ASSUME IInv, NEW s \in Sessions, PassTicket(s)
  PROVE  IInv'
<1> USE DEF IInv, Sessions
<1>0. /\ pc[s] = "ticket" /\ pc' = [pc EXCEPT ![s] = "count"]
      /\ ticket[s] = front
      /\ log' = IF failing[s] \/ Skips(s) THEN log ELSE Append(log, LogEntry(s))
      /\ UNCHANGED <<queueVars, ticketVars, stage, m_wait, deadlock, trx,
                     retries, failing, blocked_by, waking, ticket,
                     rollback_trx, registered, faults, again>>
  BY DEF PassTicket, GoTo, TicketTurnHasCome
<1>1. SessionTypes'
  BY <1>0 DEF SessionTypes, AllPlaces
<1>2. Places' /\ SamePlaces
  BY <1>0 DEF SessionTypes, Places, TicketPlaces, WakePlaces, SamePlaces, InQueue
<1>3. SameHolders
  BY <1>0 DEF SameHolders, AheadOfItsTicket, SessionTypes
<1>4. CountsUntilAgain'
  <2>1. ASSUME TicketCounts PROVE TicketCounts'
    <3>1. \A x \in Sessions : pc'[x] = "count" => ticket'[x] = front
      BY <1>0, <2>1 DEF TicketCounts, SessionTypes
    <3> QED BY <1>0, <1>3, <2>1, <3>1, CountsSame
  <2> QED BY <1>0, <2>1 DEF CountsUntilAgain
<1>5. Members' /\ QueueTypeOK' /\ TicketTypeOK' /\ TicketBounds'
  BY <1>0, <1>2, MembersSame
  DEF queueVars, ticketVars, QueueTypeOK, TicketTypeOK, TicketBounds
<1>6. LogTypes' /\ LogTickets'
  <2>1. CASE failing[s] \/ Skips(s)
    BY <1>0, <2>1 DEF LogTypes, LogTickets, TicketOrder, ticketVars
  <2>2. CASE ~(failing[s] \/ Skips(s))
    <3> DEFINE E == [trx : 0 .. MaxTrx, ticket : Nat, overtook : BOOLEAN]
    <3>1. /\ LogEntry(s) \in E /\ LogEntry(s).ticket = front /\ front \in Nat
      BY <1>0 DEF LogEntry, SessionTypes, TicketTypeOK
    <3>2. /\ log' \in Seq(E) /\ log \in Seq(E) /\ Len(log) \in Nat
          /\ Len(log') = Len(log) + 1 /\ log'[Len(log) + 1] = LogEntry(s)
          /\ \A i \in 1 .. Len(log) : log'[i] = log[i]
      BY <1>0, <2>2, <3>1, AppendProperties, LenProperties DEF LogTypes
    <3> HIDE DEF E
    <3>3. /\ DOMAIN log' = 1 .. Len(log) + 1 /\ DOMAIN log = 1 .. Len(log)
          /\ \A i \in DOMAIN log' : i \in DOMAIN log \/ i = Len(log) + 1
      BY <3>2, LenProperties
    <3>4. \A i \in DOMAIN log : log[i].ticket \in Nat
      BY LogElements
    <3>5. \A i \in DOMAIN log' : log'[i].ticket <= front
      BY <3>1, <3>2, <3>3 DEF LogTickets
    <3>6. \A i, j \in DOMAIN log' : i < j => log'[i].ticket <= log'[j].ticket
      <4>1. SUFFICES ASSUME NEW i \in DOMAIN log', NEW j \in DOMAIN log', i < j
                     PROVE  log'[i].ticket <= log'[j].ticket
        OBVIOUS
      <4>2. CASE j = Len(log) + 1
        BY <3>1, <3>2, <3>5, <4>2
      <4>3. CASE j # Len(log) + 1
        <5>1. i \in 1 .. Len(log) /\ j \in 1 .. Len(log)
          BY <3>2, <3>3, <4>1, <4>3
        <5> QED BY <3>2, <3>3, <4>1, <5>1 DEF LogTickets, TicketOrder
      <4> QED BY <4>2, <4>3
    <3>7. UNCHANGED front
      BY <1>0 DEF ticketVars
    <3> QED BY <3>2, <3>5, <3>6, <3>7 DEF LogTypes, LogTickets, TicketOrder, E
  <2> QED BY <2>1, <2>2
<1> QED BY <1>1, <1>2, <1>4, <1>5, <1>6

(* SleepForTicket preserves the invariant. *)
LEMMA SleepInv ==
  ASSUME IInv, NEW s \in Sessions, SleepForTicket(s) \/ TicketTimeout(s)
  PROVE  IInv'
<1> USE DEF IInv, Sessions, SleepForTicket, TicketTimeout, GoTo, sharedVars
<1>1. UNCHANGED <<queueVars, ticketVars, log, again>>
  OBVIOUS
<1>2. SessionTypes'
  BY DEF SessionTypes, AllPlaces
<1>3. Places'
  <2>1. /\ pc[s] \in TicketPlaces /\ pc'[s] \in {"asleep", "ticket"}
        /\ \A x \in Sessions \ {s} : pc'[x] = pc[x]
        /\ UNCHANGED <<stage, failing, ticket>>
    BY DEF SessionTypes, TicketPlaces
  <2> QED BY <2>1 DEF Places, TicketPlaces, WakePlaces
<1>6. SamePlaces
  BY DEF SessionTypes, WakePlaces, SamePlaces, InQueue
<1>4. SameHolders
  BY DEF SameHolders, AheadOfItsTicket, SessionTypes
<1>5. NobodyPasses
  BY DEF NobodyPasses, SessionTypes
<1> QED BY <1>1, <1>2, <1>3, <1>4, <1>5, <1>6, QuietStep

(* CountSession preserves the invariant. *)
LEMMA CountSessionInv ==
  ASSUME IInv, NEW s \in Sessions, CountSession(s)
  PROVE  IInv'
<1> USE DEF IInv, Sessions
<1>0. /\ pc[s] = "count" /\ pc' = [pc EXCEPT ![s] = "signal"]
      /\ AddProcessedSession
      /\ UNCHANGED <<queueVars, stage, m_wait, deadlock, trx, retries, failing,
                     blocked_by, waking, ticket, rollback_trx, registered,
                     faults, log, again>>
  BY DEF CountSession, GoTo, sharedVars
<1>1. SessionTypes'
  BY <1>0 DEF SessionTypes, AllPlaces
<1>2. Places' /\ SamePlaces
  BY <1>0 DEF SessionTypes, Places, TicketPlaces, WakePlaces, SamePlaces, InQueue
<1>3. CountsUntilAgain'
  <2>1. ASSUME TicketCounts PROVE TicketCounts'
    BY <1>0, <2>1, ProcessedCounts
  <2> QED BY <1>0, <2>1 DEF CountsUntilAgain
<1> QED BY <1>0, <1>1, <1>2, <1>3, TicketStepInv

(* A session that was counted has no ticket left to pass; others sleep on  *)
(* or wake up, with the ticket they have.                                  *)
LEMMA SignalInv ==
  ASSUME IInv, NEW s \in Sessions, SignalEndOfTicket(s)
  PROVE  IInv'
<1> USE DEF IInv, Sessions
<1>0. /\ pc[s] = "signal" /\ PopFrontTicket
      /\ UNCHANGED <<queueVars, stage, m_wait, deadlock, trx, retries, failing,
                     blocked_by, waking, rollback_trx, registered, faults, log,
                     again>>
  BY DEF SignalEndOfTicket, sharedVars
<1>1. /\ AfterTicket(s) \in {"stopped", "finish", "order", "idle"}
      /\ s \in Views => AfterTicket(s) = "stopped"
      /\ s \in Workers /\ ~failing[s] =>
           AfterTicket(s) = IF stage[s] = "FINISHED" THEN "idle" ELSE "finish"
      /\ s \in Workers /\ failing[s] =>
           AfterTicket(s) = IF stage[s] = "FINISHED" THEN "stopped" ELSE "order"
  BY ManagerAssumption DEF AfterTicket
<1>2. /\ pc' \in [Sessions -> AllPlaces]
      /\ pc'[s] = AfterTicket(s)
      /\ \A x \in Sessions \ {s} :
           \/ pc'[x] = pc[x]
           \/ pc[x] = "asleep" /\ pc'[x] = "ticket"
  BY <1>1 DEF SignalEndOfTicket, SessionTypes, AllPlaces
<1>3. /\ ticket' \in [Sessions -> Nat]
      /\ ticket'[s] = IF AfterTicket(s) = "finish" THEN ticket[s] ELSE Unset
      /\ \A x \in Sessions \ {s} : ticket'[x] = ticket[x]
  BY DEF SignalEndOfTicket, SessionTypes, Unset
<1>4. SessionTypes'
  BY <1>0, <1>2, <1>3 DEF SessionTypes
<1>5. Places'
  <2>1. ASSUME NEW w \in Workers
        PROVE  /\ pc'[w] \notin {"pop_front", "own_ticket"}
               /\ pc'[w] \in {"idle", "stopped"} => stage[w] = "FINISHED"
               /\ pc'[w] \in {"apply", "order"} => stage[w] = "REGISTERED"
               /\ pc'[w] \in {"check", "request"} =>
                    stage[w] = "FINISHED_APPLYING"
               /\ pc'[w] = "waiting" => stage[w] = "REQUESTED_GRANT"
               /\ pc'[w] \in TicketPlaces /\ failing[w] =>
                    stage[w] \in {"REGISTERED", "FINISHED"}
               /\ pc'[w] \in TicketPlaces /\ ~failing[w] =>
                    stage[w] \in {"WAITED", "WAITED_OVERTAKE", "FINISHED"}
               /\ pc'[w] \in {"finish"} \cup WakePlaces =>
                    stage[w] \in {"WAITED", "WAITED_OVERTAKE"}
    <3>1. CASE w = s
      BY <1>0, <1>1, <1>2, <3>1 DEF Places, TicketPlaces, WakePlaces,
                                    SessionTypes
    <3>2. CASE w # s
      BY <1>2, <3>2 DEF Places, TicketPlaces, WakePlaces
    <3> QED BY <3>1, <3>2
  <2>2. ASSUME NEW v \in Views
        PROVE  pc'[v] \in {"idle", "pop_front", "own_ticket", "stopped"}
                            \cup TicketPlaces
    BY <1>1, <1>2 DEF Places, TicketPlaces
  <2>3. \A x \in Sessions : pc'[x] \in {"idle", "pop_front", "own_ticket"} =>
                              ticket'[x] = Unset
    BY <1>1, <1>2, <1>3 DEF Places
  <2> QED BY <1>0, <2>1, <2>2, <2>3 DEF Places
<1>6. SamePlaces
  BY <1>0, <1>1, <1>2 DEF SamePlaces, InQueue, WakePlaces
<1>7. SameHolders
  <2>1. ~AheadOfItsTicket(s)
    BY <1>0 DEF AheadOfItsTicket
  <2>2. ~AheadOfItsTicket(s)'
    <3>1. CASE AfterTicket(s) = "finish"
      <4>1. ~failing[s]
        BY <1>1, <3>1 DEF SessionTypes, Places
      <4> QED BY <1>0, <1>2, <3>1, <4>1 DEF AheadOfItsTicket
    <3>2. CASE AfterTicket(s) # "finish"
      BY <1>3, <3>2 DEF AheadOfItsTicket
    <3> QED BY <3>1, <3>2
  <2>3. \A x \in Sessions \ {s} : AheadOfItsTicket(x)' <=> AheadOfItsTicket(x)
    BY <1>0, <1>2, <1>3 DEF AheadOfItsTicket
  <2> QED BY <1>3, <2>1, <2>2, <2>3 DEF SameHolders
<1>8. NobodyPasses
  BY <1>1, <1>2, <1>3 DEF NobodyPasses
<1>9. CountsUntilAgain'
  <2>1. ASSUME TicketCounts PROVE TicketCounts'
    BY <1>0, <1>7, <1>8, <2>1, PopCounts
  <2> QED BY <1>0, <2>1 DEF CountsUntilAgain
<1> QED BY <1>0, <1>4, <1>5, <1>6, <1>9, TicketStepInv

(* A session that applies a view change goes from place to place. *)
LEMMA ViewMoves ==
  ASSUME IInv, NEW v \in Views,
         NEW place \in {"pop_front", "own_ticket", "ticket"},
         pc' = [pc EXCEPT ![v] = place],
         pc[v] \in {"idle", "pop_front", "own_ticket"},
         \/ ticket' = ticket /\ place # "ticket"
         \/ ticket' = [ticket EXCEPT ![v] = back] /\ place = "ticket",
         UNCHANGED <<stage, m_wait, deadlock, trx, retries, failing, blocked_by,
                     waking, rollback_trx, registered, faults, again>>
  PROVE  SessionTypes' /\ Places' /\ SamePlaces
<1> USE DEF IInv, Sessions
<1>0. v \notin Workers
  BY ManagerAssumption
<1>1. SessionTypes'
  BY ZenonT(40) DEF SessionTypes, AllPlaces, TicketTypeOK
<1>2. \A w \in Workers : pc'[w] = pc[w]
  BY <1>0 DEF SessionTypes
<1>3. Places'
  <2>1. \A x \in Sessions \ {v} : pc'[x] = pc[x] /\ ticket'[x] = ticket[x]
    BY DEF SessionTypes
  <2>2. pc'[v] = place /\ (place # "ticket" => ticket'[v] = ticket[v])
    BY DEF SessionTypes
  <2> QED BY <1>2, <2>1, <2>2 DEF Places, TicketPlaces
<1>4. SamePlaces
  BY <1>2 DEF SamePlaces, InQueue
<1> QED BY <1>1, <1>3, <1>4

(* generate_view_change_bgc_ticket closes the tickets before and after its *)
(* own.                                                                    *)
LEMMA ViewInv ==
  ASSUME IInv, NEW v \in Views,
         ViewChange(v) \/ ViewPopsFront(v) \/ ViewTakesTicket(v)
  PROVE  IInv'
<1> USE DEF IInv, Sessions
<1>0. ticket[v] = Unset /\ v \in Sessions
  BY DEF ViewChange, ViewPopsFront, ViewTakesTicket, Places
<1>1. UNCHANGED <<queueVars, stage, m_wait, deadlock, trx, retries, failing,
                  blocked_by, waking, rollback_trx, registered, faults, log, again>>
  BY DEF ViewChange, ViewPopsFront, ViewTakesTicket, sharedVars
<1>2. CASE ViewChange(v)
  <2>1. /\ pc[v] = "idle" /\ pc' = [pc EXCEPT ![v] = "pop_front"]
        /\ PushNewTicket(0) /\ UNCHANGED ticket
    BY <1>2 DEF ViewChange, GoTo
  <2>2. SameHolders
    BY <1>0, <1>1, <2>1 DEF SameHolders, AheadOfItsTicket, SessionTypes
  <2>3. \A t : Holders(t)' = Holders(t)
    BY <2>2 DEF Holders, SameHolders
  <2>4. NobodyPasses
    BY <2>1 DEF NobodyPasses, SessionTypes
  <2>5. ASSUME TicketCounts PROVE TicketCounts'
    <3>1. \A t \in front .. back :
            /\ IsFiniteSet(Holders(t)')
            /\ Cardinality(Holders(t)') = Cardinality(Holders(t))
                                            + (IF t = back THEN 0 ELSE 0)
      BY <2>3, <2>5, FS_CardinalityType DEF TicketCounts
    <3>2. \A x \in Sessions : AheadOfItsTicket(x)' => ticket'[x] \in front .. back
      BY <2>2, <2>5 DEF SameHolders, TicketCounts
    <3> QED BY <2>1, <2>4, <2>5, <3>1, <3>2, PushCounts
  <2>6. SessionTypes' /\ Places' /\ SamePlaces
    BY <1>1, <2>1, ViewMoves
  <2> QED BY <1>1, <2>1, <2>5, <2>6, TicketStepInv DEF CountsUntilAgain
<1>3. CASE ViewPopsFront(v)
  <2>1. /\ pc[v] = "pop_front" /\ pc' = [pc EXCEPT ![v] = "own_ticket"]
        /\ PopFrontTicket /\ UNCHANGED ticket
    BY <1>3 DEF ViewPopsFront, GoTo
  <2>2. SameHolders
    BY <1>0, <1>1, <2>1 DEF SameHolders, AheadOfItsTicket, SessionTypes
  <2>3. NobodyPasses
    BY <2>1 DEF NobodyPasses, SessionTypes
  <2>4. ASSUME TicketCounts PROVE TicketCounts'
    BY <2>1, <2>2, <2>3, <2>4, PopCounts
  <2>5. SessionTypes' /\ Places' /\ SamePlaces
    BY <1>1, <2>1, ViewMoves
  <2> QED BY <1>1, <2>1, <2>4, <2>5, TicketStepInv DEF CountsUntilAgain
<1>4. CASE ViewTakesTicket(v)
  <2>1. /\ pc[v] = "own_ticket" /\ pc' = [pc EXCEPT ![v] = "ticket"]
        /\ PushNewTicket(1) /\ ticket' = [ticket EXCEPT ![v] = back]
    BY <1>4 DEF ViewTakesTicket, GoTo
  <2>2. ~AheadOfItsTicket(v) /\ ticket'[v] = back /\ back # Unset
    BY <1>0, <2>1 DEF AheadOfItsTicket, SessionTypes, TicketTypeOK
  <2>3. \A x \in Sessions :
          /\ AheadOfItsTicket(x)' <=> x = v \/ AheadOfItsTicket(x)
          /\ AheadOfItsTicket(x) => ticket'[x] = ticket[x]
    BY <1>1, <2>1, <2>2 DEF AheadOfItsTicket, SessionTypes
  <2>4. \A t \in front .. back :
          /\ t # back => Holders(t)' = Holders(t)
          /\ t = back => Holders(t)' = Holders(t) \cup {v} /\ v \notin Holders(t)
    BY <1>0, <2>2, <2>3 DEF Holders
  <2>5. NobodyPasses
    BY <2>1 DEF NobodyPasses, SessionTypes
  <2>6. ASSUME TicketCounts PROVE TicketCounts'
    <3>1. \A t \in front .. back :
            /\ IsFiniteSet(Holders(t)')
            /\ Cardinality(Holders(t)') = Cardinality(Holders(t))
                                            + (IF t = back THEN 1 ELSE 0)
      BY <2>4, <2>6, FS_AddElement, FS_CardinalityType DEF TicketCounts
    <3>2. \A x \in Sessions : AheadOfItsTicket(x)' => ticket'[x] \in front .. back
      BY <2>2, <2>3, <2>6, FrontAndBack DEF TicketCounts
    <3> QED BY <2>1, <2>5, <2>6, <3>1, <3>2, PushCounts
  <2>7. SessionTypes' /\ Places' /\ SamePlaces
    BY <1>1, <2>1, ViewMoves
  <2> QED BY <1>1, <2>1, <2>6, <2>7, TicketStepInv DEF CountsUntilAgain
<1> QED BY <1>2, <1>3, <1>4

(* So does a step that changes nothing. *)
LEMMA UnchangedInv == IInv /\ UNCHANGED vars => IInv'
<1> SUFFICES ASSUME IInv, UNCHANGED vars PROVE IInv'
  OBVIOUS
<1>1. SessionTypes' /\ Places'
  BY DEF IInv, SessionTypes, Places, vars, workerVars, sharedVars
<1>2. SamePlaces /\ SameHolders
  BY DEF SamePlaces, SameHolders, InQueue, AheadOfItsTicket, vars, workerVars
<1>3. NobodyPasses
  BY DEF NobodyPasses, vars, workerVars
<1> QED BY <1>1, <1>2, <1>3, QuietStep DEF vars, sharedVars

(* Every step preserves the invariant. *)
LEMMA NextInv == IInv /\ [Next]_vars => IInv'
<1> SUFFICES ASSUME IInv, [Next]_vars PROVE IInv'
  OBVIOUS
<1>1. ASSUME NEW s \in Sessions, TicketStep(s) PROVE IInv'
  BY <1>1, PassTicketInv, SleepInv, CountSessionInv, SignalInv DEF TicketStep
<1>2. ASSUME NEW w \in Workers, RegisterTrx(w) \/ ApplyError(w) \/ WorkerStep(w)
      PROVE  IInv'
  BY <1>1, <1>2, RegisterInv, WaitInv, AssignTicketInv, LeaveQueueInv, WakeInv
  DEF WorkerStep, Sessions
<1>3. ASSUME NEW v \in Views, ViewChange(v) \/ ViewStep(v) PROVE IInv'
  BY <1>1, <1>3, ViewInv DEF ViewStep, Sessions
<1> QED BY <1>2, <1>3, BlockedInv, UnchangedInv DEF Next, AllAtRest

(* The invariant holds in every state. *)
LEMMA Inductive == Spec => []IInv
<1> QED BY InitIInv, NextInv, PTL DEF Spec

(***************************************************************************)
(* Whatever fails, is retried or waits, the queue, the ticket manager and  *)
(* the sessions keep their types: the queue never hands out a worker that  *)
(* is not one, and the queue of ticket sizes is never read when empty.     *)
(***************************************************************************)
THEOREM TypeCorrect == Spec => []TypeOK
<1>1. IInv => TypeOK
  BY DEF IInv, TypeOK, SessionTypes, LogTypes, AllPlaces, AllStages
<1> QED BY <1>1, Inductive, PTL

(***************************************************************************)
(* Sessions enter the flush queue in the order of their tickets            *)
(* (wait_for_ticket_turn), so that a view change separates the             *)
(* transactions before it from those after it, for any number of workers   *)
(* and of view changes.                                                    *)
(***************************************************************************)
THEOREM TicketOrderHolds == Spec => []TicketOrder
<1>1. IInv => TicketOrder
  BY DEF IInv, LogTickets
<1> QED BY <1>1, Inductive, PTL

(***************************************************************************)
(* pop_front_ticket retires a ticket exactly when nobody who holds it is   *)
(* still to come: the two counts of a ticket, which is all the code keeps, *)
(* agree with the sessions that hold it, over every failure, retry and     *)
(* overtaking, up to the first step that hands a committed transaction     *)
(* with a ticket to retry_transaction.                                     *)
(***************************************************************************)
THEOREM TicketsInTurnHolds == Spec => []TicketsInTurn
<1>1. IInv => TicketsInTurn
  <2>1. IInv => TicketTypeOK /\ SessionTypes /\ (~again => TicketCounts)
    BY DEF IInv, CountsUntilAgain
  <2> QED BY <2>1 DEF TicketsInTurn, TicketCounts, TicketTypeOK, SessionTypes
<1> QED BY <1>1, Inductive, PTL

-----------------------------------------------------------------------------
(***************************************************************************)
(* Applier workers commit in relay log order as long as nobody overtakes:  *)
(* without view changes (a replica that is no member of a group) and       *)
(* before the sequence numbers repeat, a worker that is told it is its     *)
(* turn is first in the queue, whatever grants, deadlock reports, retries  *)
(* and failures come in between.                                           *)
(***************************************************************************)

(* The sequence number of the k-th transaction of the relay log. *)
Number(k) ==
  IF FirstNumber + k - 1 < SeqModulus
  THEN FirstNumber + k - 1
  ELSE FirstNumber + k + 1 - SeqModulus

(* How many transactions have left the queue; they are the first ones. *)
Left == registered - Len(commit_queue)

(* Nobody opens a second ticket, and so nobody overtakes. *)
NobodyOvertakes ==
  /\ back = 1 /\ front = 1
  /\ \A w \in Workers : stage[w] # "WAITED_OVERTAKE"

(* The queue holds the transactions that were not left, in order. *)
QueueInOrder ==
  /\ Left \in Nat
  /\ \A i \in 1 .. Len(commit_queue) : trx[commit_queue[i]] = Left + i

NumbersInOrder ==
  /\ SkipReserved(generator) = Number(registered + 1)
  /\ \A w \in Workers :
       /\ InQueue(w) => /\ next_nr[w] = Number(trx[w] + 1)
                        /\ seq_nr[w] \in {Number(trx[w]), SEQUENCE_NR_FROZEN}
       /\ ~InQueue(w) => seq_nr[w] = NO_SEQUENCE_NR

(* A worker that has left the queue knows the number of the next. *)
WakesNext ==
  \A u \in Workers : pc[u] \in WakePlaces =>
    /\ trx[u] \in 1 .. Left
    /\ waking[u].nr = Number(trx[u] + 1)
    /\ pc[u] # "wake" => waking[u].worker \in Workers

Granting == {u \in Workers : pc[u] \in {"grant", "unfreeze"}}

(* The worker that is being granted its turn is first, and cannot leave. *)
GrantsFront ==
  /\ \A u \in Granting : /\ Front = waking[u].worker
                         /\ seq_nr[Front] = SEQUENCE_NR_FROZEN
                         /\ trx[Front] = trx[u] + 1
  /\ \A u, v \in Granting : u = v

GrantIsForFront ==
  \A w \in Workers :
    m_wait[w] = "GRANTED" /\ pc[w] \in {"check", "request", "waiting"} =>
      Front = w

TInv ==
  /\ NobodyOvertakes /\ QueueInOrder /\ NumbersInOrder /\ WakesNext
  /\ GrantsFront /\ GrantIsForFront /\ TurnIsFront

Logged(k) == \E j \in 1 .. Len(log) : log[j].trx = k

(* w was told that it is its turn, and goes on to commit. *)
Committing(w) ==
  /\ stage[w] = "WAITED" /\ ~failing[w]
  /\ pc[w] \in TicketPlaces \cup {"finish"}

(* The flush queue has every transaction that left the commit order queue, *)
(* unless one of them failed.                                              *)
RInv ==
  /\ RelayOrder
  /\ ~rollback_trx => \A k \in 1 .. Left : Logged(k)
  /\ \A w \in Workers : Committing(w) => \A k \in 1 .. trx[w] - 1 : Logged(k)
  /\ \A w \in Workers : Committing(w) /\ pc[w] \in {"count", "signal", "finish"}
                          => Logged(trx[w])
  /\ \A w \in Workers : pc[w] = "finish" /\ failing[w] => rollback_trx

-----------------------------------------------------------------------------
(* No view changes, and more sequence numbers than transactions. *)
NoViews == Views = {} /\ MaxTrx + 3 <= SeqModulus

(* Before they repeat, sequence numbers tell the pushes apart. *)
LEMMA NumberFacts ==
  ASSUME NEW k \in Nat, k >= 1, k <= SeqModulus - 2
  PROVE  /\ Number(k) \in 2 .. SeqModulus - 1
         /\ \A j \in Nat : j >= 1 /\ j <= SeqModulus - 2 /\ Number(j) = Number(k)
                             => j = k
         /\ k + 1 <= SeqModulus - 2 =>
              SkipReserved(Number(k) + 1) = Number(k + 1)
         /\ SkipReserved((Number(k) + 1) % SeqModulus)
              = SkipReserved(Number(k) + 1)
<1>0. /\ SeqModulus \in Nat /\ SeqModulus > 3
      /\ FirstNumber \in Nat /\ FirstNumber >= 2 /\ FirstNumber < SeqModulus
  BY ModulusFacts, QueueAssumption
<1>1. Number(k) \in 2 .. SeqModulus - 1
  BY <1>0 DEF Number
<1>2. ASSUME NEW j \in Nat, j >= 1, j <= SeqModulus - 2, Number(j) = Number(k)
      PROVE  j = k
  BY <1>0, <1>2 DEF Number
<1>3. CASE Number(k) + 1 < SeqModulus
  <2>1. (Number(k) + 1) % SeqModulus = Number(k) + 1
    BY <1>0, <1>1, <1>3
  <2>2. SkipReserved(Number(k) + 1) = Number(k) + 1
    <3>1. \A n : n % SeqModulus = n /\ ~(n <= 1) => SkipReserved(n) = n
      BY DEF SkipReserved, SEQUENCE_NR_FROZEN
    <3>2. ~(Number(k) + 1 <= 1)
      BY <1>0, <1>1
    <3> QED BY <2>1, <3>1, <3>2
  <2>3. Number(k + 1) = Number(k) + 1
    BY <1>0, <1>3 DEF Number
  <2> QED BY <1>1, <1>2, <2>1, <2>2, <2>3
<1>4. CASE ~(Number(k) + 1 < SeqModulus)
  <2>1. Number(k) + 1 = SeqModulus
    BY <1>0, <1>1, <1>4
  <2>2. SeqModulus % SeqModulus = 0 /\ 0 % SeqModulus = 0
    BY <1>0
  <2>3. SkipReserved(SeqModulus) = 2 /\ SkipReserved(0) = 2
    BY <2>2 DEF SkipReserved, SEQUENCE_NR_FROZEN
  <2>4. Number(k + 1) = 2
    BY <1>0, <2>1 DEF Number
  <2> QED BY <1>1, <1>2, <2>1, <2>2, <2>3, <2>4
<1> QED BY <1>3, <1>4

(* The invariant holds at first. *)
LEMMA InitTInv == Init /\ NoViews => TInv /\ RInv
<1> SUFFICES ASSUME Init, NoViews PROVE TInv /\ RInv
  OBVIOUS
<1> USE DEF Init, QueueInit, TicketInit
<1>1. NobodyOvertakes
  BY DEF NobodyOvertakes
<1>2. Left = 0 /\ QueueInOrder
  <2>1. Len(commit_queue) = 0 /\ registered = 0
    OBVIOUS
  <2>2. 0 - 0 = 0 /\ 1 .. 0 = {}
    OBVIOUS
  <2>3. Left = 0
    BY <2>1, <2>2 DEF Left
  <2> QED BY <2>1, <2>2, <2>3 DEF QueueInOrder
<1>3. NumbersInOrder
  <2>1. /\ SeqModulus \in Nat /\ SeqModulus > 3
        /\ FirstNumber \in Nat /\ FirstNumber >= 2 /\ FirstNumber < SeqModulus
    BY ModulusFacts, QueueAssumption
  <2>2. FirstNumber % SeqModulus = FirstNumber
    BY <2>1
  <2>3. SkipReserved(FirstNumber) = FirstNumber
    BY <2>1, <2>2 DEF SkipReserved, SEQUENCE_NR_FROZEN
  <2>4. Number(0 + 1) = FirstNumber
    BY <2>1 DEF Number
  <2> QED BY <2>3, <2>4 DEF NumbersInOrder, InQueue
<1>4. WakesNext /\ GrantsFront /\ GrantIsForFront /\ TurnIsFront
  BY DEF WakesNext, WakePlaces, GrantsFront, Granting, GrantIsForFront,
         TurnIsFront, Sessions
<1>5. RInv
  BY <1>2 DEF RInv, RelayOrder, Committing, Sessions
<1> QED BY <1>1, <1>2, <1>3, <1>4, <1>5 DEF TInv

(* The front of the queue is its first transaction. *)
LEMMA FrontFacts ==
  ASSUME IInv, QueueInOrder, NEW w \in Workers
  PROVE  /\ Front = w => /\ commit_queue # << >> /\ commit_queue[1] = w
                         /\ Len(commit_queue) >= 1 /\ InQueue(w)
                         /\ trx[w] = Left + 1
         /\ InQueue(w) => /\ trx[w] \in 1 .. registered /\ trx[w] > Left
                          /\ trx[w] <= Left + 1 => Front = w
<1>0. /\ commit_queue \in Seq(Workers) /\ Len(commit_queue) \in Nat
      /\ registered \in Nat /\ Left \in Nat /\ Left + Len(commit_queue) = registered
  BY LenProperties, ManagerAssumption
  DEF IInv, QueueTypeOK, SessionTypes, Left, QueueInOrder
<1>1. ASSUME Front = w
      PROVE  /\ commit_queue # << >> /\ commit_queue[1] = w
             /\ Len(commit_queue) >= 1 /\ InQueue(w)
             /\ trx[w] = Left + 1
  <2>1. commit_queue # << >> /\ commit_queue[1] = w /\ Len(commit_queue) >= 1
    BY <1>0, <1>1, QueueAssumption DEF Front
  <2>2. 1 \in 1 .. Len(commit_queue)
    BY <1>0, <2>1
  <2> QED BY <2>1, <2>2 DEF QueueInOrder, IInv, Members
<1>2. ASSUME InQueue(w)
      PROVE  /\ trx[w] \in 1 .. registered /\ trx[w] > Left
             /\ trx[w] <= Left + 1 => Front = w
  <2>1. PICK i \in 1 .. Len(commit_queue) : commit_queue[i] = w
    BY <1>2 DEF IInv, Members
  <2>2. trx[w] = Left + i /\ i \in Nat /\ i >= 1 /\ i <= Len(commit_queue)
    BY <1>0, <2>1 DEF QueueInOrder
  <2>3. i = 1 => Front = w
    BY <1>0, <2>1 DEF Front
  <2> QED BY <1>0, <2>2, <2>3
<1> QED BY <1>1, <1>2

(* What concerns neither the queue nor the workers that wake another one.  *)
LEMMA LocalTInv ==
  ASSUME IInv, TInv, SamePlaces,
         UNCHANGED <<queueVars, trx, registered, waking>>,
         \A u \in Workers : \/ pc'[u] = pc[u]
                            \/ pc[u] \notin WakePlaces /\ pc'[u] \notin WakePlaces,
         NobodyOvertakes', GrantIsForFront', TurnIsFront'
  PROVE  TInv'
<1>1. QueueInOrder' /\ Left' = Left /\ Front' = Front
  BY DEF TInv, QueueInOrder, Left, Front, queueVars
<1>2. NumbersInOrder'
  BY DEF TInv, NumbersInOrder, SamePlaces, queueVars
<1>3. WakesNext'
  BY <1>1 DEF TInv, WakesNext, WakePlaces
<1>4. Granting' = Granting
  BY DEF Granting, WakePlaces
<1>5. GrantsFront'
  BY <1>1, <1>4 DEF TInv, GrantsFront, queueVars
<1> QED BY <1>1, <1>2, <1>3, <1>5 DEF TInv

(* A step of the wait preserves the turns. *)
LEMMA WaitTInv ==
  ASSUME NoViews, IInv, TInv, NEW w \in Workers,
         \/ EnterWait(w) \/ NotMyTurn(w) \/ RequestGrant(w)
         \/ FirstInQueue(w) \/ AskedToRollBack(w)
         \/ Granted(w) \/ Victim(w) \/ Overtake(w)
         \/ DeadlockFound(w) \/ ApplyError(w)
  PROVE  TInv'
<1>0. ~Overtake(w)
  BY DEF Overtake, OnItsTurnAndBackIncremented, TInv, NobodyOvertakes
<1> USE DEF EnterWait, NotMyTurn, RequestGrant, FirstInQueue, AskedToRollBack,
            Granted, Victim, DeadlockFound, ApplyError, ItIsMyTurn,
            LeaveWait, HeedRollbackStatus, WaitFailed, RetryTransaction,
            ReleaseLocks, GoTo, sharedVars
<1>1. UNCHANGED <<queueVars, ticketVars, trx, registered, waking>>
  BY <1>0
<1>2. SamePlaces
  BY <1>0 DEF SamePlaces, InQueue, IInv, SessionTypes, Places, TicketPlaces,
              WakePlaces, Sessions
<1>3. \A u \in Workers : \/ pc'[u] = pc[u]
                         \/ pc[u] \notin WakePlaces /\ pc'[u] \notin WakePlaces
  BY <1>0 DEF IInv, SessionTypes, WakePlaces, Sessions
<1>4. NobodyOvertakes'
  BY <1>0, <1>1 DEF TInv, NobodyOvertakes, IInv, SessionTypes, ticketVars
<1>5. Front' = Front
  BY <1>1 DEF Front, queueVars
<1>6. GrantIsForFront'
  BY <1>0, <1>5 DEF TInv, GrantIsForFront, IInv, SessionTypes, Sessions
<1>7. TurnIsFront'
  BY <1>0, <1>5 DEF TInv, TurnIsFront, GrantIsForFront, IInv, SessionTypes,
                    Places, Sessions
<1> QED BY <1>1, <1>2, <1>3, <1>4, <1>6, <1>7, LocalTInv

(* Blocked preserves the turns. *)
LEMMA BlockedTInv ==
  ASSUME IInv, TInv, NEW u \in Workers, NEW w \in Workers, Blocked(u, w)
  PROVE  TInv'
<1> USE DEF Blocked, CheckAndReportDeadlock
<1>1. UNCHANGED <<queueVars, ticketVars, pc, stage, trx, registered, waking>>
  OBVIOUS
<1>2. SamePlaces
  BY <1>1 DEF SamePlaces, InQueue
<1>3. NobodyOvertakes' /\ TurnIsFront' /\ Front' = Front
  BY <1>1 DEF TInv, NobodyOvertakes, TurnIsFront, Front, queueVars, ticketVars
<1>4. GrantIsForFront'
  BY <1>1, <1>3 DEF TInv, GrantIsForFront, IInv, SessionTypes
<1> QED BY <1>1, <1>2, <1>3, <1>4, LocalTInv

(* The steps around tickets leave the place in the queue alone. *)
LEMMA TicketTInv ==
  ASSUME NoViews, IInv, TInv, NEW w \in Workers,
         AssignTicket(w) \/ TicketStep(w)
  PROVE  TInv'
<1> USE DEF TicketStep, AssignTicket, PassTicket, SleepForTicket, TicketTimeout,
            CountSession, SignalEndOfTicket, GoTo, sharedVars
<1>1. UNCHANGED <<queueVars, stage, m_wait, trx, registered, waking, failing>>
  OBVIOUS
<1>2. UNCHANGED <<back, front>>
  BY DEF TInv, NobodyOvertakes, ticketVars, AssignSessionToTicket,
         AddProcessedSession, PopFrontTicket, FrontTicketDone
<1>3. Sessions = Workers
  BY DEF NoViews, Sessions
<1>4. AfterTicket(w) \in {"stopped", "finish", "order", "idle"}
  BY ManagerAssumption DEF AfterTicket, IInv, SessionTypes
<1>5. \A x \in Workers :
        \/ pc'[x] = pc[x]
        \/ /\ pc[x] \in TicketPlaces \cup {"apply"}
           /\ pc'[x] \in TicketPlaces \cup {"stopped", "finish", "order", "idle"}
           /\ pc'[x] \in TicketPlaces \cup {"finish"} => pc[x] # "apply"
           /\ pc'[x] \in {"stopped", "idle"} => stage[x] = "FINISHED"
  <2>1. AfterTicket(w) \in {"stopped", "idle"} => stage[w] = "FINISHED"
    BY ManagerAssumption DEF AfterTicket, NoViews, IInv, SessionTypes
  <2> QED BY <1>3, <1>4, <2>1 DEF IInv, SessionTypes, TicketPlaces
<1>6. SamePlaces
  BY <1>1, <1>5 DEF SamePlaces, InQueue, WakePlaces, TicketPlaces
<1>7. NobodyOvertakes' /\ Front' = Front
  BY <1>1, <1>2 DEF TInv, NobodyOvertakes, Front, queueVars
<1>8. GrantIsForFront'
  BY <1>1, <1>5, <1>7 DEF TInv, GrantIsForFront, TicketPlaces
<1>9. TurnIsFront'
  BY <1>1, <1>5, <1>7 DEF TInv, TurnIsFront, TicketPlaces
<1>10. \A u \in Workers : \/ pc'[u] = pc[u]
                          \/ pc[u] \notin WakePlaces /\ pc'[u] \notin WakePlaces
  BY <1>5 DEF TicketPlaces, WakePlaces
<1> QED BY <1>1, <1>6, <1>7, <1>8, <1>9, <1>10, LocalTInv

(* The next transaction of the relay log gets the next number and the last *)
(* place in the queue.                                                     *)
LEMMA RegisterTInv ==
  ASSUME NoViews, IInv, TInv, NEW w \in Workers, RegisterTrx(w)
  PROVE  TInv'
<1>0. /\ pc[w] = "idle" /\ pc' = [pc EXCEPT ![w] = "apply"]
      /\ registered < MaxTrx /\ registered' = registered + 1
      /\ trx' = [trx EXCEPT ![w] = registered + 1]
      /\ stage' = [stage EXCEPT ![w] = "REGISTERED"]
      /\ Push(w)
      /\ UNCHANGED <<ticketVars, m_wait, waking>>
  BY DEF RegisterTrx, GoTo
<1>1. /\ commit_queue \in Seq(Workers) /\ Len(commit_queue) \in Nat
      /\ registered \in Nat /\ registered + 1 <= MaxTrx /\ Left \in Nat
      /\ Left + Len(commit_queue) = registered
  BY <1>0, LenProperties, ManagerAssumption
  DEF IInv, QueueTypeOK, SessionTypes, TInv, QueueInOrder, Left
<1>2. /\ commit_queue' = Append(commit_queue, w)
      /\ Len(commit_queue') = Len(commit_queue) + 1
      /\ commit_queue'[Len(commit_queue) + 1] = w
      /\ \A i \in 1 .. Len(commit_queue) : commit_queue'[i] = commit_queue[i]
  BY <1>0, <1>1, AppendProperties DEF Push
<1>3. Left' = Left
  BY <1>0, <1>1, <1>2 DEF Left
<1>4. ~InQueue(w) /\ \A i \in 1 .. Len(commit_queue) : commit_queue[i] # w
  BY <1>0 DEF IInv, Places, InQueue, Members
<1>5. /\ trx'[w] = registered + 1
      /\ \A x \in Workers \ {w} : trx'[x] = trx[x] /\ pc'[x] = pc[x]
                                  /\ stage'[x] = stage[x]
      /\ pc'[w] = "apply" /\ stage'[w] = "REGISTERED"
  BY <1>0 DEF IInv, SessionTypes, Sessions
<1>6. QueueInOrder'
  <2>1. ASSUME NEW i \in 1 .. Len(commit_queue')
        PROVE  trx'[commit_queue'[i]] = Left + i
    <3>1. CASE i \in 1 .. Len(commit_queue)
      <4>1. commit_queue[i] \in Workers \ {w}
        BY <1>1, <1>4, <3>1
      <4> QED BY <1>2, <1>5, <3>1, <4>1 DEF TInv, QueueInOrder
    <3>2. CASE i \notin 1 .. Len(commit_queue)
      <4>1. i = Len(commit_queue) + 1
        BY <1>1, <1>2, <3>2
      <4> QED BY <1>1, <1>2, <1>5, <4>1
    <3> QED BY <3>1, <3>2
  <2> QED BY <1>1, <1>3, <2>1 DEF QueueInOrder
<1>7. \A x \in Workers : InQueue(x)' <=> x = w \/ InQueue(x)
  BY <1>5 DEF InQueue, WakePlaces
<1>8. NumbersInOrder'
  <2>1. SkipReserved(generator) = Number(registered + 1)
    BY DEF TInv, NumbersInOrder
  <2>2. /\ registered + 1 \in Nat /\ registered + 1 >= 1
        /\ registered + 1 <= SeqModulus - 2
        /\ registered + 1 + 1 <= SeqModulus - 2
    BY <1>1, ModulusFacts, ManagerAssumption DEF NoViews
  <2>3. /\ SkipReserved(Number(registered + 1) + 1) = Number(registered + 1 + 1)
        /\ SkipReserved((Number(registered + 1) + 1) % SeqModulus)
             = Number(registered + 1 + 1)
    BY <2>2, NumberFacts
  <2>4. /\ generator' = (Number(registered + 1) + 1) % SeqModulus
        /\ seq_nr' = [seq_nr EXCEPT ![w] = Number(registered + 1)]
        /\ next_nr' = [next_nr EXCEPT ![w] =
                         SkipReserved(Number(registered + 1) + 1)]
    BY <1>0, <2>1 DEF Push
  <2>5. SkipReserved(generator)' = Number(registered + 1)'
    BY <1>0, <2>3, <2>4 DEF SkipReserved, Number
  <2>6. /\ seq_nr'[w] = Number(registered + 1)
        /\ next_nr'[w] = Number(registered + 1 + 1)
        /\ \A x \in Workers \ {w} : seq_nr'[x] = seq_nr[x] /\ next_nr'[x] = next_nr[x]
    BY <2>3, <2>4 DEF IInv, QueueTypeOK
  <2>7. ASSUME NEW x \in Workers
        PROVE  /\ InQueue(x)' =>
                    /\ next_nr'[x] = Number(trx'[x] + 1)
                    /\ seq_nr'[x] \in {Number(trx'[x]), SEQUENCE_NR_FROZEN}
               /\ ~InQueue(x)' => seq_nr'[x] = NO_SEQUENCE_NR
    <3>1. CASE x = w
      BY <1>5, <1>7, <2>6, <3>1
    <3>2. CASE x # w
      BY <1>5, <1>7, <2>6, <3>2 DEF TInv, NumbersInOrder
    <3> QED BY <3>1, <3>2
  <2> QED BY <2>5, <2>7 DEF NumbersInOrder, Number
<1>9. \A x \in Workers : Front = x => Front' = x
  BY <1>1, <1>2, QueueAssumption DEF Front
<1>10. WakesNext'
  BY <1>0, <1>3, <1>5 DEF TInv, WakesNext, WakePlaces
<1>11. GrantsFront'
  <2>1. Granting' = Granting /\ w \notin Granting
    BY <1>0, <1>5 DEF Granting
  <2>2. ASSUME NEW u \in Granting
        PROVE  /\ Front' = waking'[u].worker
               /\ seq_nr'[Front'] = SEQUENCE_NR_FROZEN
               /\ trx'[Front'] = trx'[u] + 1
    <3>1. /\ Front \in Workers /\ Front = waking[u].worker /\ u \in Workers \ {w}
          /\ seq_nr[Front] = SEQUENCE_NR_FROZEN /\ trx[Front] = trx[u] + 1
      BY <2>1 DEF TInv, GrantsFront, Granting, WakesNext, WakePlaces
    <3>2. InQueue(Front) /\ Front # w
      BY <1>4, <3>1, FrontFacts DEF TInv
    <3>3. Front' = Front
      BY <1>9, <3>1
    <3>4. seq_nr'[Front] = seq_nr[Front]
      BY <1>0, <3>1, <3>2 DEF Push, IInv, QueueTypeOK
    <3> QED BY <1>0, <1>5, <3>1, <3>2, <3>3, <3>4
  <2> QED BY <2>1, <2>2 DEF TInv, GrantsFront
<1>12. GrantIsForFront' /\ TurnIsFront'
  BY <1>0, <1>5, <1>9 DEF TInv, GrantIsForFront, TurnIsFront
<1>13. NobodyOvertakes'
  BY <1>0, <1>5 DEF TInv, NobodyOvertakes, ticketVars
<1> QED BY <1>6, <1>8, <1>10, <1>11, <1>12, <1>13 DEF TInv

(* The worker leaves from the front: the next one becomes the front. *)
LEMMA LeaveQueueTInv ==
  ASSUME NoViews, IInv, TInv, NEW w \in Workers, LeaveQueue(w)
  PROVE  TInv'
<1>0. /\ pc[w] = "finish" /\ stage[w] = "WAITED" /\ Front = w /\ Pop(w)
      /\ pc' = [pc EXCEPT ![w] = "wake"]
      /\ waking' = [waking EXCEPT ![w] =
                      [NobodyToWake EXCEPT !.nr = NumberToWake(w)]]
      /\ UNCHANGED <<ticketVars, stage, m_wait, trx, registered>>
  BY DEF LeaveQueue, GoTo, sharedVars, IInv, Places, TInv, NobodyOvertakes
<1>1. /\ commit_queue \in Seq(Workers) /\ commit_queue # << >>
      /\ Len(commit_queue) \in Nat /\ Len(commit_queue) >= 1
      /\ commit_queue[1] = w /\ InQueue(w)
      /\ trx[w] = Left + 1 /\ Left \in Nat
      /\ registered = Left + Len(commit_queue) /\ registered \in Nat
      /\ registered <= MaxTrx
  <2>1. /\ commit_queue \in Seq(Workers) /\ Len(commit_queue) \in Nat
        /\ registered \in Nat /\ registered <= MaxTrx /\ Left \in Nat
    BY LenProperties, ManagerAssumption
    DEF IInv, QueueTypeOK, SessionTypes, TInv, QueueInOrder
  <2>2. registered = Left + Len(commit_queue)
    BY <2>1 DEF Left
  <2>3. /\ commit_queue # << >> /\ commit_queue[1] = w
        /\ Len(commit_queue) >= 1
    BY <1>0, <2>1, QueueAssumption DEF Front
  <2>4. InQueue(w)
    BY <1>0 DEF InQueue, WakePlaces
  <2>5. trx[w] = Left + 1
    BY <2>1, <2>3 DEF TInv, QueueInOrder
  <2> QED BY <2>1, <2>2, <2>3, <2>4, <2>5
<1>2. /\ Len(commit_queue') = Len(commit_queue) - 1
      /\ \A i \in 1 .. Len(commit_queue') : commit_queue'[i] = commit_queue[i + 1]
  BY <1>0, <1>1, HeadTailProperties DEF Pop
<1>3. Left' = Left + 1
  BY <1>0, <1>1, <1>2 DEF Left
<1>4. /\ seq_nr[w] # SEQUENCE_NR_FROZEN
      /\ seq_nr' = [seq_nr EXCEPT ![w] = NO_SEQUENCE_NR]
      /\ next_nr' = [next_nr EXCEPT ![w] = NO_SEQUENCE_NR]
      /\ generator' = generator
  BY <1>0 DEF Pop, ResetCommitSequenceNr
<1>5. QueueInOrder'
  <2>1. ASSUME NEW i \in 1 .. Len(commit_queue')
        PROVE  trx[commit_queue'[i]] = Left + 1 + i
    <3>1. i + 1 \in 1 .. Len(commit_queue)
      BY <1>1, <1>2
    <3>2. trx[commit_queue[i + 1]] = Left + (i + 1)
      BY <3>1 DEF TInv, QueueInOrder
    <3>3. commit_queue'[i] = commit_queue[i + 1]
      BY <1>2
    <3>4. Left + (i + 1) = Left + 1 + i
      <4>1. Left \in Nat /\ i \in Int
        BY <1>1
      <4> QED BY <4>1
    <3> QED BY <3>2, <3>3, <3>4
  <2> QED BY <1>0, <1>1, <1>3, <2>1 DEF QueueInOrder
<1>6. \A x \in Workers : InQueue(x)' <=> x # w /\ InQueue(x)
  BY <1>0 DEF InQueue, WakePlaces, IInv, SessionTypes, Sessions
<1>7. NumbersInOrder'
  <2>1. SkipReserved(generator)' = Number(registered + 1)'
    BY <1>0, <1>4 DEF TInv, NumbersInOrder, SkipReserved, Number
  <2>2. /\ seq_nr'[w] = NO_SEQUENCE_NR
        /\ \A x \in Workers \ {w} : seq_nr'[x] = seq_nr[x] /\ next_nr'[x] = next_nr[x]
    BY <1>4 DEF IInv, QueueTypeOK
  <2> QED BY <1>0, <1>6, <2>1, <2>2 DEF TInv, NumbersInOrder, Number
<1>8. WakesNext'
  <2>1. /\ waking'[w].nr = Number(trx[w] + 1) /\ pc'[w] = "wake"
        /\ \A x \in Workers \ {w} : waking'[x] = waking[x] /\ pc'[x] = pc[x]
    BY <1>0, <1>1
    DEF IInv, SessionTypes, Sessions, NumberToWake, NobodyToWake, TInv,
        NumbersInOrder
  <2>2. trx[w] \in 1 .. Left + 1
    BY <1>1
  <2>3. \A u \in Workers \ {w} : pc[u] \in WakePlaces => trx[u] \in 1 .. Left + 1
    BY <1>1 DEF TInv, WakesNext
  <2> QED BY <1>0, <1>3, <2>1, <2>2, <2>3 DEF TInv, WakesNext, Number
<1>9. Granting' = Granting /\ Granting = {}
  BY <1>0, <1>4 DEF TInv, GrantsFront, Granting, IInv, SessionTypes, Sessions
<1>10. GrantsFront'
  BY <1>9 DEF GrantsFront
<1>11. /\ \A x \in Workers \ {w} : Front # x /\ pc'[x] = pc[x]
       /\ pc'[w] = "wake"
  BY <1>0 DEF IInv, SessionTypes, Sessions
<1>12. GrantIsForFront' /\ TurnIsFront'
  BY <1>0, <1>11 DEF TInv, GrantIsForFront, TurnIsFront
<1>13. NobodyOvertakes'
  BY <1>0 DEF TInv, NobodyOvertakes, ticketVars
<1> QED BY <1>5, <1>7, <1>8, <1>10, <1>12, <1>13 DEF TInv

(* A worker that has left the queue is done: its place is free. *)
LEMMA PlaceIsFreeTInv ==
  ASSUME NoViews, IInv, TInv, NEW w \in Workers, pc[w] \in WakePlaces,
         PlaceIsFree(w), m_wait' = [m_wait EXCEPT ![w] = "EMPTY"],
         UNCHANGED <<commit_queue, next_nr, generator>>,
         \/ w \notin Granting /\ UNCHANGED seq_nr
         \/ w \in Granting /\ Unfreeze(waking[w].worker, waking[w].nr)
  PROVE  TInv'
<1> USE DEF NoViews
<1>0. /\ stage' = [stage EXCEPT ![w] = "FINISHED"]
      /\ waking' = [waking EXCEPT ![w] = NobodyToWake]
      /\ UNCHANGED <<ticketVars, registered>>
      /\ \A x \in Workers \ {w} : /\ pc'[x] = pc[x] /\ trx'[x] = trx[x]
                                  /\ stage'[x] = stage[x]
                                  /\ waking'[x] = waking[x]
                                  /\ m_wait'[x] = m_wait[x]
      /\ pc'[w] \in {"stopped", "ticket", "idle"} /\ stage'[w] = "FINISHED"
      /\ m_wait'[w] = "EMPTY"
  BY DEF PlaceIsFree, CommitIsOver, CommittedIsAppliedAgain,
         CommittedIsGivenUp, GoTo, sharedVars, IInv, SessionTypes, Sessions
<1>1. Left' = Left /\ Front' = Front
  BY <1>0 DEF Left, Front
<1>2. \A x \in Workers : InQueue(x)' <=> InQueue(x)
  BY <1>0 DEF InQueue
<1>3. ~InQueue(w)
  BY DEF InQueue
<1>4. \A x \in Workers : InQueue(x) => x # w
  BY <1>3
<1>5. QueueInOrder'
  <2>1. \A i \in 1 .. Len(commit_queue) : commit_queue[i] \in Workers \ {w}
    BY <1>3, ElementOfSeq DEF IInv, Members, QueueTypeOK
  <2> QED BY <1>0, <1>1, <2>1 DEF TInv, QueueInOrder
<1>6. WakesNext'
  BY <1>0, <1>1 DEF TInv, WakesNext, WakePlaces, Number
<1>7. Granting' = Granting \ {w}
  BY <1>0 DEF Granting
<1>8. \A x \in Workers : \/ seq_nr'[x] = seq_nr[x]
                         \/ InQueue(x) /\ seq_nr'[x] = Number(trx[x])
  <2>1. CASE w \notin Granting
    BY <2>1
  <2>2. CASE w \in Granting
    <3>1. /\ Front = waking[w].worker /\ Front \in Workers
          /\ trx[Front] = trx[w] + 1 /\ waking[w].nr = Number(trx[w] + 1)
      BY <2>2 DEF TInv, GrantsFront, WakesNext, Granting, WakePlaces
    <3>2. InQueue(Front)
      BY <3>1, FrontFacts DEF TInv
    <3>3. seq_nr' = [seq_nr EXCEPT ![Front] =
                       IF @ = SEQUENCE_NR_FROZEN THEN Number(trx[Front]) ELSE @]
      BY <2>2, <3>1 DEF Unfreeze
    <3> QED BY <3>2, <3>3 DEF IInv, QueueTypeOK
  <2> QED BY <2>1, <2>2
<1>9. NumbersInOrder'
  <2>1. SkipReserved(generator)' = Number(registered + 1)'
    BY <1>0 DEF TInv, NumbersInOrder, SkipReserved, Number
  <2>2. ASSUME NEW x \in Workers
        PROVE  /\ InQueue(x)' =>
                    /\ next_nr'[x] = Number(trx'[x] + 1)
                    /\ seq_nr'[x] \in {Number(trx'[x]), SEQUENCE_NR_FROZEN}
               /\ ~InQueue(x)' => seq_nr'[x] = NO_SEQUENCE_NR
    BY <1>0, <1>2, <1>4, <1>8 DEF TInv, NumbersInOrder
  <2> QED BY <2>1, <2>2 DEF NumbersInOrder, Number
<1>10. GrantsFront'
  <2>1. CASE w \in Granting
    <3>1. Granting' = {}
      BY <1>7, <2>1 DEF TInv, GrantsFront
    <3> QED BY <3>1 DEF GrantsFront
  <2>2. CASE w \notin Granting
    <3>1. Granting' = Granting /\ UNCHANGED seq_nr
      BY <1>7, <2>2
    <3>2. ASSUME NEW u \in Granting
          PROVE  /\ u \in Workers \ {w} /\ Front \in Workers /\ Front # w
                 /\ Front = waking[u].worker
                 /\ seq_nr[Front] = SEQUENCE_NR_FROZEN
                 /\ trx[Front] = trx[u] + 1
      <4>1. /\ Front \in Workers /\ u \in Workers \ {w}
            /\ Front = waking[u].worker
            /\ seq_nr[Front] = SEQUENCE_NR_FROZEN
            /\ trx[Front] = trx[u] + 1
        BY <2>2 DEF TInv, GrantsFront, WakesNext, Granting, WakePlaces
      <4>2. InQueue(Front)
        BY <4>1, FrontFacts DEF TInv
      <4> QED BY <1>3, <4>1, <4>2
    <3> QED BY <1>0, <1>1, <3>1, <3>2 DEF TInv, GrantsFront
  <2> QED BY <2>1, <2>2
<1>11. GrantIsForFront' /\ TurnIsFront'
  BY <1>0, <1>1 DEF TInv, GrantIsForFront, TurnIsFront
<1>12. NobodyOvertakes'
  BY <1>0 DEF TInv, NobodyOvertakes, ticketVars
<1> QED BY <1>5, <1>6, <1>9, <1>10, <1>11, <1>12 DEF TInv

(* A worker that goes on waking another one touches no other's place. *)
LEMMA WakePcs ==
  ASSUME NoViews, IInv, NEW w \in Workers, NEW p \in WakePlaces,
         pc[w] \in WakePlaces, GoTo(w, p)
  PROVE  /\ pc'[w] = p /\ \A x \in Workers \ {w} : pc'[x] = pc[x]
         /\ UNCHANGED stage => \A x \in Workers : InQueue(x)' <=> InQueue(x)
         /\ UNCHANGED <<stage, commit_queue>> /\ TurnIsFront => TurnIsFront'
         /\ UNCHANGED <<m_wait, commit_queue>> /\ GrantIsForFront => GrantIsForFront'
<1>1. pc'[w] = p /\ \A x \in Workers \ {w} : pc'[x] = pc[x]
  BY DEF GoTo, IInv, SessionTypes, Sessions
<1>2. UNCHANGED stage => \A x \in Workers : InQueue(x)' <=> InQueue(x)
  BY <1>1 DEF InQueue
<1>3. UNCHANGED commit_queue => Front' = Front
  BY DEF Front
<1>4. UNCHANGED <<stage, commit_queue>> /\ TurnIsFront => TurnIsFront'
  BY <1>1, <1>3 DEF TurnIsFront, WakePlaces
<1>5. UNCHANGED <<m_wait, commit_queue>> /\ GrantIsForFront => GrantIsForFront'
  BY <1>1, <1>3 DEF GrantIsForFront, WakePlaces
<1> QED BY <1>1, <1>2, <1>4, <1>5

(* LookForNext preserves the turns. *)
LEMMA LookForNextTInv ==
  ASSUME NoViews, IInv, TInv, NEW w \in Workers, LookForNext(w)
  PROVE  TInv'
<1>1. CASE Front # NO_WORKER /\ NeedsGrant(Front)
  <2>0. /\ pc[w] = "wake" /\ GoTo(w, "freeze")
        /\ waking' = [waking EXCEPT ![w].worker = Front]
        /\ UNCHANGED <<queueVars, ticketVars, stage, m_wait, trx, registered>>
    BY <1>1 DEF LookForNext, sharedVars
  <2>1. "freeze" \in WakePlaces /\ pc[w] \in WakePlaces
    BY <2>0 DEF WakePlaces
  <2>2. /\ pc'[w] = "freeze" /\ \A x \in Workers \ {w} : pc'[x] = pc[x]
        /\ \A x \in Workers : InQueue(x)' <=> InQueue(x)
        /\ TurnIsFront' /\ GrantIsForFront'
    BY <2>0, <2>1, WakePcs DEF TInv, queueVars
  <2>3. Left' = Left /\ Front' = Front /\ QueueInOrder'
    BY <2>0 DEF Left, Front, TInv, QueueInOrder, queueVars
  <2>4. NumbersInOrder' /\ NobodyOvertakes'
    BY <2>0, <2>2 DEF TInv, NumbersInOrder, NobodyOvertakes, queueVars, ticketVars,
                      SkipReserved, Number
  <2>5. /\ waking'[w].worker = Front /\ waking'[w].nr = waking[w].nr
        /\ \A x \in Workers \ {w} : waking'[x] = waking[x]
    BY <2>0 DEF IInv, SessionTypes
  <2>6. Front \in Workers
    <3>1. commit_queue # << >> /\ commit_queue \in Seq(Workers)
      BY <1>1 DEF Front, IInv, QueueTypeOK
    <3> QED BY <3>1 DEF Front
  <2>7. WakesNext'
    BY <2>0, <2>1, <2>2, <2>3, <2>5, <2>6 DEF TInv, WakesNext, Number
  <2>8. Granting' = Granting /\ w \notin Granting
    BY <2>0, <2>2 DEF Granting
  <2>9. GrantsFront'
    BY <2>0, <2>3, <2>5, <2>8 DEF TInv, GrantsFront, queueVars, Granting
  <2> QED BY <2>2, <2>3, <2>4, <2>7, <2>9 DEF TInv
<1>2. CASE ~(Front # NO_WORKER /\ NeedsGrant(Front))
  <2>1. /\ pc[w] = "wake" /\ PlaceIsFree(w) /\ UNCHANGED queueVars
        /\ m_wait' = [m_wait EXCEPT ![w] = "EMPTY"]
    BY <1>2 DEF LookForNext
  <2>2. w \notin Granting /\ pc[w] \in WakePlaces
    BY <2>1 DEF Granting, WakePlaces
  <2> QED BY <2>1, <2>2, PlaceIsFreeTInv DEF queueVars
<1> QED BY <1>1, <1>2

(* NextIsGone preserves the turns. *)
LEMMA NextIsGoneTInv ==
  ASSUME NoViews, IInv, TInv, NEW w \in Workers, NextIsGone(w)
  PROVE  TInv'
<1>1. /\ pc[w] = "freeze" /\ PlaceIsFree(w) /\ UNCHANGED queueVars
      /\ m_wait' = [m_wait EXCEPT ![w] = "EMPTY"]
  BY DEF NextIsGone
<1>2. w \notin Granting /\ pc[w] \in WakePlaces
  BY <1>1 DEF Granting, WakePlaces
<1> QED BY <1>1, <1>2, PlaceIsFreeTInv DEF queueVars

(* UnfreezeNext preserves the turns. *)
LEMMA UnfreezeNextTInv ==
  ASSUME NoViews, IInv, TInv, NEW w \in Workers, UnfreezeNext(w)
  PROVE  TInv'
<1>1. /\ pc[w] = "unfreeze" /\ PlaceIsFree(w)
      /\ Unfreeze(waking[w].worker, waking[w].nr)
      /\ m_wait' = [m_wait EXCEPT ![w] = "EMPTY"]
  BY DEF UnfreezeNext
<1>2. w \in Granting /\ pc[w] \in WakePlaces
  BY <1>1 DEF Granting, WakePlaces
<1>3. UNCHANGED <<commit_queue, next_nr, generator>>
  BY <1>1 DEF Unfreeze
<1> QED BY <1>1, <1>2, <1>3, PlaceIsFreeTInv

(***************************************************************************)
(* The number that w freezes is that of the transaction after its own,     *)
(* which is first in the queue.  No other worker has frozen it.            *)
(***************************************************************************)
LEMMA FrozenIsFront ==
  ASSUME NoViews, IInv, TInv, NEW w \in Workers, FreezeNext(w)
  PROVE  /\ waking[w].worker \in Workers /\ Front = waking[w].worker
         /\ InQueue(Front) /\ trx[Front] = trx[w] + 1 /\ Granting = {}
<1>1. /\ pc[w] = "freeze" /\ seq_nr[waking[w].worker] = waking[w].nr
  BY DEF FreezeNext, CanFreeze
<1>2. /\ trx[w] \in 1 .. Left /\ waking[w].nr = Number(trx[w] + 1)
      /\ waking[w].worker \in Workers
  BY <1>1 DEF TInv, WakesNext, WakePlaces
<1>3. PICK x \in Workers : x = waking[w].worker
  BY <1>2
<1>4. /\ registered \in Nat /\ registered <= MaxTrx /\ MaxTrx \in Nat
      /\ Left \in Nat /\ Left <= registered
      /\ SeqModulus \in Nat /\ MaxTrx + 3 <= SeqModulus
  <2>1. /\ registered \in Nat /\ registered <= MaxTrx /\ MaxTrx \in Nat
        /\ Left \in Nat /\ Len(commit_queue) \in Nat
        /\ SeqModulus \in Nat /\ MaxTrx + 3 <= SeqModulus
    BY LenProperties, ManagerAssumption, ModulusFacts
    DEF NoViews, IInv, QueueTypeOK, SessionTypes, TInv, QueueInOrder
  <2>2. Left <= registered
    BY <2>1 DEF Left
  <2> QED BY <2>1, <2>2
<1>5. /\ trx[w] + 1 \in Nat /\ trx[w] + 1 >= 1 /\ trx[w] + 1 <= SeqModulus - 2
      /\ trx[w] + 1 <= Left + 1
  BY <1>2, <1>4
<1>6. /\ Number(trx[w] + 1) \in 2 .. SeqModulus - 1
      /\ \A j \in Nat : j >= 1 /\ j <= SeqModulus - 2
                        /\ Number(j) = Number(trx[w] + 1) => j = trx[w] + 1
  BY <1>5, NumberFacts
<1>7. seq_nr[x] = Number(trx[w] + 1) /\ seq_nr[x] # 0 /\ seq_nr[x] # 1
  BY <1>1, <1>2, <1>3, <1>6
<1>8. InQueue(x) /\ seq_nr[x] = Number(trx[x])
  BY <1>7 DEF TInv, NumbersInOrder, NO_SEQUENCE_NR, SEQUENCE_NR_FROZEN
<1>9. trx[x] \in 1 .. registered
  BY <1>8, FrontFacts DEF TInv
<1>10. trx[x] \in Nat /\ trx[x] >= 1 /\ trx[x] <= SeqModulus - 2
  BY <1>4, <1>9
<1>11. trx[x] = trx[w] + 1
  BY <1>6, <1>7, <1>8, <1>10
<1>12. Front = x
  BY <1>5, <1>8, <1>11, FrontFacts DEF TInv
<1>13. Granting = {}
  BY <1>7, <1>12 DEF TInv, GrantsFront, SEQUENCE_NR_FROZEN
<1> QED BY <1>3, <1>8, <1>11, <1>12, <1>13

(* FreezeNext preserves the turns. *)
LEMMA FreezeNextTInv ==
  ASSUME NoViews, IInv, TInv, NEW w \in Workers, FreezeNext(w)
  PROVE  TInv'
<1>0. /\ pc[w] = "freeze" /\ GoTo(w, "grant")
      /\ UNCHANGED <<ticketVars, stage, m_wait, trx, registered, waking>>
      /\ UNCHANGED <<commit_queue, next_nr, generator>>
      /\ seq_nr' = [seq_nr EXCEPT ![waking[w].worker] = SEQUENCE_NR_FROZEN]
  BY DEF FreezeNext, Freeze, sharedVars
<1>1. "grant" \in WakePlaces /\ pc[w] \in WakePlaces
  BY <1>0 DEF WakePlaces
<1>2. /\ pc'[w] = "grant" /\ \A x \in Workers \ {w} : pc'[x] = pc[x]
      /\ \A x \in Workers : InQueue(x)' <=> InQueue(x)
      /\ TurnIsFront' /\ GrantIsForFront'
  BY <1>0, <1>1, WakePcs DEF TInv
<1>3. Left' = Left /\ Front' = Front /\ QueueInOrder'
  BY <1>0 DEF Left, Front, TInv, QueueInOrder
<1>4. NobodyOvertakes'
  BY <1>0 DEF TInv, NobodyOvertakes, ticketVars
<1>5. /\ waking[w].worker \in Workers /\ Front = waking[w].worker
      /\ InQueue(Front) /\ trx[Front] = trx[w] + 1 /\ Granting = {}
  BY FrozenIsFront
<1>6. /\ seq_nr'[Front] = SEQUENCE_NR_FROZEN
      /\ \A x \in Workers : x # Front => seq_nr'[x] = seq_nr[x]
  BY <1>0, <1>5 DEF IInv, QueueTypeOK
<1>7. NumbersInOrder'
  <2>1. SkipReserved(generator)' = Number(registered + 1)'
    BY <1>0 DEF TInv, NumbersInOrder, SkipReserved, Number
  <2>2. ASSUME NEW x \in Workers
        PROVE  /\ InQueue(x)' =>
                    /\ next_nr'[x] = Number(trx'[x] + 1)
                    /\ seq_nr'[x] \in {Number(trx'[x]), SEQUENCE_NR_FROZEN}
               /\ ~InQueue(x)' => seq_nr'[x] = NO_SEQUENCE_NR
    BY <1>0, <1>2, <1>5, <1>6 DEF TInv, NumbersInOrder
  <2> QED BY <2>1, <2>2 DEF NumbersInOrder, Number
<1>8. WakesNext'
  BY <1>0, <1>1, <1>2, <1>3 DEF TInv, WakesNext, Number
<1>9. Granting' = {w}
  BY <1>2, <1>5 DEF Granting
<1>10. GrantsFront'
  BY <1>0, <1>3, <1>5, <1>6, <1>9 DEF GrantsFront
<1> QED BY <1>2, <1>3, <1>4, <1>7, <1>8, <1>10 DEF TInv

(* GrantNext preserves the turns. *)
LEMMA GrantNextTInv ==
  ASSUME NoViews, IInv, TInv, NEW w \in Workers, GrantNext(w)
  PROVE  TInv'
<1>0. /\ pc[w] = "grant" /\ GoTo(w, "unfreeze")
      /\ UNCHANGED <<queueVars, ticketVars, stage, trx, registered, waking>>
      /\ m_wait' = [m_wait EXCEPT ![waking[w].worker] =
                      IF @ = "EMPTY" THEN "GRANTED" ELSE @]
  BY DEF GrantNext, sharedVars
<1>1. "unfreeze" \in WakePlaces /\ pc[w] \in WakePlaces /\ w \in Granting
  BY <1>0 DEF WakePlaces, Granting
<1>2. /\ pc'[w] = "unfreeze" /\ \A x \in Workers \ {w} : pc'[x] = pc[x]
      /\ \A x \in Workers : InQueue(x)' <=> InQueue(x)
      /\ TurnIsFront'
  BY <1>0, <1>1, WakePcs DEF TInv, queueVars
<1>3. Left' = Left /\ Front' = Front /\ QueueInOrder'
  BY <1>0 DEF Left, Front, TInv, QueueInOrder, queueVars
<1>4. NobodyOvertakes' /\ NumbersInOrder'
  BY <1>0, <1>2 DEF TInv, NobodyOvertakes, ticketVars, NumbersInOrder, queueVars,
                    SkipReserved, Number
<1>5. Front = waking[w].worker
  BY <1>1 DEF TInv, GrantsFront
<1>6. GrantIsForFront'
  BY <1>0, <1>2, <1>3, <1>5 DEF TInv, GrantIsForFront, IInv, SessionTypes
<1>7. WakesNext'
  BY <1>0, <1>1, <1>2, <1>3 DEF TInv, WakesNext, Number
<1>8. Granting' = Granting
  BY <1>0, <1>2 DEF Granting
<1>9. GrantsFront'
  BY <1>0, <1>3, <1>8 DEF TInv, GrantsFront, queueVars
<1> QED BY <1>2, <1>3, <1>4, <1>6, <1>7, <1>9 DEF TInv

(* Every step preserves the invariant. *)
LEMMA NextTInv == NoViews /\ IInv /\ TInv /\ [Next]_vars => TInv'
<1> SUFFICES ASSUME NoViews, IInv, TInv, [Next]_vars PROVE TInv'
  OBVIOUS
<1>1. CASE UNCHANGED vars
  <2>1. /\ UNCHANGED <<queueVars, ticketVars, pc, stage, m_wait, trx>>
        /\ UNCHANGED <<registered, waking>>
    BY <1>1 DEF vars, workerVars, sharedVars
  <2>2. SamePlaces /\ Front' = Front
    BY <2>1 DEF SamePlaces, InQueue, Front, queueVars
  <2>3. NobodyOvertakes' /\ GrantIsForFront' /\ TurnIsFront'
    BY <2>1, <2>2 DEF TInv, NobodyOvertakes, GrantIsForFront, TurnIsFront, ticketVars
  <2> QED BY <2>1, <2>2, <2>3, LocalTInv
<1>2. ASSUME NEW w \in Workers, RegisterTrx(w) \/ ApplyError(w) \/ WorkerStep(w)
      PROVE  TInv'
  BY <1>2, RegisterTInv, WaitTInv, TicketTInv, LeaveQueueTInv, LookForNextTInv,
     FreezeNextTInv, NextIsGoneTInv, GrantNextTInv, UnfreezeNextTInv
  DEF WorkerStep
<1>3. ASSUME NEW u \in Workers, NEW w \in Workers, Blocked(u, w) PROVE TInv'
  BY <1>3, BlockedTInv
<1>4. ~\E v \in Views : ViewChange(v) \/ ViewStep(v)
  BY DEF NoViews
<1> QED BY <1>1, <1>2, <1>3, <1>4 DEF Next, AllAtRest

-----------------------------------------------------------------------------
(* What the flush queue has *)

(* Steps that do not enter the flush queue. *)
LEMMA SameLogRInv ==
  ASSUME RInv, UNCHANGED log,
         ~rollback_trx' => \A k \in 1 .. Left' : Logged(k),
         \A w \in Workers : Committing(w)' =>
           /\ \A k \in 1 .. trx'[w] - 1 : Logged(k)
           /\ pc'[w] \in {"count", "signal", "finish"} => Logged(trx'[w]),
         \A w \in Workers : pc'[w] = "finish" /\ failing'[w] => rollback_trx'
  PROVE  RInv'
<1>1. \A k : Logged(k)' <=> Logged(k)
  BY DEF Logged
<1>2. RelayOrder'
  BY DEF RInv, RelayOrder
<1> QED BY <1>1, <1>2 DEF RInv

(* Steps that nobody begins to commit by. *)
LEMMA QuietRInv ==
  ASSUME RInv, UNCHANGED log, rollback_trx => rollback_trx', Left' = Left,
         \A w \in Workers : Committing(w)' =>
           /\ Committing(w) /\ trx'[w] = trx[w]
           /\ pc'[w] \in {"count", "signal", "finish"} =>
                pc[w] \in {"count", "signal", "finish"},
         \A w \in Workers : pc'[w] = "finish" /\ failing'[w] =>
           pc[w] = "finish" /\ failing[w]
  PROVE  RInv'
BY SameLogRInv DEF RInv

(* A step of the wait preserves the relay log order. *)
LEMMA WaitRInv ==
  ASSUME NoViews, IInv, TInv, RInv, NEW w \in Workers,
         \/ EnterWait(w) \/ NotMyTurn(w) \/ RequestGrant(w)
         \/ AskedToRollBack(w) \/ Victim(w) \/ DeadlockFound(w) \/ ApplyError(w)
  PROVE  RInv'
<1> USE DEF EnterWait, NotMyTurn, RequestGrant, AskedToRollBack,
            Victim, DeadlockFound, ApplyError, LeaveWait, WaitFailed,
            RetryTransaction, ReleaseLocks, GoTo, sharedVars
<1>1. UNCHANGED <<queueVars, log, rollback_trx, trx, registered>>
  OBVIOUS
<1>2. Left' = Left
  BY <1>1 DEF Left, queueVars
<1>3. \A x \in Workers \ {w} :
        pc'[x] = pc[x] /\ stage'[x] = stage[x] /\ failing'[x] = failing[x]
  BY DEF IInv, SessionTypes, Sessions
<1>4. ~Committing(w)' /\ pc'[w] # "finish"
  BY DEF IInv, SessionTypes, Sessions, Places, Committing, TicketPlaces
<1> QED BY <1>1, <1>2, <1>3, <1>4, QuietRInv DEF Committing

(* A worker whose turn it is goes on to commit if nobody before it failed. *)
LEMMA TurnRInv ==
  ASSUME NoViews, IInv, TInv, RInv, NEW w \in Workers,
         FirstInQueue(w) \/ Granted(w)
  PROVE  RInv'
<1>0. /\ Front = w /\ ItIsMyTurn(w, "WAITED")
  BY DEF FirstInQueue, Granted, TInv, GrantIsForFront
<1>1. trx[w] = Left + 1 /\ Left \in Nat
  BY <1>0, FrontFacts DEF TInv, QueueInOrder
<1>2. /\ UNCHANGED <<queueVars, log, trx, registered>>
      /\ failing' = [failing EXCEPT ![w] = @ \/ rollback_trx]
      /\ rollback_trx' = (rollback_trx \/ failing[w])
      /\ stage' = [stage EXCEPT ![w] = "WAITED"]
      /\ pc' = [pc EXCEPT ![w] = IF failing'[w] THEN "finish" ELSE "ticket"]
  BY <1>0 DEF ItIsMyTurn, HeedRollbackStatus, LeaveWait, GoTo
<1>3. Left' = Left
  BY <1>2 DEF Left, queueVars
<1>4. /\ failing'[w] <=> failing[w] \/ rollback_trx
      /\ stage'[w] = "WAITED"
      /\ pc'[w] = IF failing'[w] THEN "finish" ELSE "ticket"
      /\ \A x \in Workers \ {w} :
           pc'[x] = pc[x] /\ stage'[x] = stage[x] /\ failing'[x] = failing[x]
  BY <1>2 DEF IInv, SessionTypes, Sessions
<1>5. ~rollback_trx' => \A k \in 1 .. Left' : Logged(k)
  BY <1>2, <1>3 DEF RInv
<1>6. ASSUME NEW x \in Workers, Committing(x)'
      PROVE  /\ \A k \in 1 .. trx'[x] - 1 : Logged(k)
             /\ pc'[x] \in {"count", "signal", "finish"} => Logged(trx'[x])
  <2>1. CASE x = w
    <3>1. ~failing'[w] /\ ~rollback_trx /\ pc'[w] = "ticket"
      BY <1>4, <1>6, <2>1 DEF Committing
    <3>2. trx'[w] - 1 = Left
      BY <1>1, <1>2
    <3> QED BY <2>1, <3>1, <3>2 DEF RInv
  <2>2. CASE x # w
    <3>1. Committing(x)
      BY <1>4, <1>6, <2>2 DEF Committing
    <3> QED BY <1>2, <1>4, <2>2, <3>1 DEF RInv
  <2> QED BY <2>1, <2>2
<1>7. ASSUME NEW x \in Workers, pc'[x] = "finish", failing'[x]
      PROVE  rollback_trx'
  BY <1>2, <1>4, <1>7 DEF RInv
<1> QED BY <1>2, <1>5, <1>6, <1>7, SameLogRInv

(* The transaction enters the flush queue after all those before it. *)
LEMMA PassTicketRInv ==
  ASSUME NoViews, IInv, TInv, RInv, NEW w \in Workers, PassTicket(w)
  PROVE  RInv'
<1>0. /\ pc[w] = "ticket" /\ pc' = [pc EXCEPT ![w] = "count"]
      /\ log' = IF failing[w] \/ Skips(w) THEN log ELSE Append(log, LogEntry(w))
      /\ UNCHANGED <<queueVars, stage, trx, registered, failing, rollback_trx>>
  BY DEF PassTicket, GoTo
<1>1. Left' = Left
  BY <1>0 DEF Left, queueVars
<1>2. pc'[w] = "count" /\ \A x \in Workers \ {w} : pc'[x] = pc[x]
  BY <1>0 DEF IInv, SessionTypes, Sessions
<1>3. \A x \in Workers : Committing(x)' <=> Committing(x)
  BY <1>0, <1>2 DEF Committing, TicketPlaces
<1>4. CASE failing[w] \/ Skips(w)
  <2>1. ~Committing(w)'
    BY <1>0, <1>4 DEF Committing, Skips
  <2> QED BY <1>0, <1>1, <1>2, <1>3, <1>4, <2>1, QuietRInv
<1>5. CASE ~(failing[w] \/ Skips(w))
  <2>1. stage[w] = "WAITED" /\ Committing(w)
    BY <1>0, <1>5
    DEF IInv, Places, TicketPlaces, TInv, NobodyOvertakes, Committing, Skips
  <2>2. /\ log \in Seq([trx : 0 .. MaxTrx, ticket : Nat, overtook : BOOLEAN])
        /\ log' = Append(log, LogEntry(w)) /\ Len(log) \in Nat
    BY <1>0, <1>5, LenProperties DEF IInv, LogTypes
  <2>3. LogEntry(w) \in [trx : 0 .. MaxTrx, ticket : Nat, overtook : BOOLEAN]
    BY DEF LogEntry, IInv, SessionTypes, Sessions
  <2>4. /\ Len(log') = Len(log) + 1 /\ log'[Len(log) + 1] = LogEntry(w)
        /\ \A j \in 1 .. Len(log) : log'[j] = log[j]
        /\ DOMAIN log = 1 .. Len(log) /\ DOMAIN log' = 1 .. Len(log) + 1
    BY <2>2, <2>3, AppendProperties, LenProperties
  <2>5. \A k : Logged(k) => Logged(k)'
    BY <2>2, <2>4 DEF Logged
  <2>6. LogEntry(w).trx = trx[w]
    BY DEF LogEntry
  <2>7. \A t : t = trx[w] => Logged(t)'
    <3>1. Len(log) + 1 \in 1 .. Len(log')
      BY <2>2, <2>4
    <3> QED BY <2>4, <2>6, <3>1 DEF Logged
  <2>8. \A k \in 1 .. trx[w] - 1 : Logged(k)
    BY <2>1 DEF RInv
  <2>9. RelayOrder'
    <3>1. ASSUME NEW i \in DOMAIN log', log'[i].trx > 0, ~log'[i].overtook,
                 NEW k \in 1 .. log'[i].trx - 1
          PROVE  \E j \in 1 .. i - 1 : log'[j].trx = k
      <4>1. CASE i \in 1 .. Len(log)
        <5>1. log'[i] = log[i] /\ i \in DOMAIN log
          BY <2>4, <4>1
        <5>2. PICK j \in 1 .. i - 1 : log[j].trx = k
          BY <3>1, <5>1 DEF RInv, RelayOrder
        <5>3. j \in 1 .. Len(log)
          BY <2>2, <4>1
        <5> QED BY <2>4, <5>2, <5>3
      <4>2. CASE i = Len(log) + 1
        <5>1. k \in 1 .. trx[w] - 1
          BY <2>4, <2>6, <4>2
        <5>2. PICK j \in 1 .. Len(log) : log[j].trx = k
          BY <2>8, <5>1 DEF Logged
        <5>3. j \in 1 .. i - 1
          BY <2>2, <4>2
        <5> QED BY <2>4, <5>2, <5>3
      <4> QED BY <2>2, <2>4, <4>1, <4>2
    <3> QED BY <3>1 DEF RelayOrder
  <2>10. ~rollback_trx' => \A k \in 1 .. Left' : Logged(k)'
    BY <1>0, <1>1, <2>5 DEF RInv
  <2>11. ASSUME NEW x \in Workers, Committing(x)'
         PROVE  /\ \A k \in 1 .. trx'[x] - 1 : Logged(k)'
                /\ \A t : t = trx'[x] /\ pc'[x] \in {"count", "signal", "finish"}
                            => Logged(t)'
    <3>1. Committing(x) /\ trx'[x] = trx[x]
      BY <1>0, <1>3, <2>11
    <3>2. \A k \in 1 .. trx'[x] - 1 : Logged(k)'
      BY <2>5, <3>1 DEF RInv
    <3>3. ASSUME pc'[x] \in {"count", "signal", "finish"}, x # w
          PROVE  \A t : t = trx'[x] => Logged(t)'
      BY <1>2, <2>5, <3>1, <3>3 DEF RInv
    <3> QED BY <2>7, <3>1, <3>2, <3>3
  <2>12. \A x \in Workers : pc'[x] = "finish" /\ failing'[x] => rollback_trx'
    BY <1>0, <1>2 DEF RInv
  <2>13. \A x \in Workers : Committing(x)' /\ pc'[x] \in {"count", "signal", "finish"}
                              => Logged(trx[x])'
    BY <2>11
  <2> QED BY <2>9, <2>10, <2>11, <2>12, <2>13 DEF RInv
<1> QED BY <1>4, <1>5

(* A step of the tickets preserves the relay log order. *)
LEMMA TicketRInv ==
  ASSUME NoViews, IInv, TInv, RInv, NEW w \in Workers,
         \/ AssignTicket(w) \/ SleepForTicket(w) \/ TicketTimeout(w)
         \/ CountSession(w) \/ SignalEndOfTicket(w)
  PROVE  RInv'
<1> USE DEF AssignTicket, SleepForTicket, TicketTimeout, CountSession,
            SignalEndOfTicket, GoTo, sharedVars
<1>1. UNCHANGED <<queueVars, stage, trx, registered, failing, log, rollback_trx>>
  OBVIOUS
<1>2. Left' = Left
  BY <1>1 DEF Left, queueVars
<1>3. Sessions = Workers
  BY DEF NoViews, Sessions
<1>4. UNCHANGED front
  BY DEF TInv, NobodyOvertakes, ticketVars, AssignSessionToTicket,
         AddProcessedSession, PopFrontTicket, FrontTicketDone
<1>5. /\ AfterTicket(w) \in {"stopped", "finish", "order", "idle"}
      /\ AfterTicket(w) = "finish" => ~failing[w]
  BY ManagerAssumption DEF AfterTicket, NoViews, IInv, SessionTypes
<1>6. /\ \A x \in Workers \ {w} : pc'[x] = pc[x]
      /\ \/ pc[w] = "apply" /\ pc'[w] = "order"
         \/ pc[w] = "ticket" /\ pc'[w] = "asleep"
         \/ pc[w] = "asleep" /\ pc'[w] = "ticket"
         \/ pc[w] = "count" /\ pc'[w] = "signal"
         \/ pc[w] = "signal" /\ pc'[w] = AfterTicket(w)
  BY <1>3, <1>4 DEF IInv, SessionTypes
<1>7. ASSUME NEW x \in Workers, Committing(x)'
      PROVE  /\ Committing(x) /\ trx'[x] = trx[x]
             /\ pc'[x] \in {"count", "signal", "finish"} =>
                  pc[x] \in {"count", "signal", "finish"}
  BY <1>1, <1>5, <1>6, <1>7 DEF Committing, TicketPlaces
<1>8. \A x \in Workers : pc'[x] = "finish" /\ failing'[x] =>
        pc[x] = "finish" /\ failing[x]
  BY <1>1, <1>5, <1>6
<1> QED BY <1>1, <1>2, <1>7, <1>8, QuietRInv

(* RegisterTrx preserves the relay log order. *)
LEMMA RegisterRInv ==
  ASSUME NoViews, IInv, TInv, RInv, NEW w \in Workers, RegisterTrx(w)
  PROVE  RInv'
<1>0. /\ pc[w] = "idle" /\ pc' = [pc EXCEPT ![w] = "apply"]
      /\ registered' = registered + 1
      /\ trx' = [trx EXCEPT ![w] = registered + 1]
      /\ stage' = [stage EXCEPT ![w] = "REGISTERED"]
      /\ commit_queue' = Append(commit_queue, w)
      /\ UNCHANGED <<failing, rollback_trx, log>>
  BY DEF RegisterTrx, GoTo, Push
<1>1. /\ Len(commit_queue') = Len(commit_queue) + 1 /\ Len(commit_queue) \in Nat
      /\ registered \in Nat
  BY <1>0, AppendProperties, LenProperties, ManagerAssumption
  DEF IInv, QueueTypeOK, SessionTypes
<1>2. Left' = Left
  BY <1>0, <1>1 DEF Left
<1>3. /\ \A x \in Workers \ {w} : pc'[x] = pc[x] /\ trx'[x] = trx[x]
                                  /\ stage'[x] = stage[x]
      /\ pc'[w] = "apply"
  BY <1>0 DEF IInv, SessionTypes, Sessions
<1> QED BY <1>0, <1>2, <1>3, QuietRInv DEF Committing, TicketPlaces

(* What leaves the queue has been logged, or has failed. *)
LEMMA LeaveQueueRInv ==
  ASSUME NoViews, IInv, TInv, RInv, NEW w \in Workers, LeaveQueue(w)
  PROVE  RInv'
<1>0. /\ pc[w] = "finish" /\ stage[w] = "WAITED" /\ Front = w
      /\ commit_queue' = Tail(commit_queue)
      /\ pc' = [pc EXCEPT ![w] = "wake"]
      /\ UNCHANGED <<stage, trx, registered, failing, rollback_trx, log>>
  BY DEF LeaveQueue, GoTo, sharedVars, IInv, Places, TInv, NobodyOvertakes, Pop
<1>1. /\ commit_queue # << >> /\ trx[w] = Left + 1
      /\ commit_queue \in Seq(Workers) /\ Len(commit_queue) \in Nat
      /\ registered \in Nat /\ Left \in Nat
  <2>1. /\ commit_queue \in Seq(Workers) /\ Len(commit_queue) \in Nat
        /\ registered \in Nat /\ Left \in Nat
    BY LenProperties, ManagerAssumption
    DEF TInv, QueueInOrder, IInv, QueueTypeOK, SessionTypes
  <2>2. commit_queue # << >> /\ trx[w] = Left + 1
    BY <1>0, FrontFacts DEF TInv
  <2> QED BY <2>1, <2>2
<1>2. Len(commit_queue') = Len(commit_queue) - 1
  BY <1>0, <1>1, HeadTailProperties
<1>3. Left' = Left + 1
  BY <1>0, <1>1, <1>2 DEF Left
<1>4. pc'[w] = "wake" /\ \A x \in Workers \ {w} : pc'[x] = pc[x]
  BY <1>0 DEF IInv, SessionTypes, Sessions
<1>5. ~rollback_trx' => \A k \in 1 .. Left' : Logged(k)
  <2>1. ASSUME ~rollback_trx, NEW k \in 1 .. Left + 1 PROVE Logged(k)
    <3>1. ~failing[w]
      BY <1>0, <2>1 DEF RInv
    <3>2. Committing(w) /\ Logged(trx[w])
      BY <1>0, <3>1 DEF Committing, RInv
    <3>3. k \in 1 .. Left \/ k = trx[w]
      BY <1>1
    <3> QED BY <2>1, <3>2, <3>3 DEF RInv
  <2> QED BY <1>0, <1>3, <2>1
<1>6. \A x \in Workers : Committing(x)' => x # w /\ Committing(x)
  BY <1>0, <1>4 DEF Committing, TicketPlaces
<1> QED BY <1>0, <1>4, <1>5, <1>6, SameLogRInv DEF RInv

(* A step of finish_one preserves the relay log order. *)
LEMMA WakeRInv ==
  ASSUME NoViews, IInv, TInv, RInv, NEW w \in Workers,
         \/ LookForNext(w) \/ FreezeNext(w) \/ NextIsGone(w)
         \/ GrantNext(w) \/ UnfreezeNext(w)
  PROVE  RInv'
<1>1. /\ pc[w] \in WakePlaces
      /\ UNCHANGED <<commit_queue, registered, failing, log>>
      /\ rollback_trx => rollback_trx'
      /\ \/ PlaceIsFree(w)
         \/ \E p \in WakePlaces : GoTo(w, p) /\ UNCHANGED <<stage, trx>>
  BY DEF LookForNext, FreezeNext, NextIsGone, GrantNext, UnfreezeNext, Freeze,
         Unfreeze, PlaceIsFree, CommitIsOver, CommittedIsAppliedAgain,
         CommittedIsGivenUp, queueVars, sharedVars, WakePlaces
<1>2. Left' = Left
  BY <1>1 DEF Left
<1>3. CASE PlaceIsFree(w)
  <2>1. /\ \A x \in Workers \ {w} : pc'[x] = pc[x] /\ trx'[x] = trx[x]
                                    /\ stage'[x] = stage[x]
        /\ stage'[w] = "FINISHED" /\ pc'[w] \in {"stopped", "ticket", "idle"}
    BY <1>3 DEF PlaceIsFree, CommitIsOver, CommittedIsAppliedAgain,
                CommittedIsGivenUp, GoTo, IInv, SessionTypes, Sessions
  <2> QED BY <1>1, <1>2, <2>1, QuietRInv DEF Committing
<1>4. ASSUME NEW p \in WakePlaces, GoTo(w, p), UNCHANGED <<stage, trx>>
      PROVE  RInv'
  <2>1. pc'[w] = p /\ \A x \in Workers \ {w} : pc'[x] = pc[x]
    BY <1>4 DEF GoTo, IInv, SessionTypes, Sessions
  <2> QED BY <1>1, <1>2, <1>4, <2>1, QuietRInv DEF Committing, WakePlaces, TicketPlaces
<1> QED BY <1>1, <1>3, <1>4

(* Every step preserves the invariant. *)
LEMMA NextRInv == NoViews /\ IInv /\ TInv /\ RInv /\ [Next]_vars => RInv'
<1> SUFFICES ASSUME NoViews, IInv, TInv, RInv, [Next]_vars PROVE RInv'
  OBVIOUS
<1>1. CASE UNCHANGED vars
  <2>1. UNCHANGED <<commit_queue, pc, stage, trx, registered, failing, log,
                    rollback_trx>>
    BY <1>1 DEF vars, queueVars, workerVars, sharedVars
  <2>2. Left' = Left
    BY <2>1 DEF Left
  <2> QED BY <2>1, <2>2, QuietRInv DEF Committing
<1>2. ASSUME NEW w \in Workers, RegisterTrx(w) \/ ApplyError(w) \/ WorkerStep(w)
      PROVE  RInv'
  <2>1. ~Overtake(w)
    BY DEF Overtake, OnItsTurnAndBackIncremented, TInv, NobodyOvertakes
  <2> QED BY <1>2, <2>1, RegisterRInv, WaitRInv, TurnRInv, TicketRInv,
             PassTicketRInv, LeaveQueueRInv, WakeRInv
          DEF WorkerStep, TicketStep
<1>3. ASSUME NEW u \in Workers, NEW w \in Workers, Blocked(u, w) PROVE RInv'
  <2>1. UNCHANGED <<commit_queue, pc, stage, trx, registered, failing, log,
                    rollback_trx>>
    BY <1>3 DEF Blocked, queueVars
  <2>2. Left' = Left
    BY <2>1 DEF Left
  <2> QED BY <2>1, <2>2, QuietRInv DEF Committing
<1>4. ~\E v \in Views : ViewChange(v) \/ ViewStep(v)
  BY DEF NoViews
<1> QED BY <1>1, <1>2, <1>3, <1>4 DEF Next, AllAtRest

(* This invariant holds in every state. *)
LEMMA InductiveTurn ==
  ASSUME NoViews
  PROVE  Spec => [](TInv /\ RInv)
<1>1. Init => TInv /\ RInv
  BY InitTInv
<1>2. IInv /\ (TInv /\ RInv) /\ [Next]_vars => (TInv /\ RInv)'
  BY NextTInv, NextRInv
<1> QED BY <1>1, <1>2, Inductive, PTL DEF Spec

-----------------------------------------------------------------------------
(* Theorems *)

(***************************************************************************)
(* A worker that was told it is its turn is first in the queue until it    *)
(* leaves (the assertion in Commit_order_manager::finish_one), for any     *)
(* number of workers, whatever grants, deadlock reports, retries and       *)
(* failures race for its wait slot: on a replica that applies no view      *)
(* change, before the sequence numbers repeat.  With view changes it does  *)
(* not hold: the run stale_grant shows how it fails.                       *)
(***************************************************************************)
THEOREM TurnIsFrontHolds ==
  ASSUME NoViews
  PROVE  Spec => []TurnIsFront
<1>1. TInv /\ RInv => TurnIsFront
  BY DEF TInv
<1> QED BY <1>1, InductiveTurn, PTL

(***************************************************************************)
(* replica_preserve_commit_order: the transactions enter the flush queue   *)
(* in relay log order, and none enters it after an earlier one failed      *)
(* (Commit_order_manager::wait, finish_one and the rollback flag), for any *)
(* number of workers and under the same condition.                         *)
(***************************************************************************)
THEOREM RelayOrderHolds ==
  ASSUME NoViews
  PROVE  Spec => []RelayOrder
<1>1. TInv /\ RInv => RelayOrder
  BY DEF RInv
<1> QED BY <1>1, InductiveTurn, PTL
=============================================================================
