-------------------------- MODULE BgcTicketManager --------------------------
(***************************************************************************)
(* Binlog group commit tickets (binlog::Bgc_ticket_manager in              *)
(* sql/binlog/group_commit/): the sessions that hold an earlier ticket     *)
(* enter the flush stage before those that hold a later one.  Sessions are *)
(* counted twice, when they are given the back ticket and when they have   *)
(* passed the front ticket, and the front ticket is retired when the two   *)
(* counts meet.  Nothing else says when a ticket is over.                  *)
(*                                                                         *)
(* The bit that marks a ticket value as in use is a spin lock              *)
(* (AtomicBgcTicketGuard), so each operation is one step.  pop_front_ticket*)
(* holds the front ticket and reads the queue and the back ticket, which   *)
(* push_new_ticket changes under the back ticket's lock; whichever part of *)
(* a push it misses, it leaves the front ticket alone, as it would have    *)
(* before that push.                                                       *)
(***************************************************************************)
EXTENDS Naturals, Sequences

VARIABLES
  back,           \* m_back_ticket
  front,          \* m_front_ticket
  back_sessions,  \* m_back_ticket_sessions_count
  processed,      \* m_front_ticket_processed_sessions_count
  sessions_per    \* m_sessions_per_ticket, front ticket first

ticketVars == <<back, front, back_sessions, processed, sessions_per>>

(* BgcTicket::kTicketUnset: the session has no ticket. *)
Unset == 0

TicketTypeOK ==
  /\ back \in Nat \ {Unset}
  /\ front \in Nat \ {Unset}
  /\ back_sessions \in Nat
  /\ processed \in Nat
  /\ sessions_per \in Seq(Nat \ {0})

TicketInit ==
  /\ back = 1 /\ front = 1
  /\ back_sessions = 0 /\ processed = 0
  /\ sessions_per = << >>

(* A session is given the back ticket. *)
AssignSessionToTicket ==
  /\ back_sessions' = back_sessions + 1
  /\ UNCHANGED <<back, front, processed, sessions_per>>

AddProcessedSession ==
  /\ processed' = processed + 1
  /\ UNCHANGED <<back, front, back_sessions, sessions_per>>

(***************************************************************************)
(* Close the back ticket and open the next one, unless nobody holds it.    *)
(* own is 1 when the caller takes the closed ticket for a session of its   *)
(* own (BgcTmOptions::inc_session_count).                                  *)
(***************************************************************************)
PushNewTicket(own) ==
  LET n == back_sessions + own IN
  /\ back_sessions' = 0
  /\ IF n = 0
     THEN UNCHANGED <<back, sessions_per>>
     ELSE /\ back' = back + 1
          /\ sessions_per' = Append(sessions_per, n)
  /\ UNCHANGED <<front, processed>>

(* mutant: the front ticket is retired one session early *)
FrontTicketDone_OneEarly ==
  front # back /\ processed + 1 >= Head(sessions_per)

FrontTicketDone ==
  front # back /\ processed = Head(sessions_per)

PopFrontTicket ==
  /\ IF FrontTicketDone
     THEN /\ processed' = 0
          /\ sessions_per' = Tail(sessions_per)
          /\ front' = front + 1
     ELSE UNCHANGED <<processed, sessions_per, front>>
  /\ UNCHANGED <<back, back_sessions>>
=============================================================================
