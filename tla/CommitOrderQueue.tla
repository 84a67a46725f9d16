-------------------------- MODULE CommitOrderQueue --------------------------
(***************************************************************************)
(* The queue of applier workers in relay log order                         *)
(* (cs::apply::Commit_order_queue).  Every entry carries a sequence number *)
(* and the number of the entry after it; a worker that leaves may wake     *)
(* only the worker that holds that number, and freezes the number while it *)
(* does so.  The numbers wrap around and skip the two reserved values.     *)
(*                                                                         *)
(* Each operation is one step of the model.  m_push_pop_lock is exclusive  *)
(* only in remove(); push(), pop() and front() share it.  Only the         *)
(* coordinator pushes, and a worker pops once it has seen itself at the    *)
(* front, when the pop before it has already moved the head.               *)
(***************************************************************************)
EXTENDS Naturals, Sequences, FiniteSets

CONSTANTS
  Workers,     \* the applier workers of a channel
  SeqModulus,  \* 2^w for the width w of a sequence number
  FirstNumber  \* where the generator stands when the queue is first empty

NO_SEQUENCE_NR == 0
SEQUENCE_NR_FROZEN == 1
NO_WORKER == "no_worker"

(* Room for the reserved values and for a number per worker and its next. *)
ASSUME QueueAssumption ==
  /\ IsFiniteSet(Workers) /\ NO_WORKER \notin Workers
  /\ SeqModulus \in Nat /\ SeqModulus > Cardinality(Workers) + 3
  /\ FirstNumber \in 2 .. SeqModulus - 1

VARIABLES
  commit_queue,  \* m_commit_queue
  seq_nr,        \* Node::m_commit_sequence_nr
  next_nr,       \* Node::m_next_commit_sequence_nr
  generator      \* m_commit_sequence_generator

queueVars == <<commit_queue, seq_nr, next_nr, generator>>

QueueTypeOK ==
  /\ commit_queue \in Seq(Workers)
  /\ seq_nr \in [Workers -> 0 .. SeqModulus - 1]
  /\ next_nr \in [Workers -> 0 .. SeqModulus - 1]
  /\ generator \in 0 .. SeqModulus - 1

QueueInit ==
  /\ commit_queue = << >>
  /\ seq_nr = [w \in Workers |-> NO_SEQUENCE_NR]
  /\ next_nr = [w \in Workers |-> NO_SEQUENCE_NR]
  /\ generator = FirstNumber

(* mutant: the numbers do not wrap around *)
SkipReserved_Unbounded(n) == n

(* The first usable number from n on. *)
SkipReserved(n) ==
  IF n % SeqModulus <= SEQUENCE_NR_FROZEN
  THEN SEQUENCE_NR_FROZEN + 1
  ELSE n % SeqModulus

Front == IF commit_queue = << >> THEN NO_WORKER ELSE Head(commit_queue)

Push(w) ==
  LET n == SkipReserved(generator) IN
  /\ generator' = (n + 1) % SeqModulus
  /\ seq_nr' = [seq_nr EXCEPT ![w] = n]
  /\ next_nr' = [next_nr EXCEPT ![w] = SkipReserved(n + 1)]
  /\ commit_queue' = Append(commit_queue, w)

(***************************************************************************)
(* The worker's numbers are reset; it spins while a predecessor keeps its  *)
(* number frozen.                                                          *)
(***************************************************************************)
ResetCommitSequenceNr(w) ==
  /\ seq_nr[w] # SEQUENCE_NR_FROZEN
  /\ seq_nr' = [seq_nr EXCEPT ![w] = NO_SEQUENCE_NR]

(***************************************************************************)
(* pop(), called by the worker w that is first in the queue.  The code     *)
(* moves the head first and then spins on the frozen number: the worker    *)
(* behind may find itself first while w still spins.  It reads none of w's *)
(* numbers, so the model takes both at the end of the spin.                *)
(***************************************************************************)
Pop(w) ==
  /\ ResetCommitSequenceNr(w)
  /\ next_nr' = [next_nr EXCEPT ![w] = NO_SEQUENCE_NR]
  /\ commit_queue' = Tail(commit_queue)
  /\ UNCHANGED generator

(***************************************************************************)
(* A worker leaves from the middle: the worker before it is now the one to *)
(* wake the worker after it.                                               *)
(***************************************************************************)
Remove(w) ==
  LET i == CHOOSE j \in DOMAIN commit_queue : commit_queue[j] = w IN
  /\ ResetCommitSequenceNr(w)
  /\ commit_queue' = SubSeq(commit_queue, 1, i - 1) \o
                     SubSeq(commit_queue, i + 1, Len(commit_queue))
  /\ next_nr' = IF i = 1
                THEN [next_nr EXCEPT ![w] = NO_SEQUENCE_NR]
                ELSE [next_nr EXCEPT ![w] = NO_SEQUENCE_NR,
                                     ![commit_queue[i - 1]] = next_nr[w]]
  /\ UNCHANGED generator

(* The number the worker that leaves is to wake. *)
NumberToWake(w) ==
  IF Front = w THEN next_nr[w] ELSE NO_SEQUENCE_NR

CanFreeze(w, n) == seq_nr[w] = n

Freeze(w) ==
  /\ seq_nr' = [seq_nr EXCEPT ![w] = SEQUENCE_NR_FROZEN]
  /\ UNCHANGED <<commit_queue, next_nr, generator>>

(* The compare-exchange fails when the number is not frozen any more. *)
Unfreeze(w, n) ==
  /\ seq_nr' = [seq_nr EXCEPT ![w] = IF @ = SEQUENCE_NR_FROZEN THEN n ELSE @]
  /\ UNCHANGED <<commit_queue, next_nr, generator>>
=============================================================================
