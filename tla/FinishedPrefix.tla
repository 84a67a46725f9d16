--------------------------- MODULE FinishedPrefix ---------------------------
(***************************************************************************)
(* What the recent_written and recent_closed buffers of the redo log are   *)
(* for: operations reserve consecutive ranges of positions, finish in any  *)
(* order, and a position is published below which all of them finished.    *)
(* A reader of the published position relies on nothing else: the log      *)
(* writer writes everything below it to disk, the checkpointer takes       *)
(* everything below it to be in the flush lists.                           *)
(***************************************************************************)
EXTENDS Naturals

CONSTANTS
  MaxPosition, \* bound: positions
  MaxLength    \* bound: length of an operation

VARIABLES
  sn,       \* the next position to be reserved
  finished, \* the ranges <<start, end>> of operations that finished
  tail      \* the published position

vars == <<sn, finished, tail>>

Init == sn = 0 /\ finished = {} /\ tail = 0

Reserve ==
  /\ \E len \in 1 .. MaxLength :
       sn + len <= MaxPosition /\ sn' = sn + len
  /\ UNCHANGED <<finished, tail>>

Finish ==
  /\ \E start, end \in 0 .. sn :
       start < end /\ finished' = finished \cup {<<start, end>>}
  /\ UNCHANGED <<sn, tail>>

(* The finished operations cover every position from tail up to p. *)
Covered(p) ==
  \A x \in tail .. p - 1 : \E op \in finished : op[1] <= x /\ x < op[2]

Publish ==
  /\ \E p \in tail + 1 .. sn : Covered(p) /\ tail' = p
  /\ UNCHANGED <<sn, finished>>

Next == Reserve \/ Finish \/ Publish

Spec == Init /\ [][Next]_vars
=============================================================================
