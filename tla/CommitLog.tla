------------------------------ MODULE CommitLog ------------------------------
(***************************************************************************)
(* What the group commit promises with sync_binlog=1 and ordered commits,  *)
(* with nothing of how it is done: a log that grows by groups, reaches the *)
(* disk a prefix at a time, and whose transactions become visible one by   *)
(* one in log order, each only when it is on disk; a client is told only   *)
(* about visible transactions, and only once.                              *)
(***************************************************************************)
EXTENDS Naturals, Sequences

CONSTANT Transactions

VARIABLES
  log,      \* the transactions in commit order
  durable,  \* length of the prefix that survives a crash
  visible,  \* the transactions other sessions see, as they became visible
  reported  \* transactions whose clients were told

vars == <<log, durable, visible, reported>>

Init == log = << >> /\ durable = 0 /\ visible = << >> /\ reported = {}

Occurs(x, s) == \E i \in DOMAIN s : s[i] = x

WriteGroup ==
  /\ Len(log') > Len(log)
  /\ SubSeq(log', 1, Len(log)) = log
  /\ \A i \in (Len(log) + 1) .. Len(log') :
       log'[i] \in Transactions /\ ~Occurs(log'[i], SubSeq(log', 1, i - 1))
  /\ UNCHANGED <<durable, visible, reported>>

MakeDurable ==
  /\ durable' \in (durable + 1) .. Len(log)
  /\ UNCHANGED <<log, visible, reported>>

MakeVisible ==
  /\ Len(visible) < durable
  /\ visible' = Append(visible, log[Len(visible) + 1])
  /\ UNCHANGED <<log, durable, reported>>

Report ==
  /\ \E i \in DOMAIN visible :
       visible[i] \notin reported /\ reported' = reported \cup {visible[i]}
  /\ UNCHANGED <<log, durable, visible>>

Next == WriteGroup \/ MakeDurable \/ MakeVisible \/ Report

Spec == Init /\ [][Next]_vars
=============================================================================
