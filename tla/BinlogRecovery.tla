--------------------------- MODULE BinlogRecovery ---------------------------
(***************************************************************************)
(* What a restarted server makes of its last binary log file               *)
(* (binlog::Binlog_recovery in sql/binlog/recovery.cc) and of the          *)
(* transactions the engine has prepared (sql/xa/recovery.cc): the file is  *)
(* scanned event by event for the XIDs of complete transactions and for    *)
(* the place to cut it off, then each prepared transaction is committed if *)
(* its XID was found and rolled back if not.                               *)
(*                                                                         *)
(* Events of transactions the server coordinates itself; XA transactions   *)
(* of clients are left out.                                                *)
(***************************************************************************)
EXTENDS Naturals, Sequences

(* A transaction is BEGIN, rows and an XID event, an atomic DDL is a single *)
(* query event with an XID in it; a GTID event comes before either.         *)
EventTypes == {"GTID", "BEGIN", "ROWS", "XID", "DDL"}

Event(type, xid) == [type |-> type, xid |-> xid]

(* Binlog_recovery before the first event. *)
NewScan == [in_transaction |-> FALSE, is_malformed |-> FALSE,
            internal_xids |-> {}, valid_pos |-> 0]

(* m_internal_xids.insert: an XID that is there already is an error. *)
InsertXid(r, xid) ==
  [r EXCEPT !.internal_xids = @ \cup {xid},
            !.is_malformed = xid \in r.internal_xids]

(* process_start, for a query event BEGIN *)
ProcessStart(r) ==
  [r EXCEPT !.is_malformed = r.in_transaction, !.in_transaction = TRUE]

ProcessXidEvent(r, xid) ==
  IF r.in_transaction THEN InsertXid([r EXCEPT !.in_transaction = FALSE], xid)
  ELSE [r EXCEPT !.is_malformed = TRUE]

ProcessAtomicDdl(r, xid) ==
  IF r.in_transaction THEN [r EXCEPT !.is_malformed = TRUE]
  ELSE InsertXid(r, xid)

(* mutant: the file may be cut off behind any event outside a transaction *)
AtBoundary_GtidToo(r, ev) == ~r.is_malformed /\ ~r.in_transaction

(* A GTID event alone is not a place to cut the file off. *)
AtBoundary(r, ev) ==
  ~r.is_malformed /\ ~r.in_transaction /\ ev.type # "GTID"

Process(r, ev) ==
  CASE ev.type = "BEGIN" -> ProcessStart(r)
    [] ev.type = "XID"   -> ProcessXidEvent(r, ev.xid)
    [] ev.type = "DDL"   -> ProcessAtomicDdl(r, ev.xid)
    [] OTHER             -> r

(* One turn of the loop in recover, which a malformed event ends. *)
ReadEvent(r, ev, pos) ==
  IF r.is_malformed THEN r
  ELSE LET p == Process(r, ev)
       IN IF AtBoundary(p, ev) THEN [p EXCEPT !.valid_pos = pos] ELSE p

(* The scan of a file; a partly written last event is not read. *)
Recover(events) ==
  LET Scan[i \in 0 .. Len(events)] ==
        IF i = 0 THEN NewScan ELSE ReadEvent(Scan[i - 1], events[i], i)
  IN Scan[Len(events)]

(* ha_recover: the prepared transactions that recover_one_internal_trx     *)
(* commits; the others are rolled back.                                    *)
RecoveredTrxs(scan, prepared) == prepared \cap scan.internal_xids
=============================================================================
