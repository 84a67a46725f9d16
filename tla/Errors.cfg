SPECIFICATION Spec
CONSTANTS
  b1 = b1  b2 = b2  b3 = b3  w1 = w1  w2 = w2
  NULL = NULL
  BinlogThds = {b1, b2}
  OrderThds = {}
  OrderSeq <- NoWorkers
  OrderModes = {TRUE}
  AbortServer = FALSE
  SyncPeriod = 2
  Faults = {"flush_member", "flush_file", "sync", "after_sync"}
  MaxTrx = 2
  MaxRotations = 1
SYMMETRY SessionSymmetry
INVARIANTS
  PrepXidsCoverLog
  CommittedOnce
  GtidExecutedIsInterval
