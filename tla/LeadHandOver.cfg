SPECIFICATION Spec
CONSTANTS
  b1 = b1  b2 = b2  b3 = b3  w1 = w1  w2 = w2
  NULL = NULL
  BinlogThds = {b1, b2}
  OrderThds = {w1}
  OrderSeq <- OneWorker
  OrderModes = {TRUE}
  AbortServer = TRUE
  SyncPeriod = 1
  Faults = {}
  MaxTrx = 1
  MaxRotations = 0
INVARIANTS
  QueuedSessionsWait
