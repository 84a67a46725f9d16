SPECIFICATION FairSpec
CONSTANTS
  b1 = b1  b2 = b2  b3 = b3  w1 = w1  w2 = w2
  NULL = NULL
  BinlogThds = {b1}
  OrderThds = {w1, w2}
  OrderSeq <- ReusedWorker
  OrderModes = {TRUE, FALSE}
  AbortServer = TRUE
  SyncPeriod = 1
  Faults = {"flush_file", "sync", "after_sync"}
  MaxTrx = 2
  MaxRotations = 1
INVARIANTS
  TypeOK
  OneFlushLeader
  FinishedIsDurable
  CrashConsistent
PROPERTIES
  CommitsReturn
  RotationsEnd
