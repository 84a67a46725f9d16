SPECIFICATION Spec
CONSTANTS
  b1 = b1  b2 = b2  b3 = b3  w1 = w1  w2 = w2
  NULL = NULL
  BinlogThds = {b1, b2, b3}
  OrderThds = {}
  OrderSeq <- NoWorkers
  OrderModes = {TRUE}
  AbortServer = TRUE
  SyncPeriod = 1
  Faults = {}
  MaxTrx = 2
  MaxRotations = 1
SYMMETRY SessionSymmetry
INVARIANTS
  StageLeader
  MutexOwners
  QueuedSessionsWait
  LeaderDidEverything
  CommitOrderIsBinlogOrder
  CrashConsistent
  SentIsSynced
PROPERTIES
  ImplementsCommitLog
