SPECIFICATION Spec
CONSTANTS
  c1 = c1  c2 = c2  s1 = s1
  NULL = NULL
  Leaders = {c1, c2}
  Sessions = {s1}
  CallerLock <- FlushAndCommitLeader
  MaxSidno = 2
  MaxUpdates = 2
INVARIANT UpdatesUnderSidnoLock
