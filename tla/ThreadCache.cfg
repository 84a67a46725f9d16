SPECIFICATION FairSpec
CONSTANTS
  c1 = c1  c2 = c2  c3 = c3  c4 = c4
  t1 = t1  t2 = t2  t3 = t3  f1 = f1  g1 = g1
  NULL = NULL
  Connections = {c1, c2, c3, c4}
  Admins = {c4}
  Pthreads = {t1, t2}
  Flushers = {f1}
  Setters = {g1}
  CacheSizes = {1, 2}
  max_connections = 1
INVARIANTS TypeOK HandOver ConnectionLimit CacheLimit
PROPERTIES EveryConnectionIsTaken
