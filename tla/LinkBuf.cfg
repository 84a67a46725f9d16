SPECIFICATION FairSpec
CONSTANTS
  u1 = u1  u2 = u2  u3 = u3  t1 = t1
  Users = {u1, u2}
  Trackers = {t1}
  Capacity = 2
  MaxPosition = 6
  MaxLength = 2
INVARIANTS TailIsOwned LinksAreKept
PROPERTIES ImplementsFinishedPrefix TailCatchesUp
