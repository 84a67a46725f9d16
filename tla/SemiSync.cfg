SPECIFICATION Spec
CONSTANTS
  s1 = s1  s2 = s2  s3 = s3  r1 = r1  r2 = r2  r3 = r3
  NoServer = NoServer
  Sessions = {s1, s2}
  Replicas = {r1, r2}
  WaitCounts = {1, 2}
  MaxPos = 4
  MaxFaults = 1
  MaxCommands = 1
INVARIANTS TypeOK AckedByEnough NodeOutlivesWait NoLostWakeUp
PROPERTIES OnAgainIsCaughtUp
SYMMETRY Symmetry
