SPECIFICATION Spec
CONSTANTS
  s1 = s1  s2 = s2  s3 = s3  r1 = r1  r2 = r2  r3 = r3
  NoServer = NoServer
  Sessions = {s1, s2, s3}
  Replicas = {r1, r2, r3}
  WaitCounts = {3}
  MaxPos = 4
  MaxFaults = 0
  MaxCommands = 0
INVARIANT AckedByEnough
SYMMETRY Symmetry
