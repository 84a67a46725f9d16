SPECIFICATION Spec
CONSTANTS
  w1 = w1  w2 = w2  w3 = w3  v1 = v1
  Workers = {w1, w2, w3}
  Views = {v1}
  SeqModulus = 8
  FirstNumber = 6
  MaxRetries = 0
  MaxTrx = 4
  MaxFaults = 0
SYMMETRY WorkerSymmetry
INVARIANT TurnIsFront
