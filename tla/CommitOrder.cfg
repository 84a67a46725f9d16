SPECIFICATION FairSpec
CONSTANTS
  w1 = w1  w2 = w2  w3 = w3  v1 = v1
  Workers = {w1, w2}
  Views = {v1}
  SeqModulus = 8
  FirstNumber = 6
  MaxRetries = 1
  MaxTrx = 3
  MaxFaults = 2
INVARIANTS
  TypeOK
  TurnIsFront
  RelayOrder
  TicketOrder
  TicketsInTurn
PROPERTY EverySessionEnds
