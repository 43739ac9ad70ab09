SPECIFICATION Spec
CONSTANTS
  o1 = o1
  w1 = w1
  w2 = w2
  nA = nA
  nB = nB
  Order <- Orders
  Worker <- Workers
  Node <- Nodes
  Master = nA
  NoOrder = NoOrder
  MaxRetry = 1
  MaxTroubles = 3
CHECK_DEADLOCK FALSE
INVARIANTS
  CompletedIsApplied
  AppliedOncePerTrouble
PROPERTIES
  SettledStays
  EveryOrderSettles
