SPECIFICATION Spec
CONSTANTS
  Order <- MCOrder
  HoursPerDay = 2
  DaysPerWeek = 2
  Blank = Blank
  TopOrdersLimit = 2
  TopPairsLimit = 2
  HourBucketTTL = 3
  MaxHours = 3
  Request <- NoRequests
  NoRequest = NoRequest
  MaxApplies = 4
  MaxClock = 4
  MaxFailovers = 1
  MaxEvictions = 1
  MaxReads = 0
CHECK_DEADLOCK FALSE
INVARIANTS
  BoardsAreTop
  TotalsAgree
  SplitAgrees
  WindowHoldsOrders
  PairsExactUntilCap
