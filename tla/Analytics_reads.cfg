SPECIFICATION Spec
CONSTANTS
  Order <- TwoOrders
  HoursPerDay = 2
  DaysPerWeek = 2
  Blank = Blank
  TopOrdersLimit = 2
  TopPairsLimit = 2
  HourBucketTTL = 2
  MaxHours = 2
  Request <- AllRequests
  NoRequest = NoRequest
  MaxApplies = 2
  MaxClock = 2
  MaxFailovers = 1
  MaxEvictions = 1
  MaxReads = 1
CHECK_DEADLOCK FALSE
INVARIANTS
  SummaryCoversOrders
  TotalsWithinReads
  RowsComplete
