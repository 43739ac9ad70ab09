CONSTANTS
  p1 = p1
  p2 = p2
  p3 = p3
  s1 = s1
  s2 = s2
  op1 = op1
  op2 = op2
  NoPort = NoPort
  Port <- Ports2
  InitMaster <- FirstMaster
  InitReplicas <- NoReplica
  Sentinel <- OneSentinel
  First <- FirstSentinel
  Proc <- TwoProcs
  MaxElections = 1
  MaxOutages = 0
  MaxAdds = 1
  MaxRetired = 1
SPECIFICATION Spec
INVARIANTS PersistedInv MixedRegime
PROPERTY ImplementsLifecycle
CHECK_DEADLOCK FALSE
