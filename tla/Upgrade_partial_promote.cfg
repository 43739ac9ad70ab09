CONSTANTS
  p1 = p1
  p2 = p2
  p3 = p3
  s1 = s1
  s2 = s2
  op1 = op1
  op2 = op2
  NoPort = NoPort
  Port <- Ports3
  InitMaster <- FirstMaster
  InitReplicas <- OneReplica
  Sentinel <- OneSentinel
  First <- FirstSentinel
  Proc <- OneProc
  MaxElections = 1
  MaxOutages = 0
  MaxAdds = 1
  MaxRetired = 3
SPECIFICATION Spec
PROPERTY MixedFailoverStaysV6
CHECK_DEADLOCK FALSE
