CONSTANTS
  p1 = p1
  p2 = p2
  p3 = p3
  s1 = s1
  s2 = s2
  op1 = op1
  op2 = op2
  NoPort = NoPort
  Port <- Ports3
  InitMaster <- FirstMaster
  InitReplicas <- OneReplica
  Sentinel <- TwoSentinels
  First <- FirstSentinel
  Proc <- OneProc
  MaxElections = 2
  MaxOutages = 0
  MaxAdds = 1
  MaxRetired = 0
SPECIFICATION Spec
PROPERTIES FlatBeforeFailover V8WinsFailover
CONSTRAINT FirstLeads
CHECK_DEADLOCK FALSE
