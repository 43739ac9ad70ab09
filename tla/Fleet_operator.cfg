CONSTANTS
  c1 = c1
  c2 = c2
  op1 = op1
  op2 = op2
  Port <- Ports3
  Cluster <- TwoClusters
  Proc <- OneProc
  MaxCount = 2
  MaxFaults = 0
SPECIFICATION Spec
INVARIANTS TypeOK QuorumAgrees WatchedExists
PROPERTIES RegisteredWhenAdded NoV6SentinelWhenDone
SYMMETRY ClusterSymmetry
