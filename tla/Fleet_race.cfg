CONSTANTS
  c1 = c1
  op1 = op1
  op2 = op2
  Port <- OnePort
  Cluster <- OneCluster
  Proc <- TwoProcs
  MaxCount = 1
  MaxFaults = 1
SPECIFICATION HistorySpec
PROPERTIES FilesImplementLifecycle
SYMMETRY ProcSymmetry
