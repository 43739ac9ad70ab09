SPECIFICATION Spec
CONSTANTS
  A = A
  B = B
  Cluster <- Clusters
  NoCluster = NoCluster
  MaxClients = 2
  Concurrency = 2
  MaxRequests = 1
CHECK_DEADLOCK FALSE
INVARIANTS
  NoPartEndsQuietly
  ExitIsOrderly
PROPERTY EndsWhenTold
