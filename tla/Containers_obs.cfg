SPECIFICATION Spec
CONSTANTS
  A = A
  B = B
  op1 = op1
  op2 = op2
  Cluster <- Clusters
  RedisPort <- RedisPorts
  SentinelPort <- SentPorts
  NoCluster = NoCluster
  NoVolume = NoVolume
  Proc = {op1}
  Commands <- ObsOperator
  MaxCommands = 3
  MaxFaults = 1
CHECK_DEADLOCK FALSE
INVARIANT FoundIsRunning
