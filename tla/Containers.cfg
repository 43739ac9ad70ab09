SPECIFICATION Spec
CONSTANTS
  A = A
  B = B
  op1 = op1
  op2 = op2
  Cluster <- Clusters
  RedisPort <- RedisPorts
  SentinelPort <- SentPorts
  NoCluster = NoCluster
  NoVolume = NoVolume
  Proc = {op1, op2}
  Commands <- TwoOperators
  MaxCommands = 3
  MaxFaults = 1
CONSTRAINT QuickstartAlone
CHECK_DEADLOCK FALSE
INVARIANTS
  VolumesOwned
  PortsUnique
  OneMaster
  DestroyIsComplete
  RmIsComplete
  ObsIsUp
  QuickstartDelivers
PROPERTY NewInstanceIsEmpty
