------------------------------ MODULE DockerHost ------------------------------
(***************************************************************************)
(* The containers of a Docker host as the manager names, labels and lists  *)
(* them (internal/docker).  A name carries the kind, the cluster label and *)
(* the port label; a host is a function ct from the names in use to what   *)
(* else matters of a container.                                            *)
(***************************************************************************)
EXTENDS Integers, Sequences, FiniteSets, FiniteSetsExt, Functions

CONSTANTS
  Cluster,
  RedisPort,     \* the --port-range of Redis instances
  SentinelPort,  \* the --port-range of sentinels
  NoCluster,
  NoVolume       \* an instance without persistence

ASSUME PortAssumption ==
  /\ RedisPort \cup SentinelPort \subseteq Nat \ {0}
  /\ RedisPort \cap SentinelPort = {}
  /\ IsFiniteSet(RedisPort) /\ IsFiniteSet(SentinelPort)

ASSUME ClusterAssumption == Cluster \cap Nat = {}  \* names are not ports

Redis(c, p)  == [kind |-> "redis", cluster |-> c, port |-> p]
Sentinel(p)  == [kind |-> "sentinel", cluster |-> NoCluster, port |-> p]
Workload(c)  == [kind |-> "workload", cluster |-> c, port |-> 0]
Service(k)   == [kind |-> k, cluster |-> NoCluster, port |-> 0]

Exporter       == Service("exporter")
LegacyExporter == Service("legacy exporter")
Prometheus     == Service("prometheus")
Grafana        == Service("grafana")
Observability  == {Exporter, Prometheus, Grafana}

\* RedisDataVolumeName
RedisDataVolumeName(c, p) == <<c, p>>

\* The value that stands for no volume is no volume's name.
ASSUME VolumeAssumption ==
  \A c \in Cluster, p \in RedisPort : RedisDataVolumeName(c, p) # NoVolume

\* The host port a container publishes: its own, or one fixed per kind; every
\* workload publishes its API on 9300 unless told otherwise.
FixedPort == [workload |-> 9300, prometheus |-> 9090, grafana |-> 3000]

Publishes(n) == IF n.kind \in {"redis", "sentinel"} THEN {n.port}
                ELSE {FixedPort[k] : k \in {n.kind} \cap DOMAIN FixedPort}

-------------------------------------------------------------------------------
(* Listings: containers in any status, as ListContainers asks for all.     *)

ListContainers(ct)               == DOMAIN ct
ListClusterContainers(ct, c)     == {n \in ListContainers(ct) : n.cluster = c}
ListClusterRedisInstances(ct, c) == {n \in ListClusterContainers(ct, c) : n.kind = "redis"}
ListSentinels(ct)                == {n \in ListContainers(ct) : n.kind = "sentinel"}
ListWorkloads(ct)                == {n \in ListContainers(ct) : n.kind = "workload"}
ListExporters(ct)                == ListContainers(ct) \cap {Exporter, LegacyExporter}

\* A listing is sorted by port; containers without one come first.
Foremost(names) == {n \in names : \A m \in names : n.port <= m.port}

\* Mutant: only the ports of running containers count.
UsedPortsUp(ct) == {n.port : n \in {m \in ListContainers(ct) : ct[m].running}}

UsedPorts(ct) == {n.port : n \in ListContainers(ct)}

\* AllocatePort takes the lowest free port of a range.
FreePorts(ct, range) == range \ UsedPorts(ct)

Lowest(ports) == CHOOSE p \in ports : \A q \in ports : p <= q

-------------------------------------------------------------------------------
(* Docker: when it creates and starts a container.                         *)

CanCreate(ct, n) == n \notin DOMAIN ct

\* A container is started by the id its creator was given.
CanStart(ct, net, n, p) ==
  /\ n \in DOMAIN ct /\ ct[n].maker = p
  /\ net
  /\ \A m \in DOMAIN ct \ {n} : ct[m].running => Publishes(m) \cap Publishes(n) = {}

InUse(ct, v) == \E n \in DOMAIN ct : ct[n].volume = v

With(ct, n, role, v, p) ==
  [m \in DOMAIN ct \cup {n} |->
     IF m = n THEN [role |-> role, running |-> FALSE, volume |-> v, maker |-> p] ELSE ct[m]]

Without(ct, n) == Restrict(ct, DOMAIN ct \ {n})
===============================================================================
