----------------------------- MODULE Replication -----------------------------
(***************************************************************************)
(* What the russ commands act on: the Redis instances of one cluster and   *)
(* the views the sentinels have of them.  Redis and Sentinel are not part  *)
(* of the repository; they are modelled from how internal/redis/client.go  *)
(* drives and polls them and from what its comments and the README say of  *)
(* them (cached priorities, info-refresh, NOGOODSLAVE, replicas found only *)
(* through the master's INFO, v6 unable to sync from v8).                  *)
(***************************************************************************)
EXTENDS Integers, FiniteSets

CONSTANTS
  Port,          \* host ports; a port names the instance container on it
  Sentinel,      \* the sentinel fleet, fixed while the cluster is upgraded
  NoPort,        \* REPLICAOF NO ONE; no such instance
  InitMaster,    \* the instance `cluster create` started as master
  InitReplicas,  \* the replicas `cluster create` attached to it
  MaxElections,  \* bound on the number of sentinel failovers
  MaxOutages     \* bound on the number of instance outages

ASSUME PortAssumption ==
  /\ NoPort \notin Port
  /\ InitMaster \in Port
  /\ InitReplicas \subseteq Port \ {InitMaster}

ASSUME BoundAssumption == MaxElections \in Nat /\ MaxOutages \in Nat

\* The constants of client.go: Redis prefers the lower number.
ReplicaPriorityDefault         == 100
ReplicaPriorityV8Deprioritized == 200
ReplicaPriorityV8Promoted      == 1

Priority == {ReplicaPriorityDefault, ReplicaPriorityV8Deprioritized,
             ReplicaPriorityV8Promoted}

Absent  == 0   \* no container on the port
Version == {Absent, 6, 8}

NotRead == 0   \* a replica whose INFO the sentinel has not read yet

VARIABLES
  version,    \* version[p]: the Redis version of the container on port p
  upstream,   \* upstream[p]: the instance p replicates from, NoPort if master
  prio,       \* prio[p]: the replica-priority p is configured with
  down,       \* instances that are unreachable
  outages,    \* number of outages so far
  master,     \* master[s]: the master in sentinel s's view
  known,      \* known[s]: the replicas sentinel s knows
  cached,     \* cached[s][p]: the priority s last read from p's INFO
  electing,   \* electing[s]: the replica s is promoting, NoPort if none
  elections,  \* number of failovers started
  epoch       \* epoch[s]: the failover sentinel s's view comes from

instanceVars == <<version, upstream, prio, down, outages>>
sentinelVars == <<master, known, cached, electing, elections, epoch>>
replicationVars == <<instanceVars, sentinelVars>>

ReplicationTypeOK ==
  /\ version \in [Port -> Version]
  /\ upstream \in [Port -> Port \cup {NoPort}]
  /\ prio \in [Port -> Priority]
  /\ down \subseteq Port
  /\ outages \in Nat
  /\ master \in [Sentinel -> Port]
  /\ known \in [Sentinel -> SUBSET Port]
  /\ cached \in [Sentinel -> [Port -> Priority \cup {NotRead}]]
  /\ electing \in [Sentinel -> Port \cup {NoPort}]
  /\ elections \in Nat
  /\ epoch \in [Sentinel -> Nat]

\* The cluster as `cluster create --version=6` leaves it: one master, its
\* replicas, SENTINEL MONITOR on every sentinel, no replica discovered yet.
ReplicationInit ==
  /\ version = [p \in Port |->
                  IF p \in InitReplicas \cup {InitMaster} THEN 6 ELSE Absent]
  /\ upstream = [p \in Port |-> IF p \in InitReplicas THEN InitMaster ELSE NoPort]
  /\ prio = [p \in Port |-> ReplicaPriorityDefault]
  /\ down = {}
  /\ outages = 0
  /\ master = [s \in Sentinel |-> InitMaster]
  /\ known = [s \in Sentinel |-> {}]
  /\ cached = [s \in Sentinel |-> [p \in Port |-> NotRead]]
  /\ electing = [s \in Sentinel |-> NoPort]
  /\ elections = 0
  /\ epoch = [s \in Sentinel |-> 0]

Running(p) == p \in Port /\ version[p] # Absent
Containers == {p \in Port : Running(p)}
Up(p)      == Running(p) /\ p \notin down

\* A Redis 6 replica cannot load the RDB of a Redis 8 master.
CanSync(r, m) == version[r] >= version[m]

----------------------------------------------------------------------------
(* Instances failing and coming back, keeping their configuration. *)

Outage(p) ==
  /\ outages < MaxOutages
  /\ Up(p)
  /\ down' = down \cup {p}
  /\ outages' = outages + 1
  /\ UNCHANGED <<version, upstream, prio, sentinelVars>>

Recover(p) ==
  /\ p \in down
  /\ down' = down \ {p}
  /\ UNCHANGED <<version, upstream, prio, outages, sentinelVars>>

----------------------------------------------------------------------------
(* What a sentinel does on its own. *)

\* s reads the master's INFO and learns of a replica attached to it.  A
\* chained replica is listed by no master and stays invisible.
Discover(s, p) ==
  /\ Up(p) /\ Up(master[s])
  /\ upstream[p] = master[s]
  /\ p \notin known[s] /\ p # master[s]
  /\ known' = [known EXCEPT ![s] = @ \cup {p}]
  /\ UNCHANGED <<instanceVars, master, cached, electing, elections, epoch>>

\* s reads p's own INFO and caches its replica-priority.
Refresh(s, p) ==
  /\ p \in known[s] /\ Up(p)
  /\ cached[s][p] # prio[p]
  /\ cached' = [cached EXCEPT ![s][p] = prio[p]]
  /\ UNCHANGED <<instanceVars, master, known, electing, elections, epoch>>

\* The replicas a failover led by s cannot overlook, and those it may still
\* take: a replica that lost its master stays eligible for a while.
Candidates(s) == {p \in known[s] : Up(p) /\ cached[s][p] # NotRead}
SureCandidates(s) ==
  {p \in Candidates(s) : upstream[p] = master[s] /\ CanSync(p, master[s])}

\* s starts a failover and promotes p, which has the lowest replica-priority
\* s has read.  One failover runs at a time.
Elect(s, p) ==
  /\ elections < MaxElections
  /\ \A t \in Sentinel : electing[t] = NoPort
  /\ p \in Candidates(s)
  /\ \A q \in SureCandidates(s) : cached[s][p] <= cached[s][q]
  /\ electing' = [electing EXCEPT ![s] = p]
  /\ elections' = elections + 1
  /\ upstream' = [upstream EXCEPT ![p] = NoPort]
  /\ UNCHANGED <<version, prio, down, outages, master, known, cached, epoch>>

\* Nobody asked: the sentinels agree that their master is down.
AutoFailover(s, p) == ~Up(master[s]) /\ Elect(s, p)

\* The replicas s knows that are reachable are pointed at the new master, the
\* view switches, and the old master is kept as a replica to be converted.
FinishFailover(s) ==
  LET new == electing[s] IN
  /\ Up(new)
  /\ upstream' = [p \in Port |-> IF p \in known[s] \ {new} /\ Up(p) THEN new
                                 ELSE upstream[p]]
  /\ master' = [master EXCEPT ![s] = new]
  /\ known' = [known EXCEPT ![s] = (@ \cup {master[s]}) \ {new}]
  /\ cached' = [cached EXCEPT ![s] = [p \in Port |-> NotRead]]
  /\ electing' = [electing EXCEPT ![s] = NoPort]
  /\ epoch' = [epoch EXCEPT ![s] = elections]
  /\ UNCHANGED <<version, prio, down, outages, elections>>

\* The promoted replica died before it reported itself as master.
AbandonFailover(s) ==
  /\ electing[s] # NoPort /\ ~Up(electing[s])
  /\ electing' = [electing EXCEPT ![s] = NoPort]
  /\ UNCHANGED <<instanceVars, master, known, cached, elections, epoch>>

\* t hears of a newer configuration from s and adopts it.
Hello(s, t) ==
  /\ epoch[s] > epoch[t]
  /\ master' = [master EXCEPT ![t] = master[s]]
  /\ known' = [known EXCEPT ![t] = (@ \cup {master[t]}) \ {master[s]}]
  /\ cached' = [cached EXCEPT ![t] = [p \in Port |-> NotRead]]
  /\ electing' = [electing EXCEPT ![t] = NoPort]
  /\ epoch' = [epoch EXCEPT ![t] = epoch[s]]
  /\ UNCHANGED <<instanceVars, elections>>

\* s reconfigures a replica it knows that follows somebody else, or nobody:
\* only while its master is sane and its view is not about to change.
Reattach(s, p) ==
  /\ p \in known[s] /\ Up(p)
  /\ Up(master[s]) /\ upstream[master[s]] = NoPort
  /\ \A t \in Sentinel : electing[t] = NoPort /\ epoch[t] <= epoch[s]
  /\ p # master[s] /\ upstream[p] # master[s]
  /\ upstream' = [upstream EXCEPT ![p] = master[s]]
  /\ UNCHANGED <<version, prio, down, outages, sentinelVars>>

\* The environment: everything that happens without a russ command.
Environment ==
  \/ \E p \in Port : Outage(p) \/ Recover(p)
  \/ \E s \in Sentinel, p \in Port :
       Discover(s, p) \/ Refresh(s, p) \/ AutoFailover(s, p) \/ Reattach(s, p)
  \/ \E s \in Sentinel : FinishFailover(s) \/ AbandonFailover(s)
  \/ \E s, t \in Sentinel : Hello(s, t)

----------------------------------------------------------------------------
(* The commands client.go sends: operators on one variable, for the actions *)
(* of the russ commands to combine.                                         *)

\* REPLICAOF m on p (NoPort for NO ONE).
ReplicaOf(p, m) == upstream' = [upstream EXCEPT ![p] = m]

\* SENTINEL RESET on each of S: the sentinel keeps its master and forgets its
\* replicas, what it read from them and the failover it was running.
SentinelReset(S) ==
  /\ known' = [s \in Sentinel |-> IF s \in S THEN {} ELSE known[s]]
  /\ cached' = [s \in Sentinel |->
                  IF s \in S THEN [p \in Port |-> NotRead] ELSE cached[s]]
  /\ electing' = [s \in Sentinel |-> IF s \in S THEN NoPort ELSE electing[s]]
  /\ UNCHANGED <<master, elections, epoch>>
=============================================================================
