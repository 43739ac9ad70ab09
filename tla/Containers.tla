------------------------------ MODULE Containers ------------------------------
(***************************************************************************)
(* russ commands as the Docker calls they make: containers, data volumes,  *)
(* the network and the state files of the clusters, while any call may     *)
(* fail and any command may be interrupted.  A command is a list of tasks; *)
(* a task is a call or a few of them.  What the commands do inside Redis   *)
(* and the sentinels is in modules Upgrade and SentinelFleet.              *)
(***************************************************************************)
EXTENDS DockerHost, SequencesExt

CONSTANTS
  Proc,         \* russ processes
  Commands,     \* the commands an operator may give each of them
  MaxCommands,  \* bound on the number of commands
  MaxFaults     \* bound on failed calls and interrupted commands

VARIABLES
  ct,       \* the containers
  vols,     \* the data volumes
  bare,     \* those Docker made with a container, without the label of russ
  net,      \* the russ network exists
  files,    \* clusters with a state file
  monitors, \* <<sentinel, cluster, port>>: what sentinels monitor
  op,       \* the command each process runs
  given,    \* number of commands given
  faults,   \* number of faults
  used,     \* history: volumes an instance has written to
  leaked,   \* history: volumes whose removal, or whose instance, failed
  cut,      \* history: containers that exited, or whose start or removal was
            \* cut short
  raced     \* history: clusters and ports two processes claimed at once

host  == <<ct, vols, bare, net, files, monitors>>
hist  == <<used, leaked, cut, raced>>
vars  == <<ct, vols, bare, net, files, monitors, op, given, faults, used, leaked, cut,
           raced>>

\* The commands there are, with their arguments and flags.  An instance or
\* sentinel to remove may be any container of that name.
OperatorCommands ==
  [do : {"cluster create"}, cluster : Cluster, count : Nat \ {0}, persistence : BOOLEAN]
    \cup [do : {"quickstart"}, cluster : Cluster, sentinels : Nat \ {0}, count : Nat \ {0},
          adds : Nat]
    \cup [do : {"cluster rm", "workload start"}, cluster : Cluster]
    \cup [do : {"instance add"}, cluster : Cluster, persistence : BOOLEAN]
    \cup [do : {"instance rm", "sentinel rm"},
          name : [kind : STRING, cluster : Cluster \cup {NoCluster}, port : Nat]]
    \cup [do : {"sentinel add"}, count : Nat \ {0}]
    \cup [do : {"workload stop"}, cluster : Cluster \cup {NoCluster}]
    \cup [do : {"obs start", "obs stop", "destroy"}]

ASSUME CommandAssumption == \A p \in Proc : Commands[p] \subseteq OperatorCommands

-------------------------------------------------------------------------------
(* Tasks. *)

Task(t)             == [do |-> t]
Allocate(c, count, persistence, ports) ==
  [do |-> "allocate", cluster |-> c, count |-> count, persistence |-> persistence,
   ports |-> ports]
StartSentinels(k)   == [do |-> "start sentinel", left |-> k]
Start(n, role, v)   == [do |-> "start", name |-> n, role |-> role, volume |-> v]
Ensure(n)           == [do |-> "ensure", name |-> n]
Restart(n)          == [do |-> "restart", name |-> n]
StopAndRemove(S, must) == [do |-> "remove", names |-> S, must |-> must]
Monitor(c, p)       == [do |-> "monitor", cluster |-> c, port |-> p]
Register(c, p, S)   == [do |-> "register", cluster |-> c, port |-> p, names |-> S]
Unwatch(c)          == [do |-> "unwatch", cluster |-> c]
Forget(P)           == [do |-> "forget", pairs |-> P]
Advance(c)          == [do |-> "advance", cluster |-> c]
Save(c)             == [do |-> "save", cluster |-> c]
Delete(c)           == [do |-> "delete", cluster |-> c]
FirstVolume(V)      == CHOOSE v \in V : TRUE
FirstPair(P)        == CHOOSE x \in P : \A y \in P : x[1].port <= y[1].port
DropVolumes(V)      == [do |-> "drop", volumes |-> V]

\* cmd: the command given; step, name, volume: within a task
\* clean: no call has failed; alone: no other command ran at the same time;
\* steady: no container exited while it ran
\* seen: the clusters of the containers destroy found
\* claims: the ports it has allocated and the cluster it creates
Idle == [cmd |-> Task("none"), todo |-> <<>>, step |-> "begin", volume |-> NoVolume,
         name |-> NoCluster, clean |-> TRUE, alone |-> TRUE, steady |-> TRUE,
         seen |-> {}, claims |-> {}]

Running(p)  == op[p].todo # <<>>
Ended(p)    == op[p].cmd # Task("none") /\ op[p].todo = <<>>
Now(p)      == Head(op[p].todo)
At(p, t, s) == Running(p) /\ Now(p).do = t /\ op[p].step = s

Step(p, s)      == [op EXCEPT ![p].step = s]
Then(p, tasks)  == [op EXCEPT ![p].todo = tasks \o Tail(@), ![p].step = "begin",
                              ![p].volume = NoVolume]
NextTask(p)     == Then(p, <<>>)
Die(p)          == [op EXCEPT ![p] = Idle]

\* The volumes that nothing leads to any more if the command ends here.
AtRisk(p) ==
  {v \in (IF At(p, "start", "create") THEN {Now(p).volume}
          ELSE IF At(p, "remove", "volume") THEN {op[p].volume} ELSE {}) \ {NoVolume} :
     ~InUse(ct, v)}

\* The container the command is starting or removing.
InHand(p) == IF ~Running(p) THEN {}
             ELSE IF Now(p).do = "start" THEN {Now(p).name}
             ELSE IF Now(p).do = "remove" /\ op[p].step # "begin" THEN {op[p].name}
             ELSE {}

\* The command returns an error: a later one finds what it left.
Abort(p) ==
  /\ op' = Die(p)
  /\ leaked' = leaked \cup AtRisk(p)
  /\ cut' = cut \cup InHand(p)
  /\ UNCHANGED <<host, given, used, raced>>

\* A call fails and the command goes on.
GoOn(p, o) ==
  /\ op' = [o EXCEPT ![p].clean = FALSE]
  /\ leaked' = leaked \cup AtRisk(p)
  /\ cut' = cut \cup InHand(p)
  /\ UNCHANGED <<host, given, used, raced>>

\* StopAndRemove is done with one of the names.
Removed(p) == IF Now(p).names = {op[p].name} THEN NextTask(p)
              ELSE [op EXCEPT ![p].todo = <<[Now(p) EXCEPT !.names = @ \ {op[p].name}]>> \o Tail(@),
                              ![p].step = "begin", ![p].volume = NoVolume]

\* Without an inspection the volume of the container is not known.
InspectFails(p) ==
  /\ \E n \in Foremost(Now(p).names) :
       op' = [op EXCEPT ![p].step = "stop", ![p].name = n, ![p].volume = NoVolume,
                        ![p].clean = FALSE]
  /\ UNCHANGED <<host, given, hist>>

\* What an error of the call at hand does to the command.
Fails(p) ==
  CASE Now(p).do = "remove" /\ op[p].step = "begin" -> InspectFails(p)
    [] Now(p).do = "remove" /\ op[p].step # "begin" ->
         IF Now(p).must /\ op[p].step # "volume" THEN Abort(p) ELSE GoOn(p, Removed(p))
    [] Now(p).do \in {"ensure", "restart"} ->
         GoOn(p, Then(p, <<Start(Now(p).name, Now(p).name.kind, NoVolume)>>))
    [] Now(p).do = "drop" ->
         GoOn(p, Then(p, <<DropVolumes(Now(p).volumes \ {FirstVolume(Now(p).volumes)})>>))
    [] Now(p).do = "forget" ->
         GoOn(p, Then(p, <<Forget(Now(p).pairs \ {FirstPair(Now(p).pairs)})>>))
    [] Now(p).do \in {"unwatch", "save", "advance", "delete", "legacy", "sweep",
                      "drop network"} ->
         GoOn(p, NextTask(p))
    [] OTHER -> Abort(p)

-------------------------------------------------------------------------------
(* The calls. *)

EnsureNetwork(p) ==
  /\ At(p, "network", "begin")
  /\ net' = TRUE
  /\ op' = NextTask(p)
  /\ UNCHANGED <<ct, vols, bare, files, monitors, given, faults, hist>>

\* StartRedis, StartSentinel, StartWorkload, StartPrometheus, StartGrafana and
\* StartSharedRedisExporter: a volume for an instance with persistence, create,
\* start.  Docker creates a missing volume with the container.
EnsureVolume(p) ==
  /\ At(p, "start", "begin")
  /\ vols' = vols \cup ({Now(p).volume} \ {NoVolume})
  /\ op' = Step(p, "create")
  /\ UNCHANGED <<ct, bare, net, files, monitors, given, faults, hist>>

CreateContainer(p) ==
  /\ At(p, "start", "create")
  /\ IF CanCreate(ct, Now(p).name)
     THEN /\ ct' = With(ct, Now(p).name, Now(p).role, Now(p).volume, p)
          /\ vols' = vols \cup ({Now(p).volume} \ {NoVolume})
          /\ bare' = bare \cup ({Now(p).volume} \ (vols \cup {NoVolume}))
          /\ cut' = cut \ {Now(p).name}
          /\ op' = Step(p, "start")
          /\ UNCHANGED <<net, files, monitors, given, used, leaked, raced>>
     ELSE Fails(p)
  /\ UNCHANGED faults

StartContainer(p) ==
  /\ At(p, "start", "start")
  /\ IF CanStart(ct, net, Now(p).name, p)
     THEN /\ ct' = [ct EXCEPT ![Now(p).name].running = TRUE]
          /\ used' = used \cup ({Now(p).volume} \ {NoVolume})
          /\ op' = NextTask(p)
          /\ UNCHANGED <<vols, bare, net, files, monitors, given, leaked, cut, raced>>
     ELSE Fails(p)
  /\ UNCHANGED faults

\* StopAndRemove: inspect for the volume, stop, remove, remove the volume.
Inspect(p) ==
  /\ At(p, "remove", "begin")
  /\ IF Now(p).names = {}
     THEN op' = NextTask(p)
     ELSE \E n \in Foremost(Now(p).names) :
            op' = [op EXCEPT ![p].step = "stop", ![p].name = n,
                             ![p].volume = IF n \in DOMAIN ct THEN ct[n].volume ELSE NoVolume]
  /\ UNCHANGED <<host, given, faults, hist>>

StopContainer(p) ==
  /\ At(p, "remove", "stop")
  /\ IF op[p].name \in DOMAIN ct
     THEN /\ ct' = [ct EXCEPT ![op[p].name].running = FALSE]
          /\ op' = Step(p, "rm")
          /\ UNCHANGED <<vols, bare, net, files, monitors, given, hist>>
     ELSE Fails(p)
  /\ UNCHANGED faults

\* Mutant: the container goes, its volume stays.
RemoveContainerOnly(p) ==
  /\ At(p, "remove", "rm")
  /\ ct' = Without(ct, op[p].name)
  /\ monitors' = {m \in monitors : m[1] # op[p].name}
  /\ op' = Removed(p)
  /\ UNCHANGED <<vols, bare, net, files, given, faults, hist>>

RemoveContainer(p) ==
  /\ At(p, "remove", "rm")
  /\ IF op[p].name \in DOMAIN ct
     THEN /\ ct' = Without(ct, op[p].name)
          /\ monitors' = {m \in monitors : m[1] # op[p].name}
          /\ leaked' = leaked \cup ({ct[op[p].name].volume} \ {op[p].volume, NoVolume})
          /\ op' = IF op[p].volume = NoVolume THEN Removed(p) ELSE Step(p, "volume")
          /\ UNCHANGED <<vols, bare, net, files, given, used, cut, raced>>
     ELSE Fails(p)
  /\ UNCHANGED faults

\* Docker refuses to remove a volume that a container mounts.
RemoveVolume(p, v, o) ==
  /\ IF ~InUse(ct, v)
     THEN /\ vols' = vols \ {v}
          /\ bare' = bare \ {v}
          /\ used' = used \ {v}
          /\ leaked' = leaked \ {v}
          /\ op' = o
          /\ UNCHANGED <<ct, net, files, monitors, given, cut, raced>>
     ELSE Fails(p)
  /\ UNCHANGED faults

\* Mutant: the volume is kept for an instance to come.
KeepDataVolume(p) ==
  /\ At(p, "remove", "volume")
  /\ op' = Removed(p)
  /\ UNCHANGED <<host, given, faults, hist>>

RemoveDataVolume(p) ==
  /\ At(p, "remove", "volume")
  /\ RemoveVolume(p, op[p].volume, Removed(p))

\* cluster create registers the cluster with one sentinel after the other: one
\* that is not running answers nothing, one that has a master of that name
\* refuses.
RegisterCluster(p) ==
  /\ At(p, "register", "begin")
  /\ LET c == Now(p).cluster IN
     IF Now(p).names = {}
     THEN op' = NextTask(p) /\ UNCHANGED <<host, given, hist>>
     ELSE \E s \in Foremost(Now(p).names) :
            IF /\ s \in DOMAIN ct /\ ct[s].running
               /\ \A m \in monitors : m[1] # s \/ m[2] # c
            THEN /\ monitors' = monitors \cup {<<s, c, Now(p).port>>}
                 /\ op' = Then(p, <<Register(c, Now(p).port, Now(p).names \ {s})>>)
                 /\ UNCHANGED <<ct, vols, bare, net, files, given, hist>>
            ELSE Fails(p)
  /\ UNCHANGED faults

\* SENTINEL REMOVE, one sentinel or one cluster after the other.
ForgetCluster(p) ==
  /\ At(p, "forget", "begin")
  /\ IF Now(p).pairs = {}
     THEN op' = NextTask(p) /\ UNCHANGED <<host, given, hist>>
     ELSE LET x == FirstPair(Now(p).pairs) IN
          IF x[1] \in DOMAIN ct /\ ct[x[1]].running
          THEN /\ monitors' = {m \in monitors : <<m[1], m[2]>> # x}
               /\ op' = Then(p, <<Forget(Now(p).pairs \ {x})>>)
               /\ UNCHANGED <<ct, vols, bare, net, files, given, hist>>
          ELSE Fails(p)
  /\ UNCHANGED faults

\* The end of instance add and rm: in some stages the state file, when there is
\* one, is saved with the next stage.
AdvanceState(p) ==
  /\ At(p, "advance", "begin")
  /\ op' \in {NextTask(p)} \cup (IF Now(p).cluster \in files
                                  THEN {Then(p, <<Save(Now(p).cluster)>>)} ELSE {})
  /\ UNCHANGED <<host, given, faults, hist>>

SaveState(p) ==
  /\ At(p, "save", "begin")
  /\ files' = files \cup {Now(p).cluster}
  /\ op' = NextTask(p)
  /\ UNCHANGED <<ct, vols, bare, net, monitors, given, faults, hist>>

DeleteState(p) ==
  /\ At(p, "delete", "begin")
  /\ files' = files \ {Now(p).cluster}
  /\ op' = NextTask(p)
  /\ UNCHANGED <<ct, vols, bare, net, monitors, given, faults, hist>>

\* GetContainer, and a start when there is none in any status.
EnsureContainer(p) ==
  /\ At(p, "ensure", "begin")
  /\ op' = IF Now(p).name \in ListContainers(ct) THEN NextTask(p)
           ELSE Then(p, <<Start(Now(p).name, Now(p).name.kind, NoVolume)>>)
  /\ UNCHANGED <<host, given, faults, hist>>

\* Mutant: nothing to replace, nothing to start.
RestartContainerFound(p) ==
  /\ At(p, "restart", "begin")
  /\ op' = IF Now(p).name \notin ListContainers(ct) THEN NextTask(p)
           ELSE Then(p, <<StopAndRemove({Now(p).name}, TRUE),
                          Start(Now(p).name, Now(p).name.kind, NoVolume)>>)
  /\ UNCHANGED <<host, given, faults, hist>>

\* The container is replaced by a new one.
RestartContainer(p) ==
  /\ At(p, "restart", "begin")
  /\ op' = Then(p, <<StopAndRemove({Now(p).name} \cap ListContainers(ct), TRUE),
                     Start(Now(p).name, Now(p).name.kind, NoVolume)>>)
  /\ UNCHANGED <<host, given, faults, hist>>

-------------------------------------------------------------------------------
(* The commands: listings, early returns and the tasks that follow.        *)

Runs(p, c) == At(p, c, "begin")

\* The command goes on with these tasks, or returns an error.
Proceed(p, ok, tasks) ==
  /\ IF ok THEN op' = Then(p, tasks) /\ UNCHANGED <<host, given, hist>> ELSE Abort(p)
  /\ UNCHANGED faults

\* The same, for a command that takes ports or the name of a cluster for itself
\* because a listing shows them free; another one may have done so too.
Claim(p, ok, claims, tasks) ==
  /\ IF ok THEN /\ op' = [Then(p, tasks) EXCEPT ![p].claims = @ \cup claims]
                /\ raced' = raced \cup (claims \cap UNION {op[q].claims : q \in Proc \ {p}})
                /\ UNCHANGED <<host, given, used, leaked, cut>>
     ELSE Abort(p)
  /\ UNCHANGED faults

\* Mutant: an instance that does not run does not count.
ExistingUp(c) == {n \in ListClusterRedisInstances(ct, c) : ct[n].running}

Existing(c) == ListClusterRedisInstances(ct, c)

\* cluster create: refused when the cluster has an instance in any status.
ClusterCreate(p) ==
  /\ Runs(p, "cluster create")
  /\ LET t == Now(p)
     IN Claim(p, Existing(t.cluster) = {}, {t.cluster},
              <<Task("network"), Allocate(t.cluster, t.count, t.persistence, <<>>)>>)

\* The ports first, each from a listing of its own and above the last one.
CreateAllocate(p) ==
  /\ Runs(p, "allocate")
  /\ LET t    == Now(p)
         free == {q \in FreePorts(ct, RedisPort) : \A i \in DOMAIN t.ports : t.ports[i] < q}
     IN /\ Len(t.ports) < t.count
        /\ Claim(p, free # {}, {Lowest(free)},
                 <<Allocate(t.cluster, t.count, t.persistence, Append(t.ports, Lowest(free)))>>)

VolumeFor(t, port) == IF t.persistence THEN RedisDataVolumeName(t.cluster, port) ELSE NoVolume

\* Then the master and the replicas.
CreatePlan(p) ==
  /\ Runs(p, "allocate")
  /\ LET t == Now(p)
     IN /\ Len(t.ports) = t.count
        /\ Proceed(p, TRUE,
                   [i \in 1..t.count |-> Start(Redis(t.cluster, t.ports[i]),
                                               IF i = 1 THEN "master" ELSE "replica",
                                               VolumeFor(t, t.ports[i]))]
                   \o <<Monitor(t.cluster, t.ports[1]), Save(t.cluster)>>)

\* Docker knows the address of a container that runs.
MonitorMaster(p) ==
  /\ Runs(p, "monitor")
  /\ LET t == Now(p)
         n == Redis(t.cluster, t.port)
     IN Proceed(p, n \in DOMAIN ct /\ ct[n].running,
                <<Register(t.cluster, t.port, ListSentinels(ct))>>)

UnwatchCluster(p) ==
  /\ Runs(p, "unwatch")
  /\ Proceed(p, TRUE, <<Forget(ListSentinels(ct) \X {Now(p).cluster})>>)

\* Mutant: the Redis instances of the cluster only.
ClusterRmRedisOnly(p) ==
  /\ Runs(p, "cluster rm")
  /\ LET c == Now(p).cluster
     IN Proceed(p, ListClusterContainers(ct, c) # {},
                <<Unwatch(c), StopAndRemove(ListClusterRedisInstances(ct, c), FALSE), Delete(c)>>)

\* cluster rm: every container with the label of the cluster.
ClusterRm(p) ==
  /\ Runs(p, "cluster rm")
  /\ LET c == Now(p).cluster
     IN Proceed(p, ListClusterContainers(ct, c) # {},
                <<Unwatch(c), StopAndRemove(ListClusterContainers(ct, c), FALSE), Delete(c)>>)

\* What the sentinels that run report; the first report is taken, port by port.
Reports(c) == {m \in monitors : m[2] = c /\ m[1] \in DOMAIN ct /\ ct[m[1]].running}
ReportedMasters(c) == {m[3] : m \in Reports(c)}
FirstReported(c) ==
  {m[3] : m \in {x \in Reports(c) : \A y \in Reports(c) : x[1].port <= y[1].port}}

\* instance add: a replica of the master that is reported.
InstanceAdd(p) ==
  /\ Runs(p, "instance add")
  /\ LET t    == Now(p)
         free == FreePorts(ct, RedisPort)
         port == Lowest(free)
     IN Claim(p, /\ \E m \in FirstReported(t.cluster) :
                       Redis(t.cluster, m) \in Existing(t.cluster)
                 /\ free # {},
              {port},
              <<Start(Redis(t.cluster, port), "replica", VolumeFor(t, port)),
                Advance(t.cluster)>>)

\* instance rm: any container of a cluster but its master.
InstanceRm(p) ==
  /\ Runs(p, "instance rm")
  /\ LET n == Now(p).name
     IN Proceed(p, /\ n \in ListContainers(ct)
                   /\ n.kind # "sentinel" /\ n.cluster # NoCluster
                   /\ n.port \notin ReportedMasters(n.cluster),
                <<StopAndRemove({n}, TRUE), Advance(n.cluster)>>)

SentinelAdd(p) ==
  /\ Runs(p, "sentinel add")
  /\ Proceed(p, TRUE, <<Task("network"), StartSentinels(Now(p).count)>>)

\* Mutant: one sentinel, whatever the count.
StartSentinelOnce(p) ==
  /\ Runs(p, "start sentinel")
  /\ LET free == FreePorts(ct, SentinelPort)
     IN Claim(p, free # {}, {Lowest(free)},
              <<Start(Sentinel(Lowest(free)), "sentinel", NoVolume)>>)

\* One sentinel, then those left to start.
StartSentinel(p) ==
  /\ Runs(p, "start sentinel")
  /\ LET free == FreePorts(ct, SentinelPort)
         left == Now(p).left - 1
     IN Claim(p, free # {}, {Lowest(free)},
              <<Start(Sentinel(Lowest(free)), "sentinel", NoVolume)>>
                \o (IF left > 0 THEN <<StartSentinels(left)>> ELSE <<>>))

\* The sentinel is told to forget all its clusters before it goes.
SentinelRm(p) ==
  /\ Runs(p, "sentinel rm")
  /\ LET s == Now(p).name
     IN Proceed(p, s \in ListContainers(ct) /\ s.kind = "sentinel",
                <<Forget({s} \X {m[2] : m \in {x \in monitors : x[1] = s}}),
                  StopAndRemove({s}, TRUE)>>)

ObsStart(p) ==
  /\ Runs(p, "obs start")
  /\ Proceed(p, TRUE, <<Task("network"), Task("legacy"), Ensure(Exporter),
                        Ensure(Prometheus), Restart(Grafana)>>)

RemoveLegacy(p) ==
  /\ Runs(p, "legacy")
  /\ Proceed(p, TRUE, <<StopAndRemove(ListExporters(ct) \ {Exporter}, FALSE)>>)

ObsStop(p) ==
  /\ Runs(p, "obs stop")
  /\ Proceed(p, TRUE, <<StopAndRemove({Grafana} \cap ListContainers(ct), FALSE),
                        StopAndRemove({Prometheus} \cap ListContainers(ct), FALSE),
                        StopAndRemove(ListExporters(ct), FALSE)>>)

\* client workload start: for a cluster with instances, when sentinels exist.
WorkloadStart(p) ==
  /\ Runs(p, "workload start")
  /\ Proceed(p, Existing(Now(p).cluster) # {} /\ ListSentinels(ct) # {},
             <<Restart(Workload(Now(p).cluster))>>)

\* client workload stop: those of one cluster, when it names one.
WorkloadStop(p) ==
  /\ Runs(p, "workload stop")
  /\ LET c == Now(p).cluster
     IN Proceed(p, TRUE, <<StopAndRemove({n \in ListWorkloads(ct) : c \in {NoCluster, n.cluster}},
                                         FALSE)>>)

\* Mutant: the clusters are read off the containers that are left.
DestroyReadsLate(p) ==
  /\ Runs(p, "destroy")
  /\ op' = [(IF ListContainers(ct) = {} THEN NextTask(p)
             ELSE Then(p, <<StopAndRemove(ListContainers(ct), FALSE), Task("sweep"),
                            Task("drop network")>>))
            EXCEPT ![p].seen = IF ListContainers(ct) = {} THEN {NoCluster}
                               ELSE {n.cluster : n \in ListContainers(ct)} \ {NoCluster}]
  /\ UNCHANGED <<host, given, faults, hist>>

\* destroy: nothing without containers, or when the operator answers no, whom
\* quickstart does not ask; else all of them, the volumes left, the network, and
\* the state of the clusters the containers belong to.
Destroy(p) ==
  /\ Runs(p, "destroy")
  /\ LET all   == ListContainers(ct)
         seen  == {n.cluster : n \in all} \ {NoCluster}
         order == SetToSeq(seen)
     IN \/ /\ all = {} \/ op[p].cmd.do # "quickstart"
           /\ op' = [NextTask(p) EXCEPT ![p].seen = {NoCluster}]
        \/ /\ all # {}
           /\ op' = [Then(p, <<StopAndRemove(all, FALSE), Task("sweep"), Task("drop network")>>
                             \o [i \in DOMAIN order |-> Delete(order[i])])
                     EXCEPT ![p].seen = seen]
  /\ UNCHANGED <<host, given, faults, hist>>

\* The volumes with the label of russ.
Sweep(p) ==
  /\ Runs(p, "sweep")
  /\ Proceed(p, TRUE, <<DropVolumes(vols \ bare)>>)

DropVolume(p) ==
  /\ At(p, "drop", "begin")
  /\ IF Now(p).volumes = {}
     THEN op' = NextTask(p) /\ UNCHANGED <<host, given, faults, hist>>
     ELSE LET v == FirstVolume(Now(p).volumes) IN RemoveVolume(p, v, Then(p, <<DropVolumes(Now(p).volumes \ {v})>>))

RemoveNetwork(p) ==
  /\ At(p, "drop network", "begin")
  /\ IF net /\ \A n \in DOMAIN ct : ~ct[n].running
     THEN /\ net' = FALSE
          /\ op' = NextTask(p)
          /\ UNCHANGED <<ct, vols, bare, files, monitors, given, hist>>
     ELSE Fails(p)
  /\ UNCHANGED faults

\* quickstart.go: the steps, each of them a command; the first error ends it.
Quickstart(cmd) ==
  LET c == cmd.cluster IN
  <<Task("destroy"), Task("obs start"), [do |-> "sentinel add", count |-> cmd.sentinels],
    [do |-> "cluster create", cluster |-> c, count |-> cmd.count, persistence |-> TRUE],
    [do |-> "workload start", cluster |-> c]>>
  \o [i \in 1..cmd.adds |-> [do |-> "instance add", cluster |-> c, persistence |-> TRUE]]

-------------------------------------------------------------------------------
Others(p) == {q \in Proc \ {p} : op[q].cmd # Task("none")}

\* The operator gives a command; quickstart gives several.
Begin(p, cmd) ==
  /\ op[p].cmd = Task("none")
  /\ given < MaxCommands
  /\ given' = given + 1
  /\ op' = [q \in Proc |->
              IF q = p THEN [Idle EXCEPT !.cmd = cmd, !.alone = Others(p) = {},
                                         !.todo = IF cmd.do = "quickstart" THEN Quickstart(cmd)
                                                  ELSE <<cmd>>]
              ELSE [op[q] EXCEPT !.alone = FALSE]]
  /\ UNCHANGED <<host, faults, hist>>

Finish(p) ==
  /\ Ended(p)
  /\ op' = Die(p)
  /\ UNCHANGED <<host, given, faults, hist>>

\* A call fails, or the command is interrupted: killed, or a wait times out.
CallFails(p) ==
  /\ Running(p)
  /\ faults < MaxFaults
  /\ faults' = faults + 1
  /\ At(p, "remove", "begin") => Now(p).names # {}
  /\ At(p, "drop", "begin") => Now(p).volumes # {}
  /\ At(p, "forget", "begin") => Now(p).pairs # {}
  /\ At(p, "register", "begin") => Now(p).names # {}
  /\ Fails(p)

Interrupt(p) ==
  /\ Running(p)
  /\ faults < MaxFaults
  /\ faults' = faults + 1
  /\ Abort(p)

\* A running container exits: its process ends, docker stop, the host reboots.
Exit(n) ==
  /\ ct[n].running
  /\ faults < MaxFaults
  /\ faults' = faults + 1
  /\ ct' = [ct EXCEPT ![n].running = FALSE]
  /\ cut' = cut \cup {n}
  /\ op' = [q \in Proc |-> [op[q] EXCEPT !.steady = FALSE]]
  /\ UNCHANGED <<vols, bare, net, files, monitors, given, used, leaked, raced>>

Init ==
  /\ ct \in {[n \in {} |-> Idle], [n \in {LegacyExporter} |->
               [role |-> "exporter", running |-> TRUE, volume |-> NoVolume,
                maker |-> NoCluster]]}
  /\ vols = {} /\ bare = {} /\ files = {} /\ monitors = {}
  /\ net = (DOMAIN ct # {})
  /\ op = [p \in Proc |-> Idle]
  /\ given = 0 /\ faults = 0
  /\ used = {} /\ leaked = {} /\ cut = {} /\ raced = {}

Call(p) ==
  \/ EnsureNetwork(p) \/ EnsureVolume(p) \/ CreateContainer(p) \/ StartContainer(p)
  \/ Inspect(p) \/ StopContainer(p) \/ RemoveContainer(p) \/ RemoveDataVolume(p)
  \/ RegisterCluster(p) \/ ForgetCluster(p)
  \/ SaveState(p) \/ AdvanceState(p) \/ DeleteState(p)
  \/ EnsureContainer(p) \/ RestartContainer(p) \/ DropVolume(p) \/ RemoveNetwork(p)

Command(p) ==
  \/ ClusterCreate(p) \/ CreateAllocate(p) \/ CreatePlan(p) \/ MonitorMaster(p)
  \/ ClusterRm(p) \/ UnwatchCluster(p) \/ InstanceAdd(p) \/ InstanceRm(p)
  \/ SentinelAdd(p) \/ StartSentinel(p) \/ SentinelRm(p)
  \/ ObsStart(p) \/ RemoveLegacy(p) \/ ObsStop(p)
  \/ WorkloadStart(p) \/ WorkloadStop(p) \/ Destroy(p) \/ Sweep(p)

Next ==
  \/ \E p \in Proc : \/ \E cmd \in Commands[p] : Begin(p, cmd)
                     \/ Command(p) \/ Call(p) \/ Finish(p)
                     \/ CallFails(p) \/ Interrupt(p)
  \/ \E n \in DOMAIN ct : Exit(n)

Spec == Init /\ [][Next]_vars

-------------------------------------------------------------------------------
\* A data volume belongs to a container, or a command is about to create or
\* has just removed it, or a call on it failed (manager.go:611-641).
InProgress(v) == \E p \in Proc : v \in AtRisk(p)

VolumesOwned == \A v \in vols : InUse(ct, v) \/ InProgress(v) \/ v \in leaked

\* A new instance starts on an empty volume, unless the removal of an earlier
\* instance of that name and port failed, or is going on (volume.go:27-38
\* takes an existing volume for the instance's own).
Removing(v) == \E p \in Proc : At(p, "remove", "volume") /\ op[p].volume = v

NewInstanceIsEmpty ==
  [][\A n \in DOMAIN ct' \ DOMAIN ct :
       ct'[n].volume \in used => ct'[n].volume \in leaked \/ Removing(ct'[n].volume)]_vars

\* No two containers hold a port and no cluster has two containers labelled
\* master, not even after commands that failed half way, unless two commands
\* allocated the port or created the cluster at the same time.
PortsUnique ==
  \A n, m \in DOMAIN ct : n # m /\ n.port = m.port /\ n.port # 0 => n.port \in raced

OneMaster ==
  \A n, m \in DOMAIN ct :
    n # m /\ n.cluster = m.cluster /\ ct[n].role = "master" /\ ct[m].role = "master"
    => n.cluster \in raced

\* A command of which no call failed, with no other at the same time, leaves
\* the host as it says it does.
Completed(p, c) == Ended(p) /\ op[p].cmd.do = c /\ op[p].clean /\ op[p].alone

\* cluster rm leaves no container, volume, monitor or file of the cluster.
RmIsComplete ==
  \A p \in Proc : Completed(p, "cluster rm") =>
    LET c == op[p].cmd.cluster IN
    /\ ListClusterContainers(ct, c) = {}
    /\ c \notin files
    /\ \A m \in monitors : m[2] # c
    /\ \A v \in vols : v[1] = c => v \in leaked

\* destroy, when it finds a container and is told to go on, leaves none, nor a
\* volume with the label of russ, nor the network, nor the state of a cluster it
\* found a container of (destroy.go:70-124).
DestroyIsComplete ==
  \A p \in Proc : Completed(p, "destroy") /\ op[p].seen # {NoCluster} =>
    /\ DOMAIN ct = {} /\ vols \subseteq bare /\ ~net
    /\ files \cap op[p].seen = {}

\* obs start leaves every part of the stack.  It runs, unless it exited meanwhile
\* or, but for Grafana, was found there as an earlier exit, failure or
\* interruption had left it (obs.go:90-148).
ObsIsUp ==
  \A p \in Proc : Completed(p, "obs start") =>
    /\ Observability \subseteq DOMAIN ct
    /\ op[p].steady => /\ ct[Grafana].running
                       /\ \A n \in {Exporter, Prometheus} : ct[n].running \/ n \in cut

\* What the comments say of the parts it finds: that they run
\* (internal/docker/obs.go:233 and 276).
FoundIsRunning ==
  \A p \in Proc : Completed(p, "obs start") /\ op[p].steady =>
    \A n \in Observability : ct[n].running

\* quickstart that completes has made all it prints, as many sentinels and
\* instances as it says, every sentinel with the cluster, all of it running but
\* for what exited meanwhile.  It has kept nothing of what was there, but for
\* volumes leaked earlier: destroy keeps those when it finds no container
\* (quickstart.go:61-136, destroy.go:57-60).
QuickstartDelivers ==
  \A p \in Proc : Completed(p, "quickstart") =>
    LET cmd       == op[p].cmd
        c         == cmd.cluster
        sentinels == ListSentinels(ct)
        instances == ListClusterRedisInstances(ct, c)
    IN /\ DOMAIN ct = Observability \cup {Workload(c)} \cup sentinels \cup instances
       /\ Cardinality(sentinels) = cmd.sentinels
       /\ Cardinality(instances) = cmd.count + cmd.adds
       /\ {<<m[1], m[2]>> : m \in monitors} = sentinels \X {c}
       /\ op[p].steady => \A n \in DOMAIN ct : ct[n].running
       /\ c \in files
       /\ vols \ leaked = {ct[n].volume : n \in instances} \ leaked
===============================================================================
