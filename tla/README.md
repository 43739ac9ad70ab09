# Verification of russ

russ is a command-line program that runs Redis clusters and a fleet of Redis
Sentinels in Docker containers and takes a cluster from Redis 6 to Redis 8
without downtime.  This directory holds TLA+ modules that model it, TLC
configurations that check them on small instances, and theorems about them
checked by TLAPS.

## 1. Inventory

| Component | State it keeps | Operations | Interacts with |
|---|---|---|---|
| upgrade FSM (`internal/state`) | one JSON file per cluster, holding a stage | `NewMachine`, `Fire`, `Load`, `Save`, `ListClusters`, `Delete`, `WalkLifecycle` | every command, in a process of its own, loads the file and may save it |
| instance commands (`cmd/instance.go`) | none | `instance add`, `instance rm` | Docker, Redis, sentinels, FSM |
| cluster upgrade commands (`cmd/cluster.go`, `reconcileReplication` in `cmd/sentinel.go`) | none | `promote-v8`, `failover`, `isolate-v6-replicas` | Redis, sentinels, FSM |
| sentinel fleet (`cmd/sentinel.go`) | none | `sentinel add`, `sentinel rm`, quorum updates, registration, `advanceClustersInState` | Docker, sentinels, the FSM of every cluster |
| cluster life (`cmd/cluster.go`, `cmd/destroy.go`, `cmd/quickstart.go`) | none | `cluster create`, `cluster rm`, `destroy`, `quickstart` | Docker, sentinels, FSM |
| Docker manager (`internal/docker`) | containers, ports, volumes, network | `AllocatePort`, `StartRedis`, `StartSentinel`, `StopAndRemove`, volumes, workload | Docker daemon |
| Redis and Sentinel client (`internal/redis`) | none | one function per command, and waits that poll | Redis, Sentinel |
| order analytics store (`internal/client/orders/store.go`, `types.go`) | 35 Redis keys | `ApplyOrder` (one Lua script), seventeen reads | Redis, through a failover client |
| order writer and processor (`writer.go`, `processor.go`) | a pool of enqueuers; an asynq server | emit, handle, shut down | asynq queue, store |
| order analytics API (`api.go`) | none | one handler per read | store |
| workload client (`cmd/russ-client`, `internal/client/discover.go`) | the modes of one process | discover the master, run the parts, stop them | sentinels, the three above |
| observability (`cmd/obs.go`, `internal/docker/obs.go`) | three containers | `obs start`, `obs stop` | Docker |
| rendering, flags | none | printing | - |

The hard behaviour is of three kinds.  A command is a sequence of calls to
Docker, Redis instances and sentinels, with waits in between and no rollback; it
can fail or be interrupted anywhere, and the next command finds what it left.
Sentinels act on their own, on views that lag: they discover replicas through
the master's INFO, elect by the replica-priority they last read, switch the
master, re-attach replicas that follow somebody else, forget everything at a
RESET.  The stage on file is advanced after the fact and several russ
processes may share it.  And the workload runs through all of that: its queue
and its aggregates live on the cluster that is failed over under it.

What would make each component correct:

- FSM: no stage is recorded before the one it follows; one operator only moves
  forward; a torn file is not mistaken for a stage.
- upgrade commands: before the operator commits with `promote-v8` a failover
  stays on Redis 6; afterwards it takes a Redis 8; reconciliation leaves no
  chained replica; the current master is not removed; `V6Destroyed` is recorded
  when no v6 is left; each stage means what its comment says.
- sentinel fleet: every cluster that is advanced is monitored by the new
  sentinels, with the quorum of the fleet; removing sentinels leaves a majority.
- cluster life: whatever failed before, ports, names and data volumes stay
  apart; what a command removes or provides when it succeeds is complete.
- analytics: counters and leaderboards are what the applied orders add up to;
  a trimmed leaderboard keeps the leaders; a response mixes states of the
  dataset only in ways that do no harm.
- queue: an order that was accepted is applied or known to have failed, not
  more often than there was trouble; what is settled stays settled.
- workload process: its parts end together, in order, and when told to.

`PROJECT.json` lists the hazards of each, at the line where they bite.

## 2. Modules

| Module | Models | |
|---|---|---|
| `UpgradeFSM` | stages, triggers and edges of `configure` | constants only |
| `Lifecycle` | what the state file promises | abstract specification |
| `Replication` | Redis instances and the sentinels' views of them | external to the repository |
| `Upgrade` | `instance add`, `instance rm`, `promote-v8`, `failover`, `isolate-v6-replicas`, `Fire`, `Save` | composes the two above; implements `Lifecycle` |
| `MCUpgrade` | instances for TLC | |
| `UpgradeProofs` | theorems about `Upgrade` | |
| `OneOperatorProofs` | theorems about `Upgrade` with one command at a time | extends `UpgradeProofs` |
| `SentinelFleet` | `sentinel add` and `rm`, registration, quorum, `advanceClustersInState`; the part of `cluster create` and `rm` that concerns sentinels and state files | shares `UpgradeFSM` |
| `ManagedLifecycle` | `Lifecycle` with files created and deleted | abstract specification |
| `FleetHistory` | `SentinelFleet` with the history of each file | implements `ManagedLifecycle` |
| `MCSentinelFleet`, `MCFleetHistory` | instances for TLC | |
| `FleetProofs` | theorems about `SentinelFleet` and `FleetHistory` | |
| `FleetOperatorProofs` | theorems about `SentinelFleet` with one command at a time | extends `FleetProofs` |
| `DockerHost` | names, listings, ports, what Docker accepts | constants only |
| `Containers` | all commands as the Docker calls they make | extends `DockerHost` |
| `ContainersProofs` | theorems about `Containers` | |
| `Orders` | an order, its amounts, its labels | constants only |
| `OrderStore` | the dataset, the script, the answers of Redis | extends `Orders` |
| `Analytics` | store, replica, clock and one API request at a time | extends `OrderStore` |
| `AnalyticsProofs` | theorems about `Analytics` | |
| `OrderQueue` | one task from `emit` to its end, across failures | |
| `OrderQueueProofs` | theorems about `OrderQueue` | |
| `ClientProcess` | the russ-client process from discovery to exit | |
| `ClientProofs` | theorems about `ClientProcess` | |
| `MCContainers`, `MCAnalytics`, `MCOrderQueue`, `MCClientProcess` | instances for TLC | |

The modules meet at the state they share: the stage on file (`Upgrade`,
`SentinelFleet` and `FleetHistory` all save it, `Containers` has its
existence), the sentinels (`Replication` has their views, `SentinelFleet` what
they monitor, `Containers` their containers), an apply (`OrderQueue` counts
what `Analytics!ApplyOrder` does) and the end of the process (`ClientProcess`
is the `Exit` of `OrderQueue`).

**Replication.** `version`, `upstream` and `prio` are the configuration of the
instance on a port, `down` the unreachable ones; `master[s]`, `known[s]`,
`cached[s]` and `electing[s]` what sentinel `s` believes.  `Discover`,
`Refresh`, `Elect`, `FinishFailover`, `AbandonFailover`, `Hello` and `Reattach`
are what a sentinel does unasked.  Redis and Sentinel are not part of the
repository; these actions contain what the comments of `client.go`,
`sentinel.go` and the README rely on.  `Elect` is deliberately loose: a
replica that lost its master stays eligible for a while, so it may be elected,
but only a replica attached to the master and able to sync (`SureCandidates`)
is certain to be considered.  `Hello` passes a newer view on; `Reattach` waits
until no view is newer and no failover runs, which stands for the hello periods a
sentinel lets pass before it reconfigures a replica.  `ReplicaOf` and `SentinelReset` are the commands
of `client.go`; actions of the russ commands combine them.

**Upgrade.** A command is a record `cmd[r]` of process `r`: a program counter
and its local variables.  A step is what happens between two waits or two
writes; the sentinels, the instances and other processes act between steps.
`Abort` can end a command before any step, for a call that fails, a wait that
times out or a killed process, and like the code it undoes nothing.  A command
that fires a trigger decides it on the stage it loaded when it started, and
saves the successor at the end with `Truncate` and `Write`, the two steps of
`os.WriteFile`; death between them leaves the file `torn`.  Errors the code
ignores (RESET, the wait of `instance add` for the sentinel, REPLICAOF NO ONE
in `instance rm`, unreachable replicas in the reconciliation) are
alternatives of the step, not aborts.  A RESET goes from sentinel to sentinel
(`resets`), one step each.  The last wait of the reconciliation
(`sentinel.go:328-335`) sees the instances one after the other
(`ReconcileSee`, `seen`): one that was seen linked may be gone again when the last
one is.  The listing after a removal (`RmList`) and the load of the stage that
follows it (`RmAdvance`) are two steps.  `reached`, `promoteRan`, `misread`,
`exempt` and `retired`, and the fields `skipped`, `term` and `checked` of a
command, are ghosts: no action's guard reads them.

**SentinelFleet.** `sentinel[p]` is the version of the sentinel container on a
port, `watches[p][c]` the quorum with which it monitors a cluster (0 if it does
not), `exists[c]` that the cluster has containers, `file[c]` its state file
(`missing`, `torn` or a stage).  A step is one call to one sentinel, in port
order as `ListContainers` sorts, or one write.  `Call(lost)` is a call whose
error the code logs or drops; a call whose error ends the command is an
`Abort`.  `MaxFaults` bounds the former, the latter is always possible.  The
new ports are any free ones, since `--port-range` chooses.  The commands that
bring a cluster to `V6Destroyed` are one step each (`ClusterCommand`): their steps are
those of `Upgrade`, and here only the file they leave matters; all but
the `instance rm` that fires `DestroyV6` need a sentinel that monitors the
cluster.  In `ManagedLifecycle`, the abstraction of one cluster's file, `Create` overwrites
whatever stage is there, as `cluster create` does with a file that outlived its
containers, and a removal forgets nothing of what was reached: a command that
loaded the stage before `cluster rm` deleted the file saves its successor
afterwards (`sentinel.go:356`), and nothing in the code prevents it.  What is left
to refute is a stage that appears without its predecessor.
The address a sentinel reports is left to `Replication`.  A container
that was created and did not start is a sentinel that does not answer.

In `Upgrade` the fleet is fixed and all sentinels monitor the cluster, as
`cluster create` leaves them.  The wait of `instance add` for the sentinel to
see the replica is left out: its failure is only logged.

**Containers.** `ct` maps the names of the containers to their role, whether
they run, the data volume their label names and who created them; `vols`,
`net`, `files` and `monitors` are the rest of what commands leave behind, and
`bare` the volumes Docker made with a container because they had been removed
in between: these have no label of russ, and `destroy` does not list them.
`op[p]` holds the tasks process `p` has still to do: a command checks what the
code checks and replaces itself by the tasks that follow, a task is one or a few
calls.  Loops are lists of tasks or tasks that put themselves back:
`cluster create` takes its ports one by one, each from a listing of its own;
`sentinel add` starts `--count` sentinels; a cluster is registered with, and
forgotten by, one sentinel after the other.  `Fails` says what an error does
where it happens: it ends the command, is logged, or is dropped.  `CallFails`
makes any call fail, `Interrupt` ends a command anywhere, and `Exit` stops any
container that runs: its process ends, somebody stops it, the host goes down.
Whether Docker starts it again is left out (only the exporter and the workload
have a restart policy); what counts is that the next command may find it
stopped.  A call also fails by itself when Docker refuses it: a name in
use, a published port in use, a volume in use, no network; so does a call to a
sentinel that is down or has a master of that name.  A listing shows
containers in every status, as the code asks.  `used`, `leaked`, `cut` and
`raced`, and the fields `clean`, `alone`, `steady`, `seen` and `claims`, are
history.  Failovers are left to `Upgrade`: a monitor keeps the port it was given, and
`instance add` finds the container of that port in any status (the model does
not wait for it to answer, the code does, so it may go on where the code would
fail).  `sentinel add` registers nothing here: only `--version=8` does, which is
`SentinelFleet`.

**Orders, OrderStore, Analytics.** A dataset is a record; `Apply` is the script,
one step as Redis runs it.  Two tables per dimension (count and revenue) stand
for the sorted sets and hashes by state, zip, customer, product, category,
hour, day, value and cart size.  Money is in cents.  `replica` is what the
replica has, `Failover` makes it the master's dataset.  A request is the list
of commands its handler sends; orders may be applied before each of them,
since neither a pipeline nor several calls are one step for Redis.  A sorted
set leaves the order of equal scores open, except on the leaderboards, whose
members are the snapshots.  Unique customers are counted exactly; the real
HyperLogLog is not, and `SummaryCoversOrders` speaks of the customers under that
idealisation.  A pair of SKUs counts once for each two lines of an order, as the
script does it (see the end of section 3).  `log` is the history of the orders the dataset has seen.

**OrderQueue.** Per node and order, the task and how often the order was
applied there.  The writer, the asynq server and the store each write to the
node their own connection takes for the master (`view`).  An error may mean
that nothing happened or that only the reply was lost; a script whose sender
gave up is in `flight`.  asynq, replication and the failover are modelled from
how the repository uses them.

**ClientProcess.** One variable per goroutine: the writer's coordinator and its
enqueuers, `Processor.Run` and the goroutine inside asynq's `Run`, the API
server, main.  A signal reaches the context and asynq, in either order, also
before asynq has registered its handler, where the real process would only see the
one at the context; asynq's SIGTSTP, which stops the server taking tasks, is left
out.

## 3. What is checked

Deadlock is checked in the fleet runs.  Elsewhere the bounds end the behaviour
(`Upgrade`, `Containers`, `Analytics`, `OrderQueue`) or the process does
(`ClientProcess`).

| Run | Bounds | Question |
|---|---|---|
| `operator` | 3 ports (v6 master, v6 replica, one free), 1 sentinel, 1 process, 1 instance added, 1 failover, 1 outage | one operator, any order of commands, any of them dying at any step |
| `refailover` | as above with 2 sentinels and 2 failovers, no outage, no removal | sentinels that come to know of a failover at different times; late and repeated failovers; chains of replicas |
| `race` | 2 ports, 2 processes, 1 failover | concurrent russ processes over one state file |
| `fleet_operator` | 3 sentinel ports, 2 clusters (interchangeable), 1 process, up to 2 sentinels per `add`, no failing call | one operator, any order of sentinel and cluster commands, any of them dying at any step |
| `fleet_race` | 1 sentinel port, 1 cluster, 2 processes, 1 failing call | what is on file when sentinel and cluster commands overlap |
| `containers` | 2 clusters, 3 Redis ports, 2 sentinel ports, 3 commands in all, of 17 of one operator and 2 of a second one who creates, 1 fault (a call, an interruption or an exit) | what commands leave on a Docker host |
| `obs_found` | `obs start` and `obs stop`, 1 fault | the parts of the stack it finds |
| `store` | 3 orders, 4 applications, 5 hours, limits of 2, buckets that live 3 hours, 1 failover, 1 eviction | the dataset against the orders it has seen |
| `reads` | 2 orders an hour apart, 2 applications, 2 hours passing, buckets that live 2 hours, 1 eviction, 1 failover, one of 13 requests, any command of it failing | what a response shows |
| `order_queue` | 1 order, 2 workers, 2 nodes, 1 retry, 3 troubles (faults, restarts, failovers) | where an order may end up |
| `client` | 2 clusters, 2 sentinels, 2 enqueuers, 2 workers, 1 request | every mode, from discovery to exit |

`MaxRetired` bounds the ports an instance is removed from: all three, but one
in `race` and none in `refailover`, whose question is about views and not about
removal.  In `refailover` the second sentinel reads no priorities (`FirstLeads`):
without outages every failover is started through the first one, and nothing else
looks at what a sentinel has read.  The theorems have no such bounds.  In `operator` the instance that is added may take the port of a
removed one, whose priority the sentinel may still have cached.

Properties of the passing runs:

- `NeverMovesBack`: a single operator's state file implements
  `Lifecycle!SequentialSpec`, one edge at a time, through every crash.
- `ImplementsLifecycle`: with any number of processes the file implements
  `Lifecycle!Spec`.  It may move back (a late save overwrites a later stage);
  it never records a stage whose predecessor was not reached (`NoStageSkipped`).
- `StaysWithinV6`: until a `promote-v8` was accepted, an election takes a v6
  instance if the leading sentinel surely has a v6 candidate.  Two exceptions
  are in the statement because the code has them: a port an instance was
  removed from (a sentinel may still hold the priority of its predecessor) and
  an `instance add` that read a torn state file, which it takes for a late stage.
- `V8WinsFailover`: with `V8Prioritized` on file, an election through
  `sentinels[0]` takes a v8 if it surely has one.  This is what the wait for the
  observed priorities is for.  The other sentinels are not waited for.
- `FlatBeforeFailover`: when reconciliation is done, every instance it could
  reach is a direct replica of the master it read, whatever the sentinels demoted
  or re-attached meanwhile with the views they had.  Excepted are a failover that
  started in between and a sentinel that has another master at the end: the code
  asks one sentinel, the first that answers, and rewires to a master another one
  may already have replaced.
- `DestroyedWhenGone`: with one operator, no v6 container exists when
  `V6Destroyed` is recorded.
- `TypeOK`, `PersistedInv`, `MixedRegime`: the invariants the proofs use.
- `QuorumAgrees`: between undisturbed commands all sentinels that monitor a
  cluster hold the same quorum for it.  It need not be the right one, see below.
- `WatchedExists`: no sentinel monitors a cluster without containers, through
  interrupted commands too, unless a call to a sentinel failed.
- `RegisteredWhenAdded`: when `sentinel add` saves `V8SentinelsAdded` and an
  earlier sentinel monitors the cluster, all new sentinels do, and every
  sentinel that monitors it has the majority of the whole fleet as quorum.
- `NoV6SentinelWhenDone`: `sentinel rm` saves `Done` only without a v6 sentinel.
- `FilesImplementLifecycle`: every file implements `ManagedLifecycle`.
- `VolumesOwned`, `NewInstanceIsEmpty`: a data volume belongs to a container, or
  is about to, unless a call on it failed; a new instance starts on an empty one
  even when port and name are reused, with the same exception.
- `PortsUnique`, `OneMaster`: no port and no role of master is given twice, also
  not by commands that follow one that failed half way.  Two commands that
  allocate the port or create the cluster at the same time are excepted: the
  check and the creation are apart (`manager.go:237`).
- `RmIsComplete`, `DestroyIsComplete`: what `cluster rm` and `destroy` leave when
  none of their calls failed and nobody else was at work, whatever happened
  before.  `destroy` may be declined, and then leaves everything.
- `ObsIsUp`: likewise, `obs start` leaves all three containers.  If none exited
  meanwhile, Grafana runs, since it is replaced; Prometheus and the exporter run
  or are as an earlier exit, failure or interruption had left them.
- `QuickstartDelivers`: likewise, `quickstart` leaves the stack, the workload, as
  many sentinels and instances as it prints, every sentinel monitoring the
  cluster, all of it running but for what exited meanwhile, and nothing else.
- `BoardsAreTop`: each trimmed leaderboard holds exactly the best of all orders
  the dataset has seen.
- `TotalsAgree`, `SplitAgrees`: totals, tables and the two halves of new and
  returning agree with the orders applied and with each other.
- `WindowHoldsOrders`: what a timeseries can show has not expired.
- `PairsExactUntilCap`: pair counts are exact until more pairs than the cap
  were seen; afterwards they only fall short.
- `SummaryCoversOrders`: the count comes first, so sums and averages never fall
  short of the orders counted, while the master stays.
- `TotalsWithinReads`: the parts of a split, histogram or heatmap add up to a
  number of orders the store had between the request and the response.  Those of
  a timeseries never add up to more, and to no fewer as long as every order's
  hour is asked for, has stayed in the window and was not evicted (`WholeShown`).
  The run has requests that show all hours and one that does not, hours that pass
  in the middle of a read, and evictions.
- `RowsComplete`: a ranked row has both its numbers and its description.
- `CompletedIsApplied`: a completed task was applied.  Excepted are orders
  applied on one node and acknowledged on another, or after a resynchronisation.
- `AppliedOncePerTrouble`: an order counts once, and once more per trouble: the
  store keeps no ids, processing is at least once.
- `SettledStays`: the late report of a worker changes nothing that is settled.
- `EveryOrderSettles` (liveness): an order the writer counts as enqueued is
  completed or archived, or was lost in a failover.
- `NoPartEndsQuietly`, `EndsWhenTold` (liveness): no part of the process ends and
  leaves the others; once told to, the process ends.
- `ExitIsOrderly`: at the exit no enqueuer is at work and no worker holds a
  task.  Excepted are an exit after a signal, where asynq's own handler may have
  called `Shutdown` first so that the second call does not wait, and a server
  that starts after the context has ended.

The bounds are the smallest in which the cases above occur: three ports give a
v6 and a v8 candidate next to the master, and one instance chained behind
another; a second failover makes the first one's leftovers visible; two
sentinels are enough for a stale and a fresh view; two processes for a stale
stage.  `race` has no replica at the start: the second instance is added.
Three sentinel ports give a fleet that outlives a removal and has members with
and without a cluster; two clusters at different stages meet in one `add`.
`fleet_race` needs one port only, because its property is about files: a
sentinel of each version comes and goes on it.

In `containers` two clusters compete for three ports, so that an instance
can get the port of a removed one or of another cluster; the fault may hit the
first command and the third then meets the debris.  `quickstart` starts two
sentinels and three instances, so that what it prints is counted, and the two
sentinels make the loops over them stop in the middle.  What follows when another
command runs beside `quickstart` is not explored (`QuickstartAlone`): the commands
it consists of meet each other without it, and `QuickstartDelivers` is about one
that runs alone.  In `store` the limits of 2
are below the number of orders and pairs, and the clock passes the life of a
bucket.  In `reads` the two orders are an hour apart and the clock moves twice,
past the window and past the life of a bucket.  Five kinds of request are not among the thirteen (`TopCategories`,
`AOVByState`, `DayOfWeek`, `ValueDistribution` and the other boards): each sends
the commands of one that is.  In `order_queue` orders do not interact, the
two workers are for one order taken twice; three troubles are, say, a timeout, a
failover and a restart.  Two enqueuers make the pool's target move.

Fairness is assumed in the last two runs only.

- `order_queue`: the server works as long as the process is up, and asynq's
  shutdown ends; Docker restarts the container (`docker/client.go:96`); the
  sentinels finish a failover, and the clients follow it.
- `client`: every goroutine runs on.  `WriterStops` is strongly fair because
  Go's `select` picks among ready cases at random, so that a context that has
  ended is chosen at last against a ticker.  The fill loop (`writer.go:130-134`)
  does not look at the context: it ends when the pool reaches its target, and
  enqueuers of an ended context end at once.  That it does not lose this race
  for ever is the strong fairness of `Filled` and of `Submit` at each size.  No
  handler or request is assumed to return: asynq's grace period and the API's
  end without them.

### Statements of the documentation the code does not keep

Two runs show such a statement violated.  `partial_promote` checks
that a failover in `MixedVersions` stays within v6 (`store.go:18-20`) and finds it violated: `promote-v8` dies after a `CONFIG
SET`; the stage is unchanged and a v8 is at priority 1.  `obs_found` checks that
the parts `obs start` finds are running (`docker/obs.go:233` and `276`): a
Prometheus that exited, or whose start failed after it was created, is in the
listing, which asks for every status (`manager.go:691`), and is passed over; its
reload fails and is only logged (`cmd/obs.go:96-104`).

Others were seen while modelling and have no run.

- In `FailoverComplete` a v8 was promoted (`state/store.go:26`): when the v8
  instances are removed after `promote-v8`, a v6 wins and the stage advances.
- In `ReplicationBroken` the v6 are disconnected (`state/store.go:28`) and
  failover is safe in any state (`cluster.go:73`): its reconciliation attaches
  an isolated v6 to the v8 master again.
- The master cannot be removed (`instance.go:45`): a failover started earlier
  may finish between the check and the removal.
- The right quorum is pushed for every cluster any sentinel monitors
  (`sentinel.go:244-246`): for those the sentinel with the lowest port monitors.
- The last v6 sentinel's removal leads to `Done` (`README.md:308`): any v6
  sentinel's does, if Docker then fails to list the others.
- `instance add --version=6` does not look at the stage, so `V6Destroyed` may
  have a v6 instance again (`state/store.go:30`).
- `sentinel add` recalculates quorums only for `--version=8`, and only those of
  clusters in `V6Destroyed` (`README.md:704` says whenever the fleet changes).
  It advances these clusters also when no earlier sentinel was there to report
  their master, so that none was registered (`sentinel.go:27`);
  `RegisteredWhenAdded` states what does hold.
- Two orders of commands cannot reach `Done`: removing the v6 instances before
  `isolate-v6-replicas`, or the last v6 sentinel before `V8SentinelsAdded`, leaves
  no later removal to fire the trigger.
- `destroy` removes all russ resources (`destroy.go`): without a container it
  returns at once, and a leaked volume, a state file and the network stay; with
  containers it deletes the state only of clusters that have one.
- Every pair of distinct SKUs of an order gets +1 (`orders/store.go:229-231`):
  it gets one for each two lines, so an order that names a SKU twice adds more.
- The caller always sees both numbers (`orders/store.go:398-401`): when the
  second command fails its error is dropped and the number is 0.
- A payload is discarded once its handler returns (`README.md:349`): the writer
  sets a retention of 15 minutes.
- `volatile-lru` pairs naturally with the hour buckets (`README.md:151`): they
  are the only keys of the aggregates it can evict, so a full instance loses
  the timeseries and then refuses orders.
- `NewProcessor` fills in a timeout and a number of retries that nothing reads.
- `client workload start` for a second cluster publishes port 9300 again; the
  start fails and the created container stays.
- The `api` command reports an error when it is stopped by a signal.

## 4. What is proved

`UpgradeProofs` holds for every finite or infinite set of ports, sentinels and
processes and every bound, from the assumptions the modules declare:
`PortAssumption` (the initial instances are on ports, `NoPort` is not one),
`BoundAssumption`, `CommandBounds` and `FirstAssumption` (`First` is a
sentinel).  `FleetProofs` likewise, from `PortsAreNumbers` (finitely many
sentinel ports, which are numbers) and `FleetBounds`.

- `TypeCorrect`, `StagesPersisted`.  `TypeOK` is not inductive alone: that
  `Write` saves a stage needs the fact that a command at the write carries a
  trigger.  `Consistent` conjoins `PersistedInv`: every command is `Entitled`
  to the trigger it carries, since its source stage was on file.
- `PersistedLifecycle`: `Spec => ImplementsLifecycle`.  Only `Truncate` and
  `Write` touch the file; `Truncate` maps to `Tear`, `Write` to `LateAdvance`
  because the command is entitled, everything else to a stutter.
- `RegimeHolds`: `MixedRegime` is inductive relative to `Consistent`.  The three
  facts that carry it are that `instance add` chooses the priority from a stage
  in `AllV6` or `MixedVersions` as long as no `promote-v8` was accepted, that a
  write under the regime can only save `MixedVersions`, and that a sentinel
  caches either nothing or what the instance is configured with.
- `FailoversStayWithinV6`: `Spec => StaysWithinV6`, from `RegimeHolds`: an
  election takes the lowest cached priority, which under the regime is the
  v6 instances' 100.

`OneOperatorProofs` adds the hypothesis `OneOperator`: `Proc` has at most one
process, so that commands follow each other (each may still die at any step)
while instances and sentinels act in between.  Without it these are false:
a second command may change, between two steps of the first, what the first
has read.  The number of instances and sentinels stays arbitrary.

- `FailoverTakesV8`, `V6GoneWhenDestroyed`, `MovesForwardOnly`: `OperatorInv` is
  inductive relative to `Consistent`.  `Instances` says what the priorities are:
  an instance that is not v8 is at 100 (`DefaultKept`), `sentinels[0]` has read
  nothing else from one on a port never reused (`CachedSound`), and while
  `V8Prioritized` is on file every v8 is at 1 and the sentinel has read 1 or
  nothing (`Prioritized`).  `Plan` says what a command knows: the stage its
  trigger leaves is still on file (`Firing`), an `instance add` carries the
  priority of the stage on file (`Adding`), `promote-v8` has set what it has
  done so far and lists every v8 but the master (`Promoting`).  Its last wait
  turns that into `Prioritized` before the stage is written.  Later elections,
  resets and removals are `Calm`: they change no priority, and what the sentinel
  reads is what is configured.  An election then takes 1 before 100.
- `ReconciledIsFlat`: `Spec => FlatBeforeFailover`, for any number of sentinels.
  `FlatInv` has two parts.  `Views`: one failover runs at a time, and no sentinel's
  view is newer than the last of them.  `Flat`: as long as no failover started
  since the command read the master, either every instance it is done with and
  could reach follows that master (`HandledFollow`), or a sentinel with the newest
  view has another master and no failover is under way, so that no hello will
  change its mind and the sentinels do not all agree on that master at the end
  (`Outvoted`).  A sentinel moves an instance only when it
  finishes a failover or when no view is newer than its own and none is under way:
  if it has another master than the command, that is the second case.

`FleetProofs` about the files and types, for any number of processes:

- `FleetTypeCorrect`: `SentinelFleet!Spec => []TypeOK`.  The finite ports are
  what makes a majority a number.
- `FilesManaged`: `HistorySpec => FilesImplementLifecycle`.  `HistoryInv` adds to
  the types that the history has every stage on file (`HistoryKept`), and that
  every command on its way to a write has earned what it will save
  (`SavesEarned`): the stage of a new cluster, or the successor of a stage that
  was on file.  The history only grows, so what was earned stays earned whatever
  the other processes do; `FileSteps` sorts all steps into four kinds and
  `StepImplements` maps each kind to a step of `ManagedLifecycle`.

`FleetOperatorProofs` adds the hypothesis `OneOperator` for the fleet: there is
exactly one process, whose commands follow each other and may die at any step.
Nothing is claimed for two commands at a time: the fleet one has listed may be
changed by the other before it sets a quorum.  Ports, clusters and faults stay
arbitrary.

- `OneQuorum`, `MonitoredExists`, `AddedMeansRegistered`, `DoneMeansNoV6`:
  `OperatorInv` is inductive relative to `TypeOK`.  Its parts hold under
  different conditions, as the properties do.  Always: a port without a sentinel
  monitors nothing (`Silent`), and the locals of a command fit where it is
  (`Shape`).  As long as no call failed, also after commands that died: what
  `cluster create` and `cluster rm` rely on, and that a command about to record
  `Done` has seen that no v6 sentinel is left (`Known`).  As long as no command
  died either: all quorums agree, except that of the one cluster the command
  `Attends` to, and of that it says how far the loop is (`Agreed`): which
  sentinels still hold the old quorum, and which clusters `sentinel add` has
  still to register on its new ones.  That the fleet listed is still the fleet
  when the quorum is set is `l.list = Fleet`.

`AnalyticsProofs` holds for every finite or infinite set of orders, every limit
and every lifetime, from `OrderAssumption`, `LimitAssumption`,
`WindowAssumption` (the window is not longer than the buckets live) and
`RequestAssumption` (rankings are by one of the two numbers of a dimension that
has both, heatmaps by hour or day, histograms by value or cart size, a timeseries
of at least one hour, which is all `api.go` and `store.go` allow) and `CalendarAssumption` (a day has hours and a week has
days).  `OrderAssumption` is what `newOrder`
(`writer.go:231-273`) and the catalog guarantee: finitely many lines, each with
a SKU, a quantity of 1 to 3 and a price of at least $1.99; an id of its own; and
a name for whatever the order is counted under.

- `BoardsTheorem`, `SplitTheorem`, `WindowTheorem`: the invariant `IInv` says the
  three of both datasets, each with its own history: a failover makes the
  replica's the master's.  That trimming after every addition keeps the top of
  everything ever added is `TrimKeepsTop`: an order that was trimmed has the
  limit's number of orders above it, and `Above` is transitive.  For the window
  the invariant also says that no bucket expires before the clock has left the
  hours a timeseries shows.

- `TotalsTheorem`: the community modules' `SumFunctionOnSet` takes the elements
  in an arbitrary order, fixed by a `CHOOSE`.  The first section proves what every
  order gives: it exists and is unique (`SolutionExists`, `SolutionsAgree`), one
  element more adds its value (`SumInsert`), and sorting by a label and summing
  label by label is the same sum (`SumFibers`).  These are inductions over the
  parts of one finite set, by way of a least counterexample.  From them
  `ContributionSum`: what an order adds to a table sums to one order, its
  total, its units or its subtotal.  `TotalsInv` adds to `TotalsAgree` that the
  counter of items is the units of the history, which `lineItems` equal to the
  product table does not say.
- `PairsTheorem`: `PairsInv` says that every pair kept was seen and that only
  finitely many were.  As long as the pairs seen fit below the cap a trim takes
  nothing away (`TrimPairsFits`).  Beyond the cap a pair may be trimmed and come
  back with a lower count; the proof needs only that no count is ever too high.
- `RowsTheorem`: `TableInv` says that a label ranked by one number has the other
  and a description, and that every number is positive, so that 0 means missing.
  `RowsInv` follows a ranking: once it has its first answer the dataset `Holds`
  whatever it has yet to ask.  It keeps holding it because tables only grow while
  the master stays.  After a failover the read's `epoch` is behind for good.
- `SummaryTheorem`: `CoverInv` says of a summary how far it is in the commands it
  has to send (`Plan`), and that the orders its first answer counted are a prefix of the history.
  Whatever it reads later is a sum over the whole history (`TotalsInv`, the
  split), and a prefix sums to no more (`Prefix`).
- `TotalsWithinReadsTheorem`, for a split, a histogram or a heatmap: these ask for
  single numbers that only grow while the master stays (`ShownGrows`).  `TallyInv` says that
  each answer lies between what the master showed when the request came and what
  it shows now.  What is shown sums to the orders applied, before and now
  (`ShownSum`): every order is counted under a label that the request asks for
  (`LabelInv`: the labels of `types.go` and the lists the reading side goes
  through agree), and under no label twice.
- `SeriesTheorem`, and the rest of `TotalsWithinReadsTheorem`: the remaining kind of request that
  `TotalsWithinReads` is about, a timeseries, loses orders when an hour leaves
  the window or is evicted before its bucket is read, so each bucket is compared
  with its own hour.  `SeriesInv` says of every answer that it is no more than the
  orders of its hour and, while that hour is in the window and not lost, no fewer
  than it had when the request came (`ShowsHour`); new orders only add to an
  hour and time only takes hours out of the window (`ShownHourStays`).  Buckets
  of hours in a row hold no order twice (`BucketSum`), so the sum is never too
  high, and it is not too low either when every hour that had orders is asked
  for, stays in the window and is not evicted (`WholeShown`).

`ClientProofs` holds for any number of enqueuers, workers and requests.

- `PartsEndTogether`, `OrderlyExit`: `ProcessInv` says why each part has ended
  (`EndsForAReason`), what a part that has ended holds (`NothingHeld`), and that
  nothing moves before the start and after the exit (`Framed`).

`OrderQueueProofs` holds for any number of orders, retries and troubles and any
finite number of workers, from `QueueAssumption` (a master and one replica).

- `CompletedApplied`, `OncePerTrouble`, `SettledTasksStay`: an order may be
  applied by a worker that has it in hand, by a request that was sent and not
  yet answered, or by a later delivery from the queue the server uses.
  `TroublePays` counts all of these: what was applied, plus `InHand`, plus
  `Underway`, plus `Chances`, never exceeds one plus the troubles that happened.
  A step that raises one term lowers another or is a trouble.  `Chances` looks
  at the queue of the node the server follows, and at the queue of the new
  master as long as the server has not followed a failover.  `DoneIsApplied` says that a worker about to
  report success did apply, and `NewOnesAreNew` that a task not yet enqueued is
  on no node.

`ContainersProofs` holds for every set of processes and every set of commands
they may be given, for any number of faults, from `PortAssumption` (the two port
ranges are finite sets of positive numbers and do not overlap),
`ClusterAssumption` (a cluster's name is not a port), `VolumeAssumption`
(`NoVolume`, which stands for no volume, names none) and `CommandAssumption`
(the commands are those russ has, and `--count` is at least 1, which
`cmd/cluster.go:167` checks).

- `PortsStayUnique`, `OneMasterPerCluster`: neither is inductive, because a port
  is allocated, and a cluster found absent, long before the container exists.
  What a container is `Held` to have (its port, and its cluster if it is
  labelled master) a task `Holds` before.  `ClaimsKept` says that a command's
  tasks hold only what it has claimed, no two of them the same, and that two
  commands claim the same only if they `raced`; `ClaimsFree` that no container
  has what a task holds, except the one this task has just created; `HeldOnce`
  then follows.  A list of tasks is also `Ordered`: nothing held waits behind a
  task that still allocates, or the ports that task takes might be held
  already.  A port is taken from a listing and above those the command has taken
  before, so it is none of them (`CreateAllocateKind`).
- `VolumesAccounted`, `NewInstancesAreEmpty`: `UsedKept` says that a volume that
  was written to has a container, or its removal is under way or has failed,
  and `MadeByPlan` that a container started by its creator mounts the volume
  the plan names.  `StepVolumes` sorts the steps into six kinds, of which five
  change a volume or its container, and `Carries` says of each what it leaves
  the volume with.  A second container cannot come to a written volume
  since volumes are named after the instance: it would have the same name.
- `ClusterRmIsComplete`, `DestroyLeavesNothing`, `ObsStartIsUp`: what a command
  leaves when it ran alone and no call of it failed.  `AloneInv` says that while
  such a command runs no other is at work, so every step is its own.  Each
  command has a plan (`RmPlan`, `DestroyPlan`, `ObsPlan`), one disjunct per
  phase: which tasks are left, and what is already gone, or already up, that
  these tasks do not deal with.  A removal is followed name by name (`Clears`,
  `Left`), for any set of names; `cluster rm` forgets the cluster sentinel by
  sentinel (`RmForgets`, `Watched`).  Containers may exit at any time; that takes
  nothing away but the running.  That no volume of the cluster remains after
  `cluster rm`, which removes volumes only with their containers, needs
  `VolumesAccounted` besides: alone, nobody else can be at a volume
  (`AloneVolumes`).  That only sentinels that exist monitor anything (`MonitorsInv`)
  is why the listing of sentinels finds every monitor.  A sentinel that is listed
  and down fails its removal of the cluster, and the command is not `clean`.
  `ObsStartIsUp` rests on `UpInv`, over all commands that ever ran: a container
  that does not run has exited, was cut short, or a command has it in hand.
  Grafana is no longer in hand when the command is done, and was not cut short
  since it was created, as none exited meanwhile.

Only model-checked: the liveness properties (`EveryOrderSettles`, `EndsWhenTold`),
which are out of TLAPS's reach, and `QuickstartDelivers`, which counts what six
commands in a row have started.

## 5. Not modelled

- Image pulls and builds, configuration files of Prometheus and Grafana and
  their reload, metric registration: input and output without state a later
  command depends on.
- Rendering, flags and logging; `ls`, `status`, `monitor` and `lifecycle`
  commands, which only print; the search of `WalkLifecycle` that feeds one.
- Memory limits and eviction policies, except that hour buckets may be evicted.
- The random catalog, customers, addresses and load wave: the models choose any.
  The generator the enqueuers share without a lock (`writer.go:233`) makes some
  order in any case.
- HyperLogLog's error, the concentration curve computed from the products read,
  floating-point rounding of shares, expiry of completed
  tasks, and HTTP requests cut off when the process exits.
- The length of timeouts: a wait may end at any time.

## 6. What could follow

A module that runs `Upgrade` and
`SentinelFleet` over one fleet, so that both sentinel versions take part in elections.
