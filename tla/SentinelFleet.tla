---------------------------- MODULE SentinelFleet ----------------------------
(***************************************************************************)
(* The sentinel fleet that all clusters share: sentinel add and rm, and    *)
(* the part of cluster create and rm that concerns sentinels and the state *)
(* files.  A command is a process of its own; a step is one call to one    *)
(* sentinel or one write, and a command can end before any step.           *)
(***************************************************************************)
EXTENDS Naturals, FiniteSets, FiniteSetsExt, UpgradeFSM

CONSTANTS
  Port,       \* ports of sentinels; sentinels are listed in port order
  Cluster,    \* names of clusters
  Proc,       \* the russ processes that may run at the same time
  MaxCount,   \* bound on --count of sentinel add
  MaxFaults   \* bound on calls to Docker, sentinels and the disk that fail

ASSUME PortsAreNumbers == Port \subseteq Nat /\ IsFiniteSet(Port)
ASSUME FleetBounds == MaxCount \in Nat \ {0} /\ MaxFaults \in Nat

VARIABLES
  sentinel,    \* sentinel[p]: version of the sentinel container on p, or 0
  watches,     \* watches[p][c]: quorum with which it monitors c, 0 if it does not
  exists,      \* exists[c]: containers of the cluster are there
  file,        \* file[c]: what the state file of the cluster holds
  cmd,         \* cmd[r]: the command process r is running, and its locals
  faults,      \* number of calls that failed so far
  interrupted  \* ghost: some command ended before it was done

vars == <<sentinel, watches, exists, file, cmd, faults, interrupted>>

Torn    == "torn"
Missing == "missing"   \* no file, which Load reads as InitialStage

Fleet == {p \in Port : sentinel[p] # 0}
Unwatching == [c \in Cluster |-> 0]
Watched(p) == {c \in Cluster : watches[p][c] # 0}
Files == {c \in Cluster : file[c] # Missing}
Majority(n) == n \div 2 + 1

PC == {"idle", "add_start", "register", "monitor", "set_quorum", "advance",
       "truncate", "write", "rm_unmonitor", "rm_stop", "rm_list", "requorum",
       "create_list", "create_monitor", "unwatch", "rm_containers", "rm_file"}

\* The locals of a command.  `prior`, `new` and `list` are priorSentinels,
\* newPorts and allSentinels (remaining, in sentinel rm); `cluster` is the one
\* at hand, `clusters` and `ports` what the loops have left; `last` says that
\* no v6 sentinel remains.
Command ==
  [pc : PC, version : {0, 6, 8}, count : Nat, target : Port \cup {0},
   prior : SUBSET Port, new : SUBSET Port, list : SUBSET Port, last : BOOLEAN,
   clusters : SUBSET Cluster, cluster : Cluster \cup {Missing},
   ports : SUBSET Port, trigger : Trigger, save : Stage]

Idle ==
  [pc |-> "idle", version |-> 0, count |-> 0, target |-> 0,
   prior |-> {}, new |-> {}, list |-> {}, last |-> FALSE,
   clusters |-> {}, cluster |-> Missing, ports |-> {},
   trigger |-> "AddV8Sentinels", save |-> InitialStage]

TypeOK ==
  /\ sentinel \in [Port -> {0, 6, 8}]
  /\ watches \in [Port -> [Cluster -> Nat]]
  /\ exists \in [Cluster -> BOOLEAN]
  /\ file \in [Cluster -> Stage \cup {Torn, Missing}]
  /\ cmd \in [Proc -> Command]
  /\ faults \in Nat
  /\ interrupted \in BOOLEAN

Init ==
  /\ sentinel = [p \in Port |-> 0]
  /\ watches = [p \in Port |-> Unwatching]
  /\ exists = [c \in Cluster |-> FALSE]
  /\ file = [c \in Cluster |-> Missing]
  /\ cmd = [r \in Proc |-> Idle]
  /\ faults = 0
  /\ interrupted = FALSE

At(r, pc) == cmd[r].pc = pc
Goto(r, c) == cmd' = [cmd EXCEPT ![r] = c]

\* A call fails, or it does not; its error is logged or dropped and the command
\* goes on.  Calls whose error ends the command are left to Abort.
Call(lost) ==
  /\ lost => faults < MaxFaults
  /\ faults' = IF lost THEN faults + 1 ELSE faults

\* Every other way a command ends early: an error it returns, or a signal.
Abort(r) ==
  /\ ~At(r, "idle")
  /\ Goto(r, Idle)
  /\ interrupted' = TRUE
  /\ UNCHANGED <<sentinel, watches, exists, file, faults>>

----------------------------------------------------------------------------
(* advanceClustersInState *)

\* What the command does next is to list the state files and fire t on each
\* that is in the stage t leaves.
Advancing(c, t) ==
  [Idle EXCEPT !.pc = "advance", !.prior = c.prior, !.new = c.new,
               !.trigger = t, !.clusters = Files]

\* Mutant: the trigger is fired on every cluster listed.
AdvanceClusterUnchecked(r, c) ==
  /\ At(r, "advance")
  /\ c \in cmd[r].clusters
  /\ LET l == [cmd[r] EXCEPT !.clusters = @ \ {c}] IN
       Goto(r, [l EXCEPT !.pc = "truncate", !.cluster = c, !.save = To[l.trigger]])
  /\ UNCHANGED <<sentinel, watches, exists, file, faults, interrupted>>

\* Mutant: what is saved is the trigger, not the stage it leads to.
AdvanceClusterSaveTrigger(r, c) ==
  /\ At(r, "advance")
  /\ c \in cmd[r].clusters
  /\ LET l == [cmd[r] EXCEPT !.clusters = @ \ {c}] IN
       Goto(r, IF CanFire(file[c], l.trigger)
               THEN [l EXCEPT !.pc = "truncate", !.cluster = c, !.save = l.trigger]
               ELSE l)
  /\ UNCHANGED <<sentinel, watches, exists, file, faults, interrupted>>

AdvanceCluster(r, c) ==
  /\ At(r, "advance")
  /\ c \in cmd[r].clusters
  /\ LET l == [cmd[r] EXCEPT !.clusters = @ \ {c}] IN
       Goto(r, IF CanFire(file[c], l.trigger)
               THEN [l EXCEPT !.pc = "truncate", !.cluster = c, !.save = To[l.trigger]]
               ELSE l)
  /\ UNCHANGED <<sentinel, watches, exists, file, faults, interrupted>>

AdvanceDone(r) ==
  /\ At(r, "advance")
  /\ cmd[r].clusters = {}
  /\ Goto(r, Idle)
  /\ UNCHANGED <<sentinel, watches, exists, file, faults, interrupted>>

Saved(c) == [c EXCEPT !.pc = "advance", !.cluster = Missing, !.save = InitialStage]

\* Save opens the file, which truncates or creates it; an error is logged.
Truncate(r) ==
  /\ At(r, "truncate")
  /\ \E lost \in BOOLEAN :
       /\ Call(lost)
       /\ IF lost
          THEN /\ Goto(r, Saved(cmd[r]))
               /\ UNCHANGED file
          ELSE /\ Goto(r, [cmd[r] EXCEPT !.pc = "write"])
               /\ file' = [file EXCEPT ![cmd[r].cluster] = Torn]
  /\ UNCHANGED <<sentinel, watches, exists, interrupted>>

Write(r) ==
  /\ At(r, "write")
  /\ file' = [file EXCEPT ![cmd[r].cluster] = cmd[r].save]
  /\ Goto(r, Saved(cmd[r]))
  /\ UNCHANGED <<sentinel, watches, exists, faults, interrupted>>

----------------------------------------------------------------------------
(* sentinel add *)

\* priorSentinels is empty when the listing fails.
SentinelAdd(r, v, n) ==
  /\ At(r, "idle")
  /\ \E lost \in BOOLEAN :
       /\ Call(lost)
       /\ Goto(r, [Idle EXCEPT !.pc = "add_start", !.version = v, !.count = n,
                               !.prior = IF lost THEN {} ELSE Fleet])
  /\ UNCHANGED <<sentinel, watches, exists, file, interrupted>>

\* A sentinel starts on some free port of --port-range; it monitors nothing.
AddStart(r, p) ==
  /\ At(r, "add_start")
  /\ cmd[r].count > 0
  /\ sentinel[p] = 0
  /\ sentinel' = [sentinel EXCEPT ![p] = cmd[r].version]
  /\ Goto(r, [cmd[r] EXCEPT !.count = @ - 1, !.new = @ \cup {p}])
  /\ UNCHANGED <<watches, exists, file, faults, interrupted>>

\* Mutant: the fleet as it was listed before the new sentinels started.
AddStartedStale(r) ==
  /\ At(r, "add_start")
  /\ cmd[r].count = 0
  /\ Call(FALSE)
  /\ LET l == [cmd[r] EXCEPT !.list = cmd[r].prior] IN
       Goto(r, IF l.version # 8 THEN Idle
               ELSE IF l.prior = {} THEN Advancing(l, "AddV8Sentinels")
               ELSE [l EXCEPT !.pc = "register", !.clusters = Files])
  /\ UNCHANGED <<sentinel, watches, exists, file, interrupted>>

AddStarted(r) ==
  /\ At(r, "add_start")
  /\ cmd[r].count = 0
  /\ \E lost \in BOOLEAN :
       /\ Call(lost)
       /\ LET l == [cmd[r] EXCEPT !.list = IF lost THEN {} ELSE Fleet] IN
            Goto(r, IF l.version # 8 THEN Idle
                    ELSE IF l.prior = {} THEN Advancing(l, "AddV8Sentinels")
                    ELSE [l EXCEPT !.pc = "register", !.clusters = Files])
  /\ UNCHANGED <<sentinel, watches, exists, file, interrupted>>

\* A cluster in V6Destroyed is registered if a prior sentinel reports a master.
RegisterCluster(r, c) ==
  /\ At(r, "register")
  /\ c \in cmd[r].clusters
  /\ \E lost \in BOOLEAN :
       /\ Call(lost)
       /\ LET l == [cmd[r] EXCEPT !.clusters = @ \ {c}]
              found == ~lost /\ \E s \in l.prior : watches[s][c] # 0
          IN Goto(r, IF file[c] = "V6Destroyed" /\ found
                     THEN [l EXCEPT !.pc = "monitor", !.cluster = c, !.ports = l.new]
                     ELSE l)
  /\ UNCHANGED <<sentinel, watches, exists, file, interrupted>>

RegisterDone(r) ==
  /\ At(r, "register")
  /\ cmd[r].clusters = {}
  /\ Goto(r, Advancing(cmd[r], "AddV8Sentinels"))
  /\ UNCHANGED <<sentinel, watches, exists, file, faults, interrupted>>

\* SENTINEL MONITOR fails on a master already monitored.
MonitorOn(s, c, n) ==
  watches' = IF sentinel[s] # 0 /\ watches[s][c] = 0
             THEN [watches EXCEPT ![s][c] = n] ELSE watches

Monitor(r) ==
  LET s == Min(cmd[r].ports)
      rest == cmd[r].ports \ {s}
  IN
  /\ At(r, "monitor")
  /\ \E lost \in BOOLEAN :
       /\ Call(lost)
       /\ IF lost THEN UNCHANGED watches
          ELSE MonitorOn(s, cmd[r].cluster, Majority(Cardinality(cmd[r].list)))
  /\ Goto(r, IF rest = {} THEN [cmd[r] EXCEPT !.pc = "set_quorum", !.ports = cmd[r].prior]
             ELSE [cmd[r] EXCEPT !.ports = rest])
  /\ UNCHANGED <<sentinel, exists, file, interrupted>>

----------------------------------------------------------------------------
(* The quorum, in sentinel add and sentinel rm *)

\* Mutant: the quorum is half of the fleet, without the one more.
SetQuorumHalf(r) ==
  LET s == Min(cmd[r].ports)
      rest == cmd[r].ports \ {s}
      c == cmd[r].cluster
  IN
  /\ At(r, "set_quorum")
  /\ Call(FALSE)
  /\ watches' = IF watches[s][c] # 0
                THEN [watches EXCEPT ![s][c] = Cardinality(cmd[r].list) \div 2]
                ELSE watches
  /\ Goto(r, [cmd[r] EXCEPT !.ports = rest,
                !.pc = IF rest # {} THEN "set_quorum"
                       ELSE IF cmd[r].new # {} THEN "register" ELSE "requorum"])
  /\ UNCHANGED <<sentinel, exists, file, interrupted>>

\* SENTINEL SET fails on a master that is not monitored.
SetQuorum(r) ==
  LET s == Min(cmd[r].ports)
      rest == cmd[r].ports \ {s}
      c == cmd[r].cluster
  IN
  /\ At(r, "set_quorum")
  /\ \E lost \in BOOLEAN :
       /\ Call(lost)
       /\ watches' = IF ~lost /\ watches[s][c] # 0
                     THEN [watches EXCEPT ![s][c] = Majority(Cardinality(cmd[r].list))]
                     ELSE watches
  /\ Goto(r, [cmd[r] EXCEPT !.ports = rest,
                !.pc = IF rest # {} THEN "set_quorum"
                       ELSE IF cmd[r].new # {} THEN "register" ELSE "requorum"])
  /\ UNCHANGED <<sentinel, exists, file, interrupted>>

----------------------------------------------------------------------------
(* sentinel rm *)

SentinelRm(r, p) ==
  /\ At(r, "idle")
  /\ sentinel[p] # 0
  /\ \E lost \in BOOLEAN :
       /\ Call(lost)
       /\ Goto(r, [Idle EXCEPT !.pc = "rm_unmonitor", !.target = p,
                               !.version = sentinel[p],
                               !.clusters = IF lost THEN {} ELSE Watched(p)])
  /\ UNCHANGED <<sentinel, watches, exists, file, interrupted>>

RmUnmonitor(r, c) ==
  /\ At(r, "rm_unmonitor")
  /\ c \in cmd[r].clusters
  /\ \E lost \in BOOLEAN :
       /\ Call(lost)
       /\ watches' = IF lost THEN watches ELSE [watches EXCEPT ![cmd[r].target][c] = 0]
  /\ Goto(r, [cmd[r] EXCEPT !.clusters = @ \ {c}])
  /\ UNCHANGED <<sentinel, exists, file, interrupted>>

RmStop(r) ==
  LET p == cmd[r].target IN
  /\ At(r, "rm_unmonitor")
  /\ cmd[r].clusters = {}
  /\ sentinel[p] # 0
  /\ sentinel' = [sentinel EXCEPT ![p] = 0]
  /\ watches' = [watches EXCEPT ![p] = Unwatching]
  /\ Goto(r, [cmd[r] EXCEPT !.pc = "rm_list"])
  /\ UNCHANGED <<exists, file, faults, interrupted>>

\* Mutant: only the first of the remaining sentinels is asked for its version.
RmListFirst(r) ==
  /\ At(r, "rm_list")
  /\ Call(FALSE)
  /\ Goto(r, [cmd[r] EXCEPT !.pc = "requorum", !.list = Fleet,
               !.clusters = IF Fleet = {} THEN {} ELSE Watched(Min(Fleet)),
               !.last = cmd[r].version = 6 /\ (Fleet = {} \/ sentinel[Min(Fleet)] # 6)])
  /\ UNCHANGED <<sentinel, watches, exists, file, interrupted>>

\* The remaining sentinels, and the clusters the first of them monitors.  When
\* Docker does not answer, `remaining` is empty and no v6 is found in it.
RmList(r) ==
  /\ At(r, "rm_list")
  /\ \E lost, mute \in BOOLEAN :
       /\ Call(lost \/ mute)
       /\ LET left == IF lost THEN {} ELSE Fleet IN
            Goto(r, [cmd[r] EXCEPT !.pc = "requorum", !.list = left,
                      !.clusters = IF mute \/ left = {} THEN {} ELSE Watched(Min(left)),
                      !.last = cmd[r].version = 6 /\ \A s \in left : sentinel[s] # 6])
  /\ UNCHANGED <<sentinel, watches, exists, file, interrupted>>

Requorum(r, c) ==
  /\ At(r, "requorum")
  /\ c \in cmd[r].clusters
  /\ Goto(r, [cmd[r] EXCEPT !.pc = "set_quorum", !.cluster = c,
                            !.clusters = @ \ {c}, !.ports = cmd[r].list])
  /\ UNCHANGED <<sentinel, watches, exists, file, faults, interrupted>>

RequorumDone(r) ==
  /\ At(r, "requorum")
  /\ cmd[r].clusters = {}
  /\ Goto(r, IF cmd[r].last THEN Advancing(cmd[r], "RemoveV6Sentinels") ELSE Idle)
  /\ UNCHANGED <<sentinel, watches, exists, file, faults, interrupted>>

----------------------------------------------------------------------------
(* cluster create and cluster rm *)

\* The containers start.
CreateCluster(r, c, v) ==
  /\ At(r, "idle")
  /\ ~exists[c]
  /\ exists' = [exists EXCEPT ![c] = TRUE]
  /\ Goto(r, [Idle EXCEPT !.pc = "create_list", !.cluster = c, !.version = v,
                          !.save = IF v = 6 THEN InitialStage ELSE "Done"])
  /\ UNCHANGED <<sentinel, watches, file, faults, interrupted>>

CreateList(r) ==
  /\ At(r, "create_list")
  /\ Goto(r, [cmd[r] EXCEPT !.pc = "create_monitor", !.list = Fleet, !.ports = Fleet])
  /\ UNCHANGED <<sentinel, watches, exists, file, faults, interrupted>>

\* An error of SENTINEL MONITOR ends the command.
CreateMonitor(r) ==
  LET s == Min(cmd[r].ports) IN
  /\ At(r, "create_monitor")
  /\ cmd[r].ports # {}
  /\ sentinel[s] # 0 /\ watches[s][cmd[r].cluster] = 0
  /\ MonitorOn(s, cmd[r].cluster, Majority(Cardinality(cmd[r].list)))
  /\ Goto(r, [cmd[r] EXCEPT !.ports = @ \ {s}])
  /\ UNCHANGED <<sentinel, exists, file, faults, interrupted>>

CreateSave(r) ==
  /\ At(r, "create_monitor")
  /\ cmd[r].ports = {}
  /\ Goto(r, [Idle EXCEPT !.pc = "truncate", !.cluster = cmd[r].cluster, !.save = cmd[r].save])
  /\ UNCHANGED <<sentinel, watches, exists, file, faults, interrupted>>

RmCluster(r, c) ==
  /\ At(r, "idle")
  /\ exists[c]
  /\ \E lost \in BOOLEAN :
       /\ Call(lost)
       /\ Goto(r, [Idle EXCEPT !.pc = "unwatch", !.cluster = c,
                               !.ports = IF lost THEN {} ELSE Fleet])
  /\ UNCHANGED <<sentinel, watches, exists, file, interrupted>>

\* Mutant: sentinels[0] is left out, as the one the master was read from.
UnwatchRest(r) ==
  LET s == Min(cmd[r].ports) IN
  /\ At(r, "unwatch")
  /\ cmd[r].ports # {}
  /\ Call(FALSE)
  /\ watches' = IF s = Min(Fleet) THEN watches
                ELSE [watches EXCEPT ![s][cmd[r].cluster] = 0]
  /\ Goto(r, [cmd[r] EXCEPT !.ports = @ \ {s}])
  /\ UNCHANGED <<sentinel, exists, file, interrupted>>

Unwatch(r) ==
  LET s == Min(cmd[r].ports) IN
  /\ At(r, "unwatch")
  /\ cmd[r].ports # {}
  /\ \E lost \in BOOLEAN :
       /\ Call(lost)
       /\ watches' = IF lost THEN watches ELSE [watches EXCEPT ![s][cmd[r].cluster] = 0]
  /\ Goto(r, [cmd[r] EXCEPT !.ports = @ \ {s}])
  /\ UNCHANGED <<sentinel, exists, file, interrupted>>

\* A container that cannot be removed is logged and stays.
RmContainers(r) ==
  /\ At(r, "unwatch")
  /\ cmd[r].ports = {}
  /\ \E lost \in BOOLEAN :
       /\ Call(lost)
       /\ exists' = [exists EXCEPT ![cmd[r].cluster] = lost]
  /\ Goto(r, [cmd[r] EXCEPT !.pc = "rm_file"])
  /\ UNCHANGED <<sentinel, watches, file, interrupted>>

RmFile(r) ==
  /\ At(r, "rm_file")
  /\ \E lost \in BOOLEAN :
       /\ Call(lost)
       /\ file' = IF lost THEN file ELSE [file EXCEPT ![cmd[r].cluster] = Missing]
  /\ Goto(r, Idle)
  /\ UNCHANGED <<sentinel, watches, exists, interrupted>>

\* A command of module Upgrade moves a cluster on, up to V6Destroyed.  All but
\* the instance rm that fires DestroyV6 read the master from a sentinel.
ClusterCommand(r, c, t) ==
  /\ At(r, "idle")
  /\ exists[c]
  /\ t # "DestroyV6" => \E p \in Fleet : watches[p][c] # 0
  /\ t \notin {"AddV8Sentinels", "RemoveV6Sentinels"}
  /\ CanFire(IF file[c] = Missing THEN InitialStage ELSE file[c], t)
  /\ file' = [file EXCEPT ![c] = To[t]]
  /\ UNCHANGED <<sentinel, watches, exists, cmd, faults, interrupted>>

----------------------------------------------------------------------------

ClusterStep(r, c) ==
  \/ AdvanceCluster(r, c) \/ RegisterCluster(r, c)
  \/ RmUnmonitor(r, c) \/ Requorum(r, c)
  \/ RmCluster(r, c)
  \/ \E v \in {6, 8} : CreateCluster(r, c, v)
  \/ \E t \in Trigger : ClusterCommand(r, c, t)

PortStep(r, p) == AddStart(r, p) \/ SentinelRm(r, p)

Step(r) ==
  \/ AdvanceDone(r) \/ Truncate(r) \/ Write(r)
  \/ AddStarted(r) \/ RegisterDone(r) \/ Monitor(r) \/ SetQuorum(r)
  \/ RmStop(r) \/ RmList(r) \/ RequorumDone(r)
  \/ CreateList(r) \/ CreateMonitor(r) \/ CreateSave(r)
  \/ Unwatch(r) \/ RmContainers(r) \/ RmFile(r)
  \/ Abort(r)
  \/ \E v \in {6, 8}, n \in 1 .. MaxCount : SentinelAdd(r, v, n)

Next ==
  \E r \in Proc :
    \/ Step(r)
    \/ \E c \in Cluster : ClusterStep(r, c)
    \/ \E p \in Port : PortStep(r, p)

Spec == Init /\ [][Next]_vars

----------------------------------------------------------------------------
(* Properties *)

\* No call failed, and every command ran to its end.
Undisturbed == faults = 0 /\ ~interrupted

\* Between commands all sentinels that monitor a cluster hold the same quorum
\* for it, whatever sentinels and clusters came and went: create, add and rm
\* each set it on every sentinel that monitors the cluster or on none
\* (sentinel.go 225-238, 247-262).
QuorumAgrees ==
  Undisturbed /\ (\A r \in Proc : At(r, "idle")) =>
    \A c \in Cluster : \A s, t \in Fleet :
      watches[s][c] # 0 /\ watches[t][c] # 0 => watches[s][c] = watches[t][c]

\* A sentinel monitors only clusters that have containers, through interrupted
\* commands too: create registers what it started, add registers what a sentinel
\* still reports, and cluster rm unregisters before it removes
\* (cluster.go 370-390).
WatchedExists ==
  faults = 0 => \A p \in Port : \A c \in Cluster : watches[p][c] # 0 => exists[c]

\* When sentinel add saves V8SentinelsAdded for a cluster that an earlier
\* sentinel monitors, every sentinel it started monitors it, and every sentinel
\* that monitors it needs a majority of the whole fleet (README.md 286-288).
RegisteredWhenAdded ==
  [][\A r \in Proc : LET c == cmd[r].cluster IN
       /\ Undisturbed /\ Write(r) /\ cmd[r].save = "V8SentinelsAdded"
       /\ \E s \in cmd[r].prior : watches[s][c] # 0
       => /\ \A s \in cmd[r].new : watches[s][c] # 0
          /\ \A s \in Fleet : watches[s][c] \in {0, Majority(Cardinality(Fleet))}]_vars

\* sentinel rm completes an upgrade only when no v6 sentinel is left, as long
\* as Docker and the sentinels answer (sentinel.go 404-416).
NoV6SentinelWhenDone ==
  [][\A r \in Proc :
       faults = 0 /\ Write(r) /\ cmd[r].trigger = "RemoveV6Sentinels" =>
         \A p \in Fleet : sentinel[p] # 6]_vars
=============================================================================
