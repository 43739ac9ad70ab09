------------------------------- MODULE Upgrade -------------------------------
(***************************************************************************)
(* The commands that take one cluster from Redis 6 to Redis 8: instance    *)
(* add, instance rm, cluster promote-v8, cluster failover and cluster      *)
(* isolate-v6-replicas.  Each command runs in a russ process of its own as *)
(* a sequence of steps; a step is what happens between two waits or two    *)
(* writes.  Sentinels and instances act in between, so may other commands, *)
(* and a process can fail or be interrupted before any step.               *)
(***************************************************************************)
EXTENDS Replication, UpgradeFSM

CONSTANTS
  Proc,     \* the russ processes that may run at the same time
  First,    \* sentinels[0], the one with the lowest port
  MaxAdds,  \* bound on the number of instances added
  MaxRetired  \* bound on the number of ports instances are removed from

ASSUME FirstAssumption == First \in Sentinel
ASSUME CommandBounds == MaxAdds \in Nat /\ MaxRetired \in Nat

VARIABLES
  lifecycle,   \* the stage the state file of the cluster holds
  cmd,         \* cmd[r]: the command process r is running, and its locals
  added,       \* number of containers instance add has started
  reached,     \* ghost: every stage the state file ever held
  promoteRan,  \* ghost: some promote-v8 was accepted by the FSM
  misread,     \* ghost: some instance add read a torn state file
  exempt,      \* ghost: v8 instances promote-v8 skipped as current master
  retired      \* ghost: ports an instance was removed from

ghostVars == <<reached, promoteRan, misread, exempt, retired>>
vars == <<replicationVars, lifecycle, cmd, added, ghostVars>>

Torn   == "torn"
NoFire == "none"

PC == {"idle", "truncate", "write",
       "add_priority", "add_start", "add_replicaof", "add_wait", "add_reset",
       "add_advance",
       "rm_break", "rm_reset", "rm_remove", "rm_list", "rm_advance",
       "promote_set",
       "failover_reconcile", "failover_sync", "failover_trigger",
       "failover_wait",
       "isolate_break"}

\* The locals of a command.  `trigger` is what it fires when its action is
\* done; `list` the instances it listed, `todo` those it has not handled and
\* `seen` those it has found at sentinels[0]; `resets` the sentinels it has not
\* sent SENTINEL RESET; `expect` and `list` the expectedPriorities map of
\* promote-v8.  `skipped` (instances reconciliation could not reach), `term`
\* (the number of failovers when the master was read) and `checked` (every
\* sentinel answered instance rm that its master is another) are ghosts.
Command ==
  [pc : PC, trigger : Trigger \cup {NoFire}, version : Version,
   prio : Priority, target : Port \cup {NoPort}, master : Port \cup {NoPort},
   list : SUBSET Port, todo : SUBSET Port, seen : SUBSET Port,
   rewired : BOOLEAN, resets : SUBSET Sentinel,
   expect : [Port -> Priority],
   skipped : SUBSET Port, term : Nat, checked : BOOLEAN]

Idle ==
  [pc |-> "idle", trigger |-> NoFire, version |-> Absent,
   prio |-> ReplicaPriorityDefault, target |-> NoPort, master |-> NoPort,
   list |-> {}, todo |-> {}, seen |-> {}, rewired |-> FALSE, resets |-> Sentinel,
   expect |-> [p \in Port |-> ReplicaPriorityDefault], skipped |-> {}, term |-> 0,
   checked |-> FALSE]

TypeOK ==
  /\ ReplicationTypeOK
  /\ lifecycle \in Stage \cup {Torn}
  /\ cmd \in [Proc -> Command]
  /\ added \in Nat
  /\ reached \subseteq Stage
  /\ promoteRan \in BOOLEAN /\ misread \in BOOLEAN
  /\ exempt \subseteq Port /\ retired \subseteq Port

Init ==
  /\ ReplicationInit
  /\ lifecycle = InitialStage
  /\ cmd = [r \in Proc |-> Idle]
  /\ added = 0
  /\ reached = {InitialStage}
  /\ promoteRan = FALSE /\ misread = FALSE
  /\ exempt = {} /\ retired = {}

Goto(r, c) == cmd' = [cmd EXCEPT ![r] = c]
Step(r, pc) == Goto(r, [cmd[r] EXCEPT !.pc = pc])
At(r, pc) == cmd[r].pc = pc

\* WaitForReplication returns: r follows m, the link is up, the sync is over.
Synced(p, m) == Up(p) /\ upstream[p] = m /\ Up(m) /\ CanSync(p, m)

\* SENTINEL RESET on one more sentinel, where an error is only logged; after
\* the last one the command is at pc.
ResetNext(r, pc) ==
  \E s \in cmd[r].resets :
    /\ \E S \in SUBSET {s} : SentinelReset(S)
    /\ Goto(r, [cmd[r] EXCEPT !.resets = @ \ {s},
                              !.pc = IF cmd[r].resets = {s} THEN pc ELSE @])

----------------------------------------------------------------------------
(* Machine.Fire and state.Save *)

\* The last step of a Fire whose action succeeded: save the successor of the
\* stage this process loaded.  os.WriteFile truncates, then writes.
Truncate(r) ==
  /\ At(r, "truncate")
  /\ lifecycle' = Torn
  /\ Step(r, "write")
  /\ UNCHANGED <<replicationVars, added, ghostVars>>

Write(r) ==
  /\ At(r, "write")
  /\ lifecycle' = To[cmd[r].trigger]
  /\ reached' = reached \cup {To[cmd[r].trigger]}
  /\ Goto(r, Idle)
  /\ UNCHANGED <<replicationVars, added, promoteRan, misread, exempt, retired>>

\* A step returns an error, a wait times out, or the process is killed: every
\* error path of these commands returns without undoing what was done.
Abort(r) ==
  /\ ~At(r, "idle")
  /\ Goto(r, Idle)
  /\ UNCHANGED <<replicationVars, lifecycle, added, ghostVars>>

\* Mutant: the trigger is fired without asking whether the stage permits it.
AdvanceOrEndUnchecked(r, ready, t) ==
  Goto(r, IF ready THEN [cmd[r] EXCEPT !.pc = "truncate", !.trigger = t] ELSE Idle)

\* Fire the trigger with no action, if the loaded stage permits it.
AdvanceOrEnd(r, ready, t) ==
  Goto(r, IF ready /\ CanFire(lifecycle, t)
          THEN [cmd[r] EXCEPT !.pc = "truncate", !.trigger = t]
          ELSE Idle)

----------------------------------------------------------------------------
(* instance add *)

\* The master is read from some sentinel, must be a container of the cluster,
\* and a free port is picked.
AddInstance(r, v, p) ==
  /\ added < MaxAdds
  /\ At(r, "idle")
  /\ ~Running(p)
  /\ \E s \in Sentinel :
       /\ Running(master[s])
       /\ Goto(r, [Idle EXCEPT !.pc = "add_priority", !.version = v,
                               !.target = p, !.master = master[s]])
  /\ UNCHANGED <<replicationVars, lifecycle, added, ghostVars>>

\* Mutant: only a cluster that is already mixed gets deprioritized instances.
InitialReplicaPriorityLate(v, stage) ==
  IF v = 8 /\ stage = "MixedVersions" THEN ReplicaPriorityV8Deprioritized
  ELSE IF v = 8 THEN ReplicaPriorityV8Promoted
  ELSE ReplicaPriorityDefault

\* Mutant: the 0 returned for "leave the default" is passed on to Redis.
InitialReplicaPriorityZero(v, stage) ==
  IF v # 8 THEN 0
  ELSE IF stage \in {"AllV6", "MixedVersions"} THEN ReplicaPriorityV8Deprioritized
  ELSE ReplicaPriorityV8Promoted

\* initialReplicaPriority; an unreadable state counts as a late one.
InitialReplicaPriority(v, stage) ==
  IF v # 8 THEN ReplicaPriorityDefault
  ELSE IF stage \in {"AllV6", "MixedVersions"} THEN ReplicaPriorityV8Deprioritized
  ELSE ReplicaPriorityV8Promoted

AddPriority(r) ==
  /\ At(r, "add_priority")
  /\ Goto(r, [cmd[r] EXCEPT !.pc = "add_start",
                !.prio = InitialReplicaPriority(cmd[r].version, lifecycle)])
  /\ misread' = (misread \/ (cmd[r].version = 8 /\ lifecycle = Torn))
  /\ UNCHANGED <<replicationVars, lifecycle, added, reached, promoteRan, exempt, retired>>

\* StartRedis; it fails when another container took the port meanwhile.
AddStart(r) ==
  LET p == cmd[r].target IN
  /\ At(r, "add_start")
  /\ ~Running(p)
  /\ version' = [version EXCEPT ![p] = cmd[r].version]
  /\ upstream' = [upstream EXCEPT ![p] = NoPort]
  /\ prio' = [prio EXCEPT ![p] = cmd[r].prio]
  /\ Step(r, "add_replicaof")
  /\ added' = added + 1
  /\ UNCHANGED <<down, outages, sentinelVars, lifecycle, ghostVars>>

AddReplicaOf(r) ==
  /\ At(r, "add_replicaof")
  /\ Up(cmd[r].target)
  /\ ReplicaOf(cmd[r].target, cmd[r].master)
  /\ Step(r, "add_wait")
  /\ UNCHANGED <<version, prio, down, outages, sentinelVars, lifecycle, added, ghostVars>>

AddWait(r) ==
  /\ At(r, "add_wait")
  /\ Synced(cmd[r].target, cmd[r].master)
  /\ Step(r, "add_reset")
  /\ UNCHANGED <<replicationVars, lifecycle, added, ghostVars>>

\* SENTINEL RESET on every sentinel; that sentinels[0] sees the replica
\* afterwards is only logged.
AddReset(r) ==
  /\ At(r, "add_reset")
  /\ ResetNext(r, "add_advance")
  /\ UNCHANGED <<instanceVars, lifecycle, added, ghostVars>>

AddAdvance(r) ==
  /\ At(r, "add_advance")
  /\ AdvanceOrEnd(r, cmd[r].version = 8, "AddV8Instance")
  /\ UNCHANGED <<replicationVars, lifecycle, added, ghostVars>>

----------------------------------------------------------------------------
(* instance rm *)

\* Refused when a sentinel that answers reports the instance as master; those
\* that do not answer are passed over, be it all of them.
RemoveInstance(r, p) ==
  /\ Cardinality(retired \cup {p}) <= MaxRetired
  /\ At(r, "idle")
  /\ Running(p)
  /\ \E S \in SUBSET Sentinel :
       /\ \A s \in S : master[s] # p
       /\ Goto(r, [Idle EXCEPT !.pc = "rm_break", !.target = p,
                               !.checked = (S = Sentinel)])
  /\ UNCHANGED <<replicationVars, lifecycle, added, ghostVars>>

\* REPLICAOF NO ONE; an error is logged and the removal goes on.
RmBreak(r) ==
  /\ At(r, "rm_break")
  /\ IF Up(cmd[r].target) THEN ReplicaOf(cmd[r].target, NoPort)
     ELSE UNCHANGED upstream
  /\ Step(r, "rm_reset")
  /\ UNCHANGED <<version, prio, down, outages, sentinelVars, lifecycle, added, ghostVars>>

RmReset(r) ==
  /\ At(r, "rm_reset")
  /\ ResetNext(r, "rm_remove")
  /\ UNCHANGED <<instanceVars, lifecycle, added, ghostVars>>

RmRemove(r) ==
  LET p == cmd[r].target IN
  /\ At(r, "rm_remove")
  /\ Running(p)
  /\ version' = [version EXCEPT ![p] = Absent]
  /\ upstream' = [upstream EXCEPT ![p] = NoPort]
  /\ prio' = [prio EXCEPT ![p] = ReplicaPriorityDefault]
  /\ down' = down \ {p}
  /\ retired' = retired \cup {p}
  /\ Step(r, "rm_list")
  /\ UNCHANGED <<outages, sentinelVars, lifecycle, added, reached, promoteRan, misread, exempt>>

\* The v6 instances that remain, listed before the state file is read.
RmList(r) ==
  /\ At(r, "rm_list")
  /\ Goto(r, [cmd[r] EXCEPT !.pc = "rm_advance", !.list = {p \in Containers : version[p] = 6}])
  /\ UNCHANGED <<replicationVars, lifecycle, added, ghostVars>>

\* Mutant: the last removal is not told from any other.
RmAdvanceAlways(r) ==
  /\ At(r, "rm_advance")
  /\ AdvanceOrEnd(r, TRUE, "DestroyV6")
  /\ UNCHANGED <<replicationVars, lifecycle, added, ghostVars>>

RmAdvance(r) ==
  /\ At(r, "rm_advance")
  /\ AdvanceOrEnd(r, cmd[r].list = {}, "DestroyV6")
  /\ UNCHANGED <<replicationVars, lifecycle, added, ghostVars>>

----------------------------------------------------------------------------
(* cluster promote-v8 *)

\* List the instances, read the master, build expectedPriorities: v8 at 1, v6
\* at 100, the master skipped.  Without a v8 instance the command fails.
PromoteV8(r) ==
  /\ At(r, "idle")
  /\ CanFire(lifecycle, "PromoteV8")
  /\ \E p \in Containers : version[p] = 8
  /\ \E s \in Sentinel :
       LET others == Containers \ {master[s]} IN
       /\ Goto(r, [Idle EXCEPT
            !.pc = "promote_set", !.trigger = "PromoteV8",
            !.list = others, !.todo = others,
            !.expect = [p \in Port |-> IF version[p] = 8
                                      THEN ReplicaPriorityV8Promoted
                                      ELSE ReplicaPriorityDefault]])
       /\ exempt' = IF version[master[s]] = 8 THEN exempt \cup {master[s]} ELSE exempt
  /\ promoteRan' = TRUE
  /\ UNCHANGED <<replicationVars, lifecycle, added, reached, misread, retired>>

\* CONFIG SET replica-priority on one instance, every v8 before any v6.
PromoteSet(r, p) ==
  /\ At(r, "promote_set")
  /\ p \in cmd[r].todo /\ Up(p)
  /\ \A q \in cmd[r].todo : cmd[r].expect[p] <= cmd[r].expect[q]
  /\ prio' = [prio EXCEPT ![p] = cmd[r].expect[p]]
  /\ Goto(r, [cmd[r] EXCEPT !.todo = @ \ {p}])
  /\ UNCHANGED <<version, upstream, down, outages, sentinelVars, lifecycle, added, ghostVars>>

\* Mutant: the sentinel is not asked whether it observed the priorities.
PromoteNoWait(r) ==
  /\ At(r, "promote_set") /\ cmd[r].todo = {}
  /\ Step(r, "truncate")
  /\ UNCHANGED <<replicationVars, lifecycle, added, ghostVars>>

\* WaitForReplicaPriorities on sentinels[0].
PromoteWait(r) ==
  /\ At(r, "promote_set") /\ cmd[r].todo = {}
  /\ \A p \in cmd[r].list :
       p \in known[First] /\ cached[First][p] = cmd[r].expect[p]
  /\ Step(r, "truncate")
  /\ UNCHANGED <<replicationVars, lifecycle, added, ghostVars>>

----------------------------------------------------------------------------
(* cluster failover *)

\* The FSM decides now whether the stage will advance; the failover runs in
\* any stage that can be loaded.
Failover(r) ==
  /\ At(r, "idle")
  /\ lifecycle # Torn
  /\ \E s \in Sentinel :
       /\ Running(master[s])
       /\ Goto(r, [Idle EXCEPT
            !.pc = "failover_reconcile",
            !.trigger = IF CanFire(lifecycle, "Failover") THEN "Failover" ELSE NoFire,
            !.master = master[s], !.list = Containers,
            !.todo = Containers \ {master[s]}, !.term = elections])
  /\ UNCHANGED <<replicationVars, lifecycle, added, ghostVars>>

\* Mutant: an instance that is a replica of anybody is left alone.
ReconcileAnyReplica(r, p) ==
  LET c == cmd[r] IN
  /\ At(r, "failover_reconcile")
  /\ p \in c.todo
  /\ \/ /\ ~Up(p)
        /\ Goto(r, [c EXCEPT !.todo = @ \ {p}, !.skipped = @ \cup {p}])
        /\ UNCHANGED upstream
     \/ /\ Up(p) /\ upstream[p] # NoPort
        /\ Goto(r, [c EXCEPT !.todo = @ \ {p}])
        /\ UNCHANGED upstream
     \/ /\ Up(p) /\ upstream[p] = NoPort
        /\ Goto(r, [c EXCEPT !.todo = @ \ {p}, !.rewired = TRUE,
                             !.target = p, !.pc = "failover_sync"])
        /\ ReplicaOf(p, c.master)
  /\ UNCHANGED <<version, prio, down, outages, sentinelVars, lifecycle, added, ghostVars>>

\* Mutant: the master is asked for anew for each instance to rewire.
ReconcileAsksAgain(r, p) ==
  LET c == cmd[r] IN
  /\ At(r, "failover_reconcile")
  /\ p \in c.todo /\ Up(p)
  /\ IF upstream[p] = c.master
     THEN Goto(r, [c EXCEPT !.todo = @ \ {p}]) /\ UNCHANGED upstream
     ELSE /\ Goto(r, [c EXCEPT !.todo = @ \ {p}, !.rewired = TRUE])
          /\ \E s \in Sentinel : ReplicaOf(p, master[s])
  /\ UNCHANGED <<version, prio, down, outages, sentinelVars, lifecycle, added, ghostVars>>

\* reconcileReplication: a replica that cannot be read is skipped, a direct
\* replica of the master left alone, any other rewired and waited for.
Reconcile(r, p) ==
  LET c == cmd[r] IN
  /\ At(r, "failover_reconcile")
  /\ p \in c.todo
  /\ \/ /\ ~Up(p)
        /\ Goto(r, [c EXCEPT !.todo = @ \ {p}, !.skipped = @ \cup {p}])
        /\ UNCHANGED upstream
     \/ /\ Up(p) /\ upstream[p] = c.master
        /\ Goto(r, [c EXCEPT !.todo = @ \ {p}])
        /\ UNCHANGED upstream
     \/ /\ Up(p) /\ upstream[p] # c.master
        /\ Goto(r, [c EXCEPT !.todo = @ \ {p}, !.rewired = TRUE,
                             !.target = p, !.pc = "failover_sync"])
        /\ ReplicaOf(p, c.master)
  /\ UNCHANGED <<version, prio, down, outages, sentinelVars, lifecycle, added, ghostVars>>

ReconcileSync(r) ==
  /\ At(r, "failover_sync")
  /\ Synced(cmd[r].target, cmd[r].master)
  /\ Step(r, "failover_reconcile")
  /\ UNCHANGED <<replicationVars, lifecycle, added, ghostVars>>

\* After a rewiring, sentinels[0] is asked about each of the other instances
\* until it lists it.
ReconcileSee(r, p) ==
  LET c == cmd[r] IN
  /\ At(r, "failover_reconcile") /\ c.todo = {} /\ c.rewired
  /\ p \in c.list \ (c.seen \cup {c.master})
  /\ p \in known[First]
  /\ Goto(r, [c EXCEPT !.seen = @ \cup {p}])
  /\ UNCHANGED <<replicationVars, lifecycle, added, ghostVars>>

\* Then the master is read again, from a sentinel that need not be the same.
ReconcileDone(r) ==
  LET c == cmd[r] IN
  /\ At(r, "failover_reconcile") /\ c.todo = {}
  /\ c.rewired => c.list \ {c.master} \subseteq c.seen
  /\ \E s \in Sentinel :
       Goto(r, [c EXCEPT !.pc = "failover_trigger", !.master = master[s]])
  /\ UNCHANGED <<replicationVars, lifecycle, added, ghostVars>>

\* SENTINEL FAILOVER on sentinels[0]; while it has no good replica the
\* command is retried, and in the end given up (Abort).
FailoverTrigger(r, p) ==
  /\ At(r, "failover_trigger")
  /\ Elect(First, p)
  /\ Step(r, "failover_wait")
  /\ UNCHANGED <<lifecycle, added, ghostVars>>

\* WaitForFailover: sentinels[0] reports any of the other instances.
FailoverWait(r) ==
  LET candidates == cmd[r].list \ {cmd[r].master} IN
  /\ At(r, "failover_wait")
  /\ candidates = {} \/ master[First] \in candidates
  /\ Goto(r, IF cmd[r].trigger = NoFire THEN Idle
             ELSE [cmd[r] EXCEPT !.pc = "truncate"])
  /\ UNCHANGED <<replicationVars, lifecycle, added, ghostVars>>

----------------------------------------------------------------------------
(* cluster isolate-v6-replicas *)

\* No master is excluded when no sentinel answers.
IsolateV6Replicas(r) ==
  /\ At(r, "idle")
  /\ CanFire(lifecycle, "BreakReplication")
  /\ \E m \in {master[s] : s \in Sentinel} \cup {NoPort} :
       Goto(r, [Idle EXCEPT !.pc = "isolate_break", !.trigger = "BreakReplication",
                  !.todo = {p \in Containers : version[p] = 6} \ {m}])
  /\ UNCHANGED <<replicationVars, lifecycle, added, ghostVars>>

IsolateBreak(r, p) ==
  /\ At(r, "isolate_break")
  /\ p \in cmd[r].todo /\ Up(p)
  /\ ReplicaOf(p, NoPort)
  /\ Goto(r, [cmd[r] EXCEPT !.todo = @ \ {p}])
  /\ UNCHANGED <<version, prio, down, outages, sentinelVars, lifecycle, added, ghostVars>>

IsolateReset(r) ==
  /\ At(r, "isolate_break") /\ cmd[r].todo = {}
  /\ ResetNext(r, "truncate")
  /\ UNCHANGED <<instanceVars, lifecycle, added, ghostVars>>

----------------------------------------------------------------------------

InstanceAdd(r) ==
  \/ \E v \in {6, 8}, p \in Port : AddInstance(r, v, p)
  \/ AddPriority(r) \/ AddStart(r) \/ AddReplicaOf(r) \/ AddWait(r)
  \/ AddReset(r) \/ AddAdvance(r)

InstanceRm(r) ==
  \/ \E p \in Port : RemoveInstance(r, p)
  \/ RmBreak(r) \/ RmReset(r) \/ RmRemove(r) \/ RmList(r) \/ RmAdvance(r)

ClusterPromoteV8(r) ==
  PromoteV8(r) \/ PromoteWait(r) \/ \E p \in Port : PromoteSet(r, p)

ClusterFailover(r) ==
  \/ Failover(r) \/ ReconcileSync(r) \/ ReconcileDone(r) \/ FailoverWait(r)
  \/ \E p \in Port : Reconcile(r, p) \/ ReconcileSee(r, p) \/ FailoverTrigger(r, p)

ClusterIsolate(r) ==
  IsolateV6Replicas(r) \/ IsolateReset(r) \/ \E p \in Port : IsolateBreak(r, p)

Russ(r) ==
  \/ InstanceAdd(r) \/ InstanceRm(r)
  \/ ClusterPromoteV8(r) \/ ClusterFailover(r) \/ ClusterIsolate(r)
  \/ Truncate(r) \/ Write(r) \/ Abort(r)

Next ==
  \/ Environment /\ UNCHANGED <<lifecycle, cmd, added, ghostVars>>
  \/ \E r \in Proc : Russ(r)

Spec == Init /\ [][Next]_vars
----------------------------------------------------------------------------
(* Properties *)

\* The state file implements the lifecycle of the FSM for any number of russ
\* processes: whatever is saved is the successor of a stage some process
\* loaded, and no stage is entered before its predecessor (machine.go, Fire).
Persisted == INSTANCE Lifecycle WITH stage <- lifecycle
ImplementsLifecycle == Persisted!Spec
NoStageSkipped == Persisted!NoStageSkipped

\* A single operator only ever moves the cluster forward, one edge of the FSM
\* at a time; a file found truncated counts as the stage it is about to leave
\* until the process writing it dies.
SettledStage ==
  IF lifecycle = Torn /\ \E r \in Proc : At(r, "write")
  THEN From[cmd[CHOOSE r \in Proc : At(r, "write")].trigger]
  ELSE lifecycle
Settled == INSTANCE Lifecycle WITH stage <- SettledStage
NeverMovesBack == Settled!SequentialSpec

\* s starts promoting p in this step.
Elects(s, p) == electing[s] = NoPort /\ electing'[s] = p

\* store.go:17-21 where it is true: until a promote-v8 is accepted, a failover
\* stays within the v6 subset as long as the leading sentinel has a v6
\* candidate - started by a command or by the sentinels, whatever commands are
\* under way, aborted or interleaved.  Ports used by a second container (their
\* cached priority may be the old one's) and state files read half-written
\* are the exceptions.
StaysWithinV6 ==
  [][\A s \in Sentinel, p \in Port :
       /\ Elects(s, p) /\ p \notin retired
       /\ ~promoteRan /\ ~misread
       /\ \E q \in SureCandidates(s) \ retired : version[q] = 6
       => version[p] = 6]_vars

\* store.go:22-24: once promote-v8 has recorded V8Prioritized, a failover
\* through sentinels[0] takes a v8 if it has a v8 candidate: the wait for the
\* sentinel to observe the priorities is what makes this so.  A v8 that
\* promote-v8 skipped as master keeps its old priority.
V8WinsFailover ==
  [][\A p \in Port :
       /\ Elects(First, p) /\ p \notin retired
       /\ lifecycle = "V8Prioritized" /\ ~misread
       /\ \E q \in SureCandidates(First) \ (retired \cup exempt) : version[q] = 8
       => version[p] = 8]_vars

\* reconcileReplication: if no failover started since it read the master, from
\* whichever sentinel, and all sentinels agree on that master when it is done,
\* every instance it could reach is a direct replica of it, so none is stranded
\* in a chain by the failover - whatever the sentinels did in between with the
\* views they had.
FlatBeforeFailover ==
  [][\A r \in Proc :
       LET c == cmd[r] IN
       /\ At(r, "failover_reconcile") /\ cmd'[r].pc = "failover_trigger"
       /\ elections = c.term /\ \A s \in Sentinel : master[s] = c.master
       => \A p \in Containers \ (c.skipped \cup {c.master}) : upstream[p] = c.master]_vars

\* store.go:30: when V6Destroyed is recorded no v6 container is left.
DestroyedWhenGone ==
  [][lifecycle' = "V6Destroyed" /\ lifecycle # "V6Destroyed"
       => \A p \in Port : version[p] # 6]_vars

----------------------------------------------------------------------------
(* The inductive invariants the theorems of UpgradeProofs rest on. *)

\* A command in state c only carries a trigger whose source stage was on file
\* when it was loaded, and promote-v8's only after the FSM accepted it.
Entitled(c) ==
  /\ c.trigger # NoFire => From[c.trigger] \in reached
  /\ c.trigger = "PromoteV8" => promoteRan
  /\ c.pc \in {"truncate", "write"} => c.trigger # NoFire
  /\ c.pc = "promote_set" => c.trigger = "PromoteV8"
  /\ c.pc = "isolate_break" => c.trigger = "BreakReplication"

\* What is persisted, and what a process may still persist (machine.go, Fire).
PersistedInv ==
  /\ lifecycle \in reached \cup {Torn}
  /\ NoStageSkipped
  /\ \A r \in Proc : Entitled(cmd[r])

RegimePriority(v) ==
  IF v = 8 THEN ReplicaPriorityV8Deprioritized ELSE ReplicaPriorityDefault

\* The priority regime of MixedVersions (client.go:82-94): before any
\* promote-v8, every v8 instance is at 200 and every other at 100, what a
\* sentinel has cached for a port that was never reused is either nothing or
\* that, and an instance add under way is about to start its instance so.
MixedRegime ==
  ~promoteRan /\ ~misread =>
    /\ reached \subseteq {"AllV6", "MixedVersions"}
    /\ \A p \in Port : prio[p] = RegimePriority(version[p])
    /\ \A s \in Sentinel : \A p \in Port \ retired :
         cached[s][p] # NotRead => Running(p) /\ cached[s][p] = prio[p]
    /\ \A r \in Proc :
         At(r, "add_start") => cmd[r].prio = RegimePriority(cmd[r].version)

----------------------------------------------------------------------------
(* What a comment says without such conditions. *)

\* store.go:17-21: in MixedVersions any failover stays within the v6 subset,
\* here even only while the sentinel has a v6 candidate to take.
MixedFailoverStaysV6 ==
  [][\A s \in Sentinel, p \in Port :
       /\ Elects(s, p) /\ p \notin retired
       /\ lifecycle = "MixedVersions" /\ ~misread
       /\ \E q \in SureCandidates(s) \ retired : version[q] = 6
       => version[p] = 6]_vars
=============================================================================
