---------------------------- MODULE UpgradeProofs ----------------------------
(***************************************************************************)
(* Theorems about Upgrade for every set of ports, sentinels and russ       *)
(* processes and every value of the bounds.                                *)
(***************************************************************************)
EXTENDS Upgrade, TLAPS

----------------------------------------------------------------------------
(* Type correctness *)

\* The start of a failover keeps the types.
LEMMA ElectTypeOK ==
  ASSUME ReplicationTypeOK, NEW s \in Sentinel, NEW p \in Port, Elect(s, p)
  PROVE  ReplicationTypeOK'
BY PortAssumption DEF ReplicationTypeOK, Elect

\* The environment - outages and what sentinels do on their own - keeps the
\* types of the instances and of the views.
LEMMA EnvironmentTypeOK ==
  ASSUME ReplicationTypeOK, Environment
  PROVE  ReplicationTypeOK'
<1> USE PortAssumption DEF ReplicationTypeOK, instanceVars, sentinelVars
<1>1. ASSUME NEW p \in Port, Outage(p) \/ Recover(p)
      PROVE  ReplicationTypeOK'
  BY <1>1 DEF Outage, Recover, Up
<1>2. ASSUME NEW s \in Sentinel, NEW p \in Port, Discover(s, p)
      PROVE  ReplicationTypeOK'
  BY <1>2 DEF Discover
<1>3. ASSUME NEW s \in Sentinel, NEW p \in Port, Refresh(s, p)
      PROVE  ReplicationTypeOK'
  BY <1>3 DEF Refresh
<1>4. ASSUME NEW s \in Sentinel, NEW p \in Port, AutoFailover(s, p)
      PROVE  ReplicationTypeOK'
  BY <1>4, ElectTypeOK DEF AutoFailover
<1>5. ASSUME NEW s \in Sentinel, NEW p \in Port, Reattach(s, p)
      PROVE  ReplicationTypeOK'
  BY <1>5 DEF Reattach
<1>6. ASSUME NEW s \in Sentinel, FinishFailover(s)
      PROVE  ReplicationTypeOK'
  BY <1>6 DEF FinishFailover, Up, Running, NotRead
<1>7. ASSUME NEW s \in Sentinel, AbandonFailover(s)
      PROVE  ReplicationTypeOK'
  BY <1>7 DEF AbandonFailover
<1>8. ASSUME NEW s \in Sentinel, NEW t \in Sentinel, Hello(s, t)
      PROVE  ReplicationTypeOK'
  BY <1>8 DEF Hello, NotRead
<1> QED
  BY <1>1, <1>2, <1>3, <1>4, <1>5, <1>6, <1>7, <1>8 DEF Environment

\* SENTINEL RESET keeps the types of the views.
LEMMA ResetTypeOK ==
  ASSUME ReplicationTypeOK, UNCHANGED instanceVars,
         \E S \in SUBSET Sentinel : SentinelReset(S)
  PROVE  ReplicationTypeOK'
BY DEF ReplicationTypeOK, SentinelReset, NotRead, instanceVars

LEMMA IdleIsCommand == Idle \in Command
BY DEF Idle, Command, PC, Absent, Version, Priority

LEMMA GotoType ==
  ASSUME cmd \in [Proc -> Command], NEW r \in Proc, NEW c \in Command, Goto(r, c)
  PROVE  cmd' \in [Proc -> Command]
BY DEF Goto

LEMMA StepType ==
  ASSUME cmd \in [Proc -> Command], NEW r \in Proc, NEW pc \in PC, Step(r, pc)
  PROVE  cmd' \in [Proc -> Command]
<1>1. [cmd[r] EXCEPT !.pc = pc] \in Command
  BY DEF Command
<1> QED BY <1>1, GotoType DEF Step

\* What a command is after SENTINEL RESET on one sentinel.
AfterReset(r, R, pc) == [cmd[r] EXCEPT !.resets = R, !.pc = pc]

LEMMA ResetForm ==
  ASSUME cmd \in [Proc -> Command], NEW r \in Proc, NEW pc, ResetNext(r, pc)
  PROVE  /\ \E S \in SUBSET Sentinel : SentinelReset(S)
         /\ \E R \in SUBSET Sentinel : \E q \in {pc, cmd[r].pc} : Goto(r, AfterReset(r, R, q))
<1>0. cmd[r] \in Command
  OBVIOUS
<1>1. PICK s \in cmd[r].resets :
        /\ \E S \in SUBSET {s} : SentinelReset(S)
        /\ Goto(r, [cmd[r] EXCEPT !.resets = @ \ {s},
                                  !.pc = IF cmd[r].resets = {s} THEN pc ELSE @])
  BY DEF ResetNext
<1>2. s \in Sentinel /\ cmd[r].resets \ {s} \in SUBSET Sentinel
  BY <1>0 DEF Command
<1>3. PICK q \in {pc, cmd[r].pc} : q = IF cmd[r].resets = {s} THEN pc ELSE cmd[r].pc
  OBVIOUS
<1>4. Goto(r, AfterReset(r, cmd[r].resets \ {s}, q))
  BY <1>1, <1>3 DEF AfterReset
<1>5. \E S \in SUBSET Sentinel : SentinelReset(S)
  BY <1>1, <1>2
<1> QED BY <1>2, <1>4, <1>5

LEMMA ResetType ==
  ASSUME cmd \in [Proc -> Command], NEW r \in Proc, NEW pc \in PC, ResetNext(r, pc)
  PROVE  cmd' \in [Proc -> Command]
<1>1. PICK R \in SUBSET Sentinel, q \in {pc, cmd[r].pc} : Goto(r, AfterReset(r, R, q))
  BY ResetForm
<1>2. cmd[r] \in Command /\ q \in PC
  BY DEF Command
<1>3. AfterReset(r, R, q) \in Command
  BY <1>2 DEF AfterReset, Command
<1> QED BY <1>1, <1>3, GotoType

\* Ending a command, or having it fire its trigger, keeps the type of cmd.
LEMMA AdvanceType ==
  ASSUME cmd \in [Proc -> Command], NEW r \in Proc, NEW ready \in BOOLEAN,
         NEW t \in Trigger, AdvanceOrEnd(r, ready, t)
  PROVE  cmd' \in [Proc -> Command]
<1>0. cmd[r] \in Command
  OBVIOUS
<1>1. [cmd[r] EXCEPT !.pc = "truncate", !.trigger = t] \in Command
  BY <1>0 DEF Command, PC
<1>2. CASE ready /\ CanFire(lifecycle, t)
  BY <1>1, <1>2, GotoType DEF AdvanceOrEnd
<1>3. CASE ~(ready /\ CanFire(lifecycle, t))
  BY <1>3, IdleIsCommand, GotoType DEF AdvanceOrEnd
<1> QED BY <1>2, <1>3

\* One step of a command that leaves instances and sentinels alone.
LEMMA LocalStepTypeOK ==
  ASSUME TypeOK, cmd' \in [Proc -> Command],
         UNCHANGED <<replicationVars, lifecycle, added, ghostVars>>
  PROVE  TypeOK'
BY DEF TypeOK, ReplicationTypeOK, replicationVars, instanceVars, sentinelVars, ghostVars

\* One step of a command that at most resets sentinels.
LEMMA ResetStepTypeOK ==
  ASSUME TypeOK, cmd' \in [Proc -> Command],
         \E S \in SUBSET Sentinel : SentinelReset(S),
         UNCHANGED <<instanceVars, lifecycle, added, ghostVars>>
  PROVE  TypeOK'
<1>1. ReplicationTypeOK'
  BY ResetTypeOK DEF TypeOK
<1> QED BY <1>1 DEF TypeOK, ghostVars

\* One step of a command that at most sends REPLICAOF.
LEMMA ReplicaOfStepTypeOK ==
  ASSUME TypeOK, cmd' \in [Proc -> Command],
         NEW p \in Port \cup {NoPort}, NEW m \in Port \cup {NoPort},
         ReplicaOf(p, m) \/ UNCHANGED upstream,
         UNCHANGED <<version, prio, down, outages, sentinelVars, lifecycle, added, ghostVars>>
  PROVE  TypeOK'
<1>1. upstream' \in [Port -> Port \cup {NoPort}]
  BY DEF TypeOK, ReplicationTypeOK, ReplicaOf
<1> QED BY <1>1 DEF TypeOK, ReplicationTypeOK, sentinelVars, ghostVars

LEMMA InstanceAddTypeOK ==
  ASSUME TypeOK, NEW r \in Proc, InstanceAdd(r)
  PROVE  TypeOK'
<1>0. cmd \in [Proc -> Command] /\ cmd[r] \in Command
  BY DEF TypeOK
<1>1. ASSUME NEW v \in {6, 8}, NEW p \in Port, AddInstance(r, v, p)
      PROVE  TypeOK'
  <2>1. PICK s \in Sentinel :
          Goto(r, [Idle EXCEPT !.pc = "add_priority", !.version = v,
                               !.target = p, !.master = master[s]])
    BY <1>1 DEF AddInstance
  <2>2. master[s] \in Port /\ v \in Version
    BY DEF TypeOK, ReplicationTypeOK, Version
  <2>3. [Idle EXCEPT !.pc = "add_priority", !.version = v,
                     !.target = p, !.master = master[s]] \in Command
    BY <2>2, IdleIsCommand DEF Command, PC
  <2>4. cmd' \in [Proc -> Command]
    BY <1>0, <2>1, <2>3, GotoType
  <2> QED BY <1>1, <2>4, LocalStepTypeOK DEF AddInstance
<1>2. CASE AddPriority(r)
  <2>1. InitialReplicaPriority(cmd[r].version, lifecycle) \in Priority
    BY DEF InitialReplicaPriority, Priority
  <2>2. [cmd[r] EXCEPT !.pc = "add_start",
           !.prio = InitialReplicaPriority(cmd[r].version, lifecycle)] \in Command
    BY <1>0, <2>1 DEF Command, PC
  <2>3. cmd' \in [Proc -> Command]
    BY <1>0, <1>2, <2>2, GotoType DEF AddPriority
  <2>4. misread' \in BOOLEAN
    BY <1>2 DEF TypeOK, AddPriority
  <2> QED
    BY <1>2, <2>3, <2>4
    DEF AddPriority, TypeOK, ReplicationTypeOK, replicationVars, instanceVars, sentinelVars
<1>3. CASE AddStart(r)
  <2>1. cmd' \in [Proc -> Command]
    BY <1>0, <1>3, StepType DEF AddStart, PC
  <2>2. cmd[r].version \in Version /\ cmd[r].prio \in Priority
    BY <1>0 DEF Command
  <2>3. /\ version' \in [Port -> Version] /\ prio' \in [Port -> Priority]
        /\ upstream' \in [Port -> Port \cup {NoPort}]
    BY <1>3, <2>2 DEF AddStart, TypeOK, ReplicationTypeOK
  <2>4. added' \in Nat
    BY <1>3 DEF AddStart, TypeOK
  <2> QED
    BY <1>3, <2>1, <2>3, <2>4 DEF AddStart, TypeOK, ReplicationTypeOK, sentinelVars, ghostVars
<1>4. CASE AddReplicaOf(r)
  <2>1. cmd' \in [Proc -> Command]
    BY <1>0, <1>4, StepType DEF AddReplicaOf, PC
  <2>2. cmd[r].master \in Port \cup {NoPort} /\ cmd[r].target \in Port \cup {NoPort}
    BY <1>0 DEF Command
  <2> QED BY <1>4, <2>1, <2>2, ReplicaOfStepTypeOK DEF AddReplicaOf
<1>5. CASE AddWait(r)
  <2>1. cmd' \in [Proc -> Command]
    BY <1>0, <1>5, StepType DEF AddWait, PC
  <2> QED BY <1>5, <2>1, LocalStepTypeOK DEF AddWait
<1>6. CASE AddReset(r)
  <2>1. cmd' \in [Proc -> Command]
    BY <1>0, <1>6, ResetType DEF AddReset, PC
  <2>2. \E S \in SUBSET Sentinel : SentinelReset(S)
    BY <1>0, <1>6, ResetForm DEF AddReset
  <2> QED BY <1>6, <2>1, <2>2, ResetStepTypeOK DEF AddReset
<1>7. CASE AddAdvance(r)
  <2>1. cmd' \in [Proc -> Command]
    BY <1>0, <1>7, AdvanceType DEF AddAdvance, Trigger
  <2> QED BY <1>7, <2>1, LocalStepTypeOK DEF AddAdvance
<1> QED BY <1>1, <1>2, <1>3, <1>4, <1>5, <1>6, <1>7 DEF InstanceAdd

LEMMA InstanceRmTypeOK ==
  ASSUME TypeOK, NEW r \in Proc, InstanceRm(r)
  PROVE  TypeOK'
<1>0. cmd \in [Proc -> Command] /\ cmd[r] \in Command
  BY DEF TypeOK
<1>1. ASSUME NEW p \in Port, RemoveInstance(r, p)
      PROVE  TypeOK'
  <2>1. PICK S \in SUBSET Sentinel :
          Goto(r, [Idle EXCEPT !.pc = "rm_break", !.target = p,
                               !.checked = (S = Sentinel)])
    BY <1>1 DEF RemoveInstance
  <2>2. [Idle EXCEPT !.pc = "rm_break", !.target = p,
                     !.checked = (S = Sentinel)] \in Command
    BY IdleIsCommand DEF Command, PC
  <2>3. cmd' \in [Proc -> Command]
    BY <1>0, <2>1, <2>2, GotoType
  <2> QED BY <1>1, <2>3, LocalStepTypeOK DEF RemoveInstance
<1>2. CASE RmBreak(r)
  <2>1. cmd' \in [Proc -> Command]
    BY <1>0, <1>2, StepType DEF RmBreak, PC
  <2>2. cmd[r].target \in Port \cup {NoPort}
    BY <1>0 DEF Command
  <2> QED BY <1>2, <2>1, <2>2, ReplicaOfStepTypeOK DEF RmBreak
<1>3. CASE RmReset(r)
  <2>1. cmd' \in [Proc -> Command]
    BY <1>0, <1>3, ResetType DEF RmReset, PC
  <2>2. \E S \in SUBSET Sentinel : SentinelReset(S)
    BY <1>0, <1>3, ResetForm DEF RmReset
  <2> QED BY <1>3, <2>1, <2>2, ResetStepTypeOK DEF RmReset
<1>4. CASE RmRemove(r)
  <2>1. cmd' \in [Proc -> Command]
    BY <1>0, <1>4, StepType DEF RmRemove, PC
  <2>2. cmd[r].target \in Port
    BY <1>4 DEF RmRemove, Running
  <2>3. /\ version' \in [Port -> Version] /\ prio' \in [Port -> Priority]
        /\ upstream' \in [Port -> Port \cup {NoPort}]
        /\ down' \subseteq Port /\ retired' \subseteq Port
    BY <1>4, <2>2 DEF RmRemove, TypeOK, ReplicationTypeOK, Priority, Version
  <2> QED
    BY <1>4, <2>1, <2>3 DEF RmRemove, TypeOK, ReplicationTypeOK, sentinelVars
<1>5. CASE RmAdvance(r)
  <2>1. cmd' \in [Proc -> Command]
    BY <1>0, <1>5, AdvanceType DEF RmAdvance, Trigger
  <2> QED BY <1>5, <2>1, LocalStepTypeOK DEF RmAdvance
<1>6. CASE RmList(r)
  <2>1. [cmd[r] EXCEPT !.pc = "rm_advance", !.list = {p \in Containers : version[p] = 6}]
          \in Command
    BY <1>0 DEF Command, PC, Containers
  <2>2. cmd' \in [Proc -> Command]
    BY <1>0, <1>6, <2>1, GotoType DEF RmList
  <2> QED BY <1>6, <2>2, LocalStepTypeOK DEF RmList
<1> QED BY <1>1, <1>2, <1>3, <1>4, <1>5, <1>6 DEF InstanceRm

LEMMA PromoteV8TypeOK ==
  ASSUME TypeOK, NEW r \in Proc, ClusterPromoteV8(r)
  PROVE  TypeOK'
<1>0. cmd \in [Proc -> Command] /\ cmd[r] \in Command
  BY DEF TypeOK
<1>1. CASE PromoteV8(r)
  <2> DEFINE others(s) == Containers \ {master[s]}
             expected == [p \in Port |-> IF version[p] = 8
                                         THEN ReplicaPriorityV8Promoted
                                         ELSE ReplicaPriorityDefault]
  <2>1. PICK s \in Sentinel :
          /\ Goto(r, [Idle EXCEPT !.pc = "promote_set", !.trigger = "PromoteV8",
                                  !.list = others(s), !.todo = others(s),
                                  !.expect = expected])
          /\ exempt' = IF version[master[s]] = 8 THEN exempt \cup {master[s]} ELSE exempt
    BY <1>1 DEF PromoteV8
  <2>2. others(s) \in SUBSET Port
    BY DEF Containers
  <2>3. expected \in [Port -> Priority]
    BY DEF Priority
  <2>4. [Idle EXCEPT !.pc = "promote_set", !.trigger = "PromoteV8",
                     !.list = others(s), !.todo = others(s),
                     !.expect = expected] \in Command
    <3> HIDE DEF others, expected
    <3> QED BY <2>2, <2>3, IdleIsCommand DEF Command, PC, Trigger
  <2>5. cmd' \in [Proc -> Command]
    <3> HIDE DEF others, expected
    <3> QED BY <1>0, <2>1, <2>4, GotoType
  <2>6. exempt' \subseteq Port /\ promoteRan' \in BOOLEAN
    BY <1>1, <2>1 DEF PromoteV8, TypeOK, ReplicationTypeOK
  <2> QED
    BY <1>1, <2>5, <2>6
    DEF PromoteV8, TypeOK, ReplicationTypeOK, replicationVars, instanceVars, sentinelVars
<1>2. ASSUME NEW p \in Port, PromoteSet(r, p)
      PROVE  TypeOK'
  <2>1. [cmd[r] EXCEPT !.todo = @ \ {p}] \in Command
    BY <1>0 DEF Command
  <2>2. cmd' \in [Proc -> Command]
    BY <1>0, <1>2, <2>1, GotoType DEF PromoteSet
  <2>3. cmd[r].expect[p] \in Priority
    BY <1>0 DEF Command
  <2>4. prio' \in [Port -> Priority]
    BY <1>2, <2>3 DEF PromoteSet, TypeOK, ReplicationTypeOK
  <2> QED
    BY <1>2, <2>2, <2>4 DEF PromoteSet, TypeOK, ReplicationTypeOK, sentinelVars, ghostVars
<1>3. CASE PromoteWait(r)
  <2>1. cmd' \in [Proc -> Command]
    BY <1>0, <1>3, StepType DEF PromoteWait, PC
  <2> QED BY <1>3, <2>1, LocalStepTypeOK DEF PromoteWait
<1> QED BY <1>1, <1>2, <1>3 DEF ClusterPromoteV8

LEMMA FailoverTypeOK ==
  ASSUME TypeOK, NEW r \in Proc, ClusterFailover(r)
  PROVE  TypeOK'
<1>0. cmd \in [Proc -> Command] /\ cmd[r] \in Command
  BY DEF TypeOK
<1>1. CASE Failover(r)
  <2> DEFINE next(s) ==
        [Idle EXCEPT
           !.pc = "failover_reconcile",
           !.trigger = IF CanFire(lifecycle, "Failover") THEN "Failover" ELSE NoFire,
           !.master = master[s], !.list = Containers,
           !.todo = Containers \ {master[s]}, !.term = elections]
  <2>1. PICK s \in Sentinel : Goto(r, next(s))
    BY <1>1 DEF Failover
  <2>2. /\ Containers \subseteq Port /\ Containers \ {master[s]} \subseteq Port
        /\ master[s] \in Port /\ elections \in Nat
        /\ (IF CanFire(lifecycle, "Failover") THEN "Failover" ELSE NoFire)
             \in Trigger \cup {NoFire}
    BY DEF Containers, TypeOK, ReplicationTypeOK, Trigger
  <2>3. next(s) \in Command
    BY <2>2, IdleIsCommand DEF Command, PC
  <2>4. cmd' \in [Proc -> Command]
    <3> HIDE DEF next
    <3> QED BY <1>0, <2>1, <2>3, GotoType
  <2> QED BY <1>1, <2>4, LocalStepTypeOK DEF Failover
<1>2. ASSUME NEW p \in Port, Reconcile(r, p)
      PROVE  TypeOK'
  <2>1. /\ [cmd[r] EXCEPT !.todo = @ \ {p}, !.skipped = @ \cup {p}] \in Command
        /\ [cmd[r] EXCEPT !.todo = @ \ {p}] \in Command
        /\ [cmd[r] EXCEPT !.todo = @ \ {p}, !.rewired = TRUE,
                          !.target = p, !.pc = "failover_sync"] \in Command
    BY <1>0 DEF Command, PC
  <2>2. cmd' \in [Proc -> Command]
    BY <1>0, <1>2, <2>1, GotoType DEF Reconcile
  <2>3. cmd[r].master \in Port \cup {NoPort}
    BY <1>0 DEF Command
  <2> QED BY <1>2, <2>2, <2>3, ReplicaOfStepTypeOK DEF Reconcile
<1>3. CASE ReconcileSync(r)
  <2>1. cmd' \in [Proc -> Command]
    BY <1>0, <1>3, StepType DEF ReconcileSync, PC
  <2> QED BY <1>3, <2>1, LocalStepTypeOK DEF ReconcileSync
<1>4. CASE ReconcileDone(r)
  <2>1. PICK s \in Sentinel :
          Goto(r, [cmd[r] EXCEPT !.pc = "failover_trigger", !.master = master[s]])
    BY <1>4 DEF ReconcileDone
  <2>2. [cmd[r] EXCEPT !.pc = "failover_trigger", !.master = master[s]] \in Command
    BY <1>0 DEF Command, PC, TypeOK, ReplicationTypeOK
  <2>3. cmd' \in [Proc -> Command]
    BY <1>0, <2>1, <2>2, GotoType
  <2> QED BY <1>4, <2>3, LocalStepTypeOK DEF ReconcileDone
<1>5. ASSUME NEW p \in Port, FailoverTrigger(r, p)
      PROVE  TypeOK'
  <2>1. cmd' \in [Proc -> Command]
    BY <1>0, <1>5, StepType DEF FailoverTrigger, PC
  <2>2. ReplicationTypeOK'
    BY <1>5, FirstAssumption, ElectTypeOK DEF FailoverTrigger, TypeOK
  <2> QED BY <1>5, <2>1, <2>2 DEF FailoverTrigger, TypeOK, ghostVars
<1>6. CASE FailoverWait(r)
  <2>1. [cmd[r] EXCEPT !.pc = "truncate"] \in Command
    BY <1>0 DEF Command, PC
  <2>2. cmd' \in [Proc -> Command]
    BY <1>0, <1>6, <2>1, IdleIsCommand, GotoType DEF FailoverWait
  <2> QED BY <1>6, <2>2, LocalStepTypeOK DEF FailoverWait
<1>7. ASSUME NEW p \in Port, ReconcileSee(r, p)
      PROVE  TypeOK'
  <2>1. [cmd[r] EXCEPT !.seen = @ \cup {p}] \in Command
    BY <1>0 DEF Command
  <2>2. cmd' \in [Proc -> Command]
    BY <1>0, <1>7, <2>1, GotoType DEF ReconcileSee
  <2> QED BY <1>7, <2>2, LocalStepTypeOK DEF ReconcileSee
<1> QED BY <1>1, <1>2, <1>3, <1>4, <1>5, <1>6, <1>7 DEF ClusterFailover

LEMMA IsolateTypeOK ==
  ASSUME TypeOK, NEW r \in Proc, ClusterIsolate(r)
  PROVE  TypeOK'
<1>0. cmd \in [Proc -> Command] /\ cmd[r] \in Command
  BY DEF TypeOK
<1>1. CASE IsolateV6Replicas(r)
  <2> DEFINE next(m) ==
        [Idle EXCEPT !.pc = "isolate_break", !.trigger = "BreakReplication",
                     !.todo = {p \in Containers : version[p] = 6} \ {m}]
  <2>1. PICK m \in {master[s] : s \in Sentinel} \cup {NoPort} : Goto(r, next(m))
    BY <1>1 DEF IsolateV6Replicas
  <2>2. {p \in Containers : version[p] = 6} \ {m} \subseteq Port
    BY DEF Containers
  <2>3. next(m) \in Command
    BY <2>2, IdleIsCommand DEF Command, PC, Trigger
  <2>4. cmd' \in [Proc -> Command]
    <3> HIDE DEF next
    <3> QED BY <1>0, <2>1, <2>3, GotoType
  <2> QED BY <1>1, <2>4, LocalStepTypeOK DEF IsolateV6Replicas
<1>2. ASSUME NEW p \in Port, IsolateBreak(r, p)
      PROVE  TypeOK'
  <2>1. [cmd[r] EXCEPT !.todo = @ \ {p}] \in Command
    BY <1>0 DEF Command
  <2>2. cmd' \in [Proc -> Command]
    BY <1>0, <1>2, <2>1, GotoType DEF IsolateBreak
  <2> QED BY <1>2, <2>2, ReplicaOfStepTypeOK DEF IsolateBreak
<1>3. CASE IsolateReset(r)
  <2>1. cmd' \in [Proc -> Command]
    BY <1>0, <1>3, ResetType DEF IsolateReset, PC
  <2>2. \E S \in SUBSET Sentinel : SentinelReset(S)
    BY <1>0, <1>3, ResetForm DEF IsolateReset
  <2> QED BY <1>3, <2>1, <2>2, ResetStepTypeOK DEF IsolateReset
<1> QED BY <1>1, <1>2, <1>3 DEF ClusterIsolate

----------------------------------------------------------------------------
(* What is persisted *)

\* The edges of the FSM lead from stages to stages, to each stage at most one,
\* and none to the initial stage.
LEMMA Edges ==
  /\ \A t \in Trigger : From[t] \in Stage /\ To[t] \in Stage
  /\ \A t, u \in Trigger : To[t] = To[u] => t = u
  /\ \A t \in Trigger : To[t] # InitialStage
  /\ Torn \notin Stage /\ InitialStage \in Stage /\ NoFire \notin Trigger
BY DEF Trigger, From, To, Stage, InitialStage, Torn, NoFire

\* The FSM of the abstract specification is the one of the commands.
LEMMA SameFSM ==
  /\ Persisted!Trigger = Trigger /\ Persisted!From = From /\ Persisted!To = To
  /\ Persisted!InitialStage = InitialStage /\ Persisted!Torn = Torn
BY DEF Persisted!Trigger, Persisted!From, Persisted!To, Persisted!InitialStage,
       Persisted!Torn, Trigger, From, To, InitialStage, Torn

LEMMA NoStageSkippedDef ==
  NoStageSkipped <=> \A t \in Trigger : To[t] \in reached => From[t] \in reached
BY SameFSM DEF NoStageSkipped, Persisted!NoStageSkipped

\* A step that touches neither the file nor the ghosts keeps PersistedInv if
\* the command it leaves behind is entitled to what it carries.
LEMMA EntitledStep ==
  ASSUME TypeOK, PersistedInv, NEW r \in Proc, NEW c, Goto(r, c), Entitled(c),
         UNCHANGED <<lifecycle, reached, promoteRan>>
  PROVE  PersistedInv'
<1>1. ASSUME NEW q \in Proc PROVE Entitled(cmd[q])'
  <2>1. cmd'[q] = c \/ cmd'[q] = cmd[q]
    BY DEF Goto, TypeOK
  <2> QED BY <2>1 DEF Entitled, PersistedInv
<1>2. NoStageSkipped'
  BY DEF PersistedInv, NoStageSkipped, Persisted!NoStageSkipped
<1> QED BY <1>1, <1>2 DEF PersistedInv

LEMMA IdleEntitled == Entitled(Idle)
BY DEF Entitled, Idle, NoFire

\* Moving on to a step that needs no trigger.
LEMMA PlainStep ==
  ASSUME TypeOK, PersistedInv, NEW r \in Proc,
         NEW pc \in PC \ {"truncate", "write", "promote_set", "isolate_break"},
         Step(r, pc), UNCHANGED <<lifecycle, reached, promoteRan>>
  PROVE  PersistedInv'
<1>1. cmd[r] \in Command /\ Entitled(cmd[r])
  BY DEF TypeOK, PersistedInv
<1>2. Entitled([cmd[r] EXCEPT !.pc = pc])
  BY <1>1 DEF Entitled, Command
<1> QED BY <1>2, EntitledStep DEF Step

\* SENTINEL RESET, and moving on if it was the last.
LEMMA ResetPersisted ==
  ASSUME TypeOK, PersistedInv, NEW r \in Proc,
         NEW pc \in PC \ {"truncate", "write", "promote_set", "isolate_break"},
         ResetNext(r, pc), UNCHANGED <<lifecycle, reached, promoteRan>>
  PROVE  PersistedInv'
<1>1. cmd[r] \in Command /\ Entitled(cmd[r])
  BY DEF TypeOK, PersistedInv
<1>2. PICK R \in SUBSET Sentinel, q \in {pc, cmd[r].pc} : Goto(r, AfterReset(r, R, q))
  BY ResetForm DEF TypeOK
<1>3. Entitled(AfterReset(r, R, q))
  BY <1>1 DEF Entitled, Command, AfterReset
<1> QED BY <1>2, <1>3, EntitledStep

LEMMA AdvanceEntitled ==
  ASSUME TypeOK, PersistedInv, NEW r \in Proc, NEW ready \in BOOLEAN,
         NEW t \in Trigger \ {"PromoteV8"}, AdvanceOrEnd(r, ready, t),
         UNCHANGED <<lifecycle, reached, promoteRan>>
  PROVE  PersistedInv'
<1>1. cmd[r] \in Command
  BY DEF TypeOK
<1>2. CASE ready /\ CanFire(lifecycle, t)
  <2>1. From[t] \in reached
    BY <1>2, Edges DEF CanFire, PersistedInv
  <2>2. Entitled([cmd[r] EXCEPT !.pc = "truncate", !.trigger = t])
    BY <1>1, <2>1, Edges DEF Entitled, Command
  <2> QED BY <1>2, <2>2, EntitledStep DEF AdvanceOrEnd
<1>3. CASE ~(ready /\ CanFire(lifecycle, t))
  BY <1>3, IdleEntitled, EntitledStep DEF AdvanceOrEnd
<1> QED BY <1>2, <1>3

LEMMA InstanceAddPersisted ==
  ASSUME TypeOK, PersistedInv, NEW r \in Proc, InstanceAdd(r)
  PROVE  PersistedInv'
<1> USE DEF ghostVars
<1>0. cmd[r] \in Command /\ Entitled(cmd[r])
  BY DEF TypeOK, PersistedInv
<1>1. ASSUME NEW v \in {6, 8}, NEW p \in Port, AddInstance(r, v, p)
      PROVE  PersistedInv'
  <2>1. PICK s \in Sentinel :
          Goto(r, [Idle EXCEPT !.pc = "add_priority", !.version = v,
                               !.target = p, !.master = master[s]])
    BY <1>1 DEF AddInstance
  <2>2. Entitled([Idle EXCEPT !.pc = "add_priority", !.version = v,
                              !.target = p, !.master = master[s]])
    BY DEF Entitled, Idle, NoFire
  <2> QED BY <1>1, <2>1, <2>2, EntitledStep DEF AddInstance
<1>2. CASE AddPriority(r)
  <2>1. Entitled([cmd[r] EXCEPT !.pc = "add_start",
                    !.prio = InitialReplicaPriority(cmd[r].version, lifecycle)])
    BY <1>0 DEF Entitled, Command
  <2> QED BY <1>2, <2>1, EntitledStep DEF AddPriority
<1>3. CASE AddStart(r)
  BY <1>3, PlainStep DEF AddStart, PC
<1>4. CASE AddReplicaOf(r)
  BY <1>4, PlainStep DEF AddReplicaOf, PC
<1>5. CASE AddWait(r)
  BY <1>5, PlainStep DEF AddWait, PC
<1>6. CASE AddReset(r)
  BY <1>6, ResetPersisted DEF AddReset, PC
<1>7. CASE AddAdvance(r)
  BY <1>7, AdvanceEntitled DEF AddAdvance, Trigger
<1> QED BY <1>1, <1>2, <1>3, <1>4, <1>5, <1>6, <1>7 DEF InstanceAdd

LEMMA InstanceRmPersisted ==
  ASSUME TypeOK, PersistedInv, NEW r \in Proc, InstanceRm(r)
  PROVE  PersistedInv'
<1> USE DEF ghostVars
<1>1. ASSUME NEW p \in Port, RemoveInstance(r, p)
      PROVE  PersistedInv'
  <2>1. PICK S \in SUBSET Sentinel :
          Goto(r, [Idle EXCEPT !.pc = "rm_break", !.target = p,
                               !.checked = (S = Sentinel)])
    BY <1>1 DEF RemoveInstance
  <2>2. Entitled([Idle EXCEPT !.pc = "rm_break", !.target = p,
                              !.checked = (S = Sentinel)])
    BY DEF Entitled, Idle, NoFire
  <2> QED BY <1>1, <2>1, <2>2, EntitledStep DEF RemoveInstance
<1>2. CASE RmBreak(r)
  BY <1>2, PlainStep DEF RmBreak, PC
<1>3. CASE RmReset(r)
  BY <1>3, ResetPersisted DEF RmReset, PC
<1>4. CASE RmRemove(r)
  BY <1>4, PlainStep DEF RmRemove, PC
<1>5. CASE RmAdvance(r)
  BY <1>5, AdvanceEntitled DEF RmAdvance, Trigger
<1>6. CASE RmList(r)
  <2>0. cmd[r] \in Command /\ Entitled(cmd[r])
    BY DEF TypeOK, PersistedInv
  <2>1. Entitled([cmd[r] EXCEPT !.pc = "rm_advance", !.list = {p \in Containers : version[p] = 6}])
    BY <2>0 DEF Entitled, Command
  <2> QED BY <1>6, <2>1, EntitledStep DEF RmList
<1> QED BY <1>1, <1>2, <1>3, <1>4, <1>5, <1>6 DEF InstanceRm

LEMMA PromoteV8Persisted ==
  ASSUME TypeOK, PersistedInv, NEW r \in Proc, ClusterPromoteV8(r)
  PROVE  PersistedInv'
<1> USE DEF ghostVars
<1>0. cmd[r] \in Command /\ Entitled(cmd[r])
  BY DEF TypeOK, PersistedInv
<1>1. CASE PromoteV8(r)
  <2> DEFINE others(s) == Containers \ {master[s]}
             expected == [p \in Port |-> IF version[p] = 8
                                         THEN ReplicaPriorityV8Promoted
                                         ELSE ReplicaPriorityDefault]
             next(s) == [Idle EXCEPT !.pc = "promote_set", !.trigger = "PromoteV8",
                                     !.list = others(s), !.todo = others(s),
                                     !.expect = expected]
  <2>1. PICK s \in Sentinel : Goto(r, next(s))
    BY <1>1 DEF PromoteV8
  <2>2. From["PromoteV8"] \in reached
    BY <1>1, Edges DEF PromoteV8, CanFire, PersistedInv, Trigger
  <2>3. next(s).pc = "promote_set" /\ next(s).trigger = "PromoteV8"
    BY DEF Idle
  <2>4. UNCHANGED <<lifecycle, reached>> /\ promoteRan'
    BY <1>1 DEF PromoteV8
  <2>5. ASSUME NEW q \in Proc PROVE Entitled(cmd[q])'
    <3> HIDE DEF next
    <3>1. cmd'[q] = next(s) \/ cmd'[q] = cmd[q]
      BY <2>1 DEF Goto, TypeOK
    <3>2. CASE cmd'[q] = next(s)
      BY <2>2, <2>3, <2>4, <3>2, Edges DEF Entitled, Trigger
    <3>3. CASE cmd'[q] = cmd[q]
      BY <2>4, <3>3 DEF Entitled, PersistedInv
    <3> QED BY <3>1, <3>2, <3>3
  <2>6. NoStageSkipped'
    BY <2>4 DEF PersistedInv, NoStageSkipped, Persisted!NoStageSkipped
  <2> QED BY <2>4, <2>5, <2>6 DEF PersistedInv
<1>2. ASSUME NEW p \in Port, PromoteSet(r, p)
      PROVE  PersistedInv'
  <2>1. Entitled([cmd[r] EXCEPT !.todo = @ \ {p}])
    BY <1>0 DEF Entitled, Command
  <2> QED BY <1>2, <2>1, EntitledStep DEF PromoteSet
<1>3. CASE PromoteWait(r)
  <2>1. Entitled([cmd[r] EXCEPT !.pc = "truncate"])
    BY <1>0, <1>3 DEF Entitled, Command, PromoteWait, At, NoFire
  <2> QED BY <1>3, <2>1, EntitledStep DEF PromoteWait, Step
<1> QED BY <1>1, <1>2, <1>3 DEF ClusterPromoteV8

LEMMA FailoverPersisted ==
  ASSUME TypeOK, PersistedInv, NEW r \in Proc, ClusterFailover(r)
  PROVE  PersistedInv'
<1> USE DEF ghostVars
<1>0. cmd[r] \in Command /\ Entitled(cmd[r])
  BY DEF TypeOK, PersistedInv
<1>1. CASE Failover(r)
  <2> DEFINE fires == CanFire(lifecycle, "Failover")
             next(s) ==
               [Idle EXCEPT
                  !.pc = "failover_reconcile",
                  !.trigger = IF fires THEN "Failover" ELSE NoFire,
                  !.master = master[s], !.list = Containers,
                  !.todo = Containers \ {master[s]}, !.term = elections]
  <2>1. PICK s \in Sentinel : Goto(r, next(s))
    BY <1>1 DEF Failover
  <2>2. fires => From["Failover"] \in reached
    BY Edges DEF CanFire, PersistedInv, Trigger
  <2>3. /\ next(s).pc = "failover_reconcile"
        /\ next(s).trigger = IF fires THEN "Failover" ELSE NoFire
    BY DEF Idle
  <2>4. Entitled(next(s))
    <3> HIDE DEF next, fires
    <3> QED BY <2>2, <2>3 DEF Entitled, NoFire
  <2> HIDE DEF next
  <2> QED BY <1>1, <2>1, <2>4, EntitledStep DEF Failover
<1>2. ASSUME NEW p \in Port, Reconcile(r, p)
      PROVE  PersistedInv'
  <2> DEFINE c1 == [cmd[r] EXCEPT !.todo = @ \ {p}, !.skipped = @ \cup {p}]
             c2 == [cmd[r] EXCEPT !.todo = @ \ {p}]
             c3 == [cmd[r] EXCEPT !.todo = @ \ {p}, !.rewired = TRUE,
                                  !.target = p, !.pc = "failover_sync"]
  <2>1. Entitled(c1) /\ Entitled(c2) /\ Entitled(c3)
    BY <1>0 DEF Entitled, Command
  <2>2. Goto(r, c1) \/ Goto(r, c2) \/ Goto(r, c3)
    BY <1>2 DEF Reconcile
  <2>3. UNCHANGED <<lifecycle, reached, promoteRan>>
    BY <1>2 DEF Reconcile
  <2> HIDE DEF c1, c2, c3
  <2> QED BY <2>1, <2>2, <2>3, EntitledStep
<1>3. CASE ReconcileSync(r)
  BY <1>3, PlainStep DEF ReconcileSync, PC
<1>4. CASE ReconcileDone(r)
  <2>1. PICK s \in Sentinel :
          Goto(r, [cmd[r] EXCEPT !.pc = "failover_trigger", !.master = master[s]])
    BY <1>4 DEF ReconcileDone
  <2>2. Entitled([cmd[r] EXCEPT !.pc = "failover_trigger", !.master = master[s]])
    BY <1>0 DEF Entitled, Command
  <2> QED BY <1>4, <2>1, <2>2, EntitledStep DEF ReconcileDone
<1>5. ASSUME NEW p \in Port, FailoverTrigger(r, p)
      PROVE  PersistedInv'
  BY <1>5, PlainStep DEF FailoverTrigger, PC
<1>6. CASE FailoverWait(r)
  <2>1. cmd[r].trigger # NoFire => Entitled([cmd[r] EXCEPT !.pc = "truncate"])
    BY <1>0 DEF Entitled, Command
  <2> QED BY <1>6, <2>1, IdleEntitled, EntitledStep DEF FailoverWait
<1>7. ASSUME NEW p \in Port, ReconcileSee(r, p)
      PROVE  PersistedInv'
  <2>1. Entitled([cmd[r] EXCEPT !.seen = @ \cup {p}])
    BY <1>0 DEF Entitled, Command
  <2> QED BY <1>7, <2>1, EntitledStep DEF ReconcileSee
<1> QED BY <1>1, <1>2, <1>3, <1>4, <1>5, <1>6, <1>7 DEF ClusterFailover

LEMMA IsolatePersisted ==
  ASSUME TypeOK, PersistedInv, NEW r \in Proc, ClusterIsolate(r)
  PROVE  PersistedInv'
<1> USE DEF ghostVars
<1>0. cmd[r] \in Command /\ Entitled(cmd[r])
  BY DEF TypeOK, PersistedInv
<1>1. CASE IsolateV6Replicas(r)
  <2> DEFINE next(m) ==
        [Idle EXCEPT !.pc = "isolate_break", !.trigger = "BreakReplication",
                     !.todo = {p \in Containers : version[p] = 6} \ {m}]
  <2>1. PICK m \in {master[s] : s \in Sentinel} \cup {NoPort} : Goto(r, next(m))
    BY <1>1 DEF IsolateV6Replicas
  <2>2. From["BreakReplication"] \in reached
    BY <1>1, Edges DEF IsolateV6Replicas, CanFire, PersistedInv, Trigger
  <2>3. next(m).pc = "isolate_break" /\ next(m).trigger = "BreakReplication"
    BY DEF Idle
  <2> HIDE DEF next
  <2>4. Entitled(next(m))
    BY <2>2, <2>3 DEF Entitled, NoFire
  <2> QED BY <1>1, <2>1, <2>4, EntitledStep DEF IsolateV6Replicas
<1>2. ASSUME NEW p \in Port, IsolateBreak(r, p)
      PROVE  PersistedInv'
  <2>1. Entitled([cmd[r] EXCEPT !.todo = @ \ {p}])
    BY <1>0 DEF Entitled, Command
  <2> QED BY <1>2, <2>1, EntitledStep DEF IsolateBreak
<1>3. CASE IsolateReset(r)
  <2>1. PICK R \in SUBSET Sentinel, q \in {"truncate", "isolate_break"} :
          Goto(r, AfterReset(r, R, q))
    BY <1>3, ResetForm DEF IsolateReset, At, TypeOK
  <2>2. Entitled(AfterReset(r, R, q))
    BY <1>0, <1>3 DEF Entitled, Command, IsolateReset, At, NoFire, AfterReset
  <2> QED BY <1>3, <2>1, <2>2, EntitledStep DEF IsolateReset
<1> QED BY <1>1, <1>2, <1>3 DEF ClusterIsolate

\* Saving: the successor of a stage that was reached becomes reached.
LEMMA SavePersisted ==
  ASSUME TypeOK, PersistedInv, NEW r \in Proc, Truncate(r) \/ Write(r) \/ Abort(r)
  PROVE  PersistedInv'
<1>0. cmd[r] \in Command /\ Entitled(cmd[r])
  BY DEF TypeOK, PersistedInv
<1>1. CASE Truncate(r)
  <2>1. UNCHANGED <<reached, promoteRan>> /\ lifecycle' = Torn
    BY <1>1 DEF Truncate, ghostVars
  <2>2. Entitled([cmd[r] EXCEPT !.pc = "write"])
    BY <1>0, <1>1 DEF Entitled, Command, Truncate, At
  <2>3. ASSUME NEW q \in Proc PROVE Entitled(cmd[q])'
    <3>1. cmd'[q] = [cmd[r] EXCEPT !.pc = "write"] \/ cmd'[q] = cmd[q]
      BY <1>1 DEF Truncate, Step, Goto, TypeOK
    <3> QED BY <2>1, <2>2, <3>1 DEF Entitled, PersistedInv
  <2>4. NoStageSkipped'
    BY <2>1 DEF PersistedInv, NoStageSkipped, Persisted!NoStageSkipped
  <2> QED BY <2>1, <2>3, <2>4 DEF PersistedInv
<1>2. CASE Write(r)
  <2> DEFINE t == cmd[r].trigger
  <2>1. t \in Trigger /\ From[t] \in reached
    BY <1>0, <1>2 DEF Entitled, Command, Write, At
  <2>2. /\ lifecycle' = To[t] /\ reached' = reached \cup {To[t]}
        /\ promoteRan' = promoteRan
    BY <1>2 DEF Write
  <2>3. ASSUME NEW q \in Proc PROVE Entitled(cmd[q])'
    <3>1. cmd'[q] = Idle \/ cmd'[q] = cmd[q]
      BY <1>2 DEF Write, Goto, TypeOK
    <3>2. CASE cmd'[q] = Idle
      BY <3>2 DEF Entitled, Idle, NoFire
    <3>3. CASE cmd'[q] = cmd[q]
      BY <2>2, <3>3 DEF Entitled, PersistedInv
    <3> QED BY <3>1, <3>2, <3>3
  <2>4. ASSUME NEW u \in Trigger, To[u] \in reached'
        PROVE  From[u] \in reached'
    <3>1. CASE To[u] \in reached
      BY <2>2, <3>1, NoStageSkippedDef DEF PersistedInv
    <3>2. CASE To[u] = To[t]
      BY <2>1, <2>2, <3>2, Edges
    <3> QED BY <2>2, <2>4, <3>1, <3>2
  <2>5. NoStageSkipped'
    BY <2>4, SameFSM DEF NoStageSkipped, Persisted!NoStageSkipped
  <2> QED BY <2>2, <2>3, <2>5 DEF PersistedInv
<1>3. CASE Abort(r)
  BY <1>3, IdleEntitled, EntitledStep DEF Abort, ghostVars
<1> QED BY <1>1, <1>2, <1>3

\* Saving keeps the types: only a command with a trigger reaches the write.
LEMMA SaveTypeOK ==
  ASSUME TypeOK, PersistedInv, NEW r \in Proc, Truncate(r) \/ Write(r) \/ Abort(r)
  PROVE  TypeOK'
<1>0. cmd \in [Proc -> Command] /\ cmd[r] \in Command /\ Entitled(cmd[r])
  BY DEF TypeOK, PersistedInv
<1>1. CASE Truncate(r)
  <2>1. cmd' \in [Proc -> Command]
    BY <1>0, <1>1, StepType DEF Truncate, PC
  <2> QED
    BY <1>1, <2>1 DEF Truncate, TypeOK, ReplicationTypeOK, replicationVars, instanceVars,
                      sentinelVars, ghostVars
<1>2. CASE Write(r)
  <2>1. cmd' \in [Proc -> Command]
    BY <1>0, <1>2, IdleIsCommand, GotoType DEF Write
  <2>2. cmd[r].trigger \in Trigger
    BY <1>0, <1>2 DEF Entitled, Command, Write, At
  <2>3. To[cmd[r].trigger] \in Stage
    BY <2>2, Edges
  <2> QED
    BY <1>2, <2>1, <2>3 DEF Write, TypeOK, ReplicationTypeOK, replicationVars,
                            instanceVars, sentinelVars
<1>3. CASE Abort(r)
  <2>1. cmd' \in [Proc -> Command]
    BY <1>0, <1>3, IdleIsCommand, GotoType DEF Abort
  <2> QED BY <1>3, <2>1, LocalStepTypeOK DEF Abort
<1> QED BY <1>1, <1>2, <1>3

----------------------------------------------------------------------------
(* The theorems on types and on what is persisted *)

Consistent == TypeOK /\ PersistedInv

LEMMA InitConsistent == Init => Consistent
<1> SUFFICES ASSUME Init PROVE Consistent
  OBVIOUS
<1>1. ReplicationTypeOK
  BY PortAssumption
  DEF Init, ReplicationInit, ReplicationTypeOK, Version, Absent, Priority, NotRead
<1>2. TypeOK
  BY <1>1, IdleIsCommand, Edges DEF Init, TypeOK
<1>3. \A t \in Trigger : To[t] \notin reached
  BY Edges DEF Init
<1>4. PersistedInv
  BY <1>3, IdleEntitled, NoStageSkippedDef DEF Init, PersistedInv
<1> QED BY <1>2, <1>4 DEF Consistent

LEMMA NextConsistent == Consistent /\ [Next]_vars => Consistent'
<1> SUFFICES ASSUME Consistent, [Next]_vars PROVE Consistent'
  OBVIOUS
<1> USE DEF Consistent
<1>1. CASE UNCHANGED vars
  <2>1. TypeOK'
    BY <1>1 DEF vars, TypeOK, ReplicationTypeOK, replicationVars, instanceVars,
                sentinelVars, ghostVars
  <2>2. PersistedInv'
    BY <1>1 DEF vars, PersistedInv, Entitled, NoStageSkipped, Persisted!NoStageSkipped,
                ghostVars
  <2> QED BY <2>1, <2>2
<1>2. CASE Environment /\ UNCHANGED <<lifecycle, cmd, added, ghostVars>>
  <2>1. TypeOK'
    BY <1>2, EnvironmentTypeOK DEF TypeOK, ghostVars
  <2>2. PersistedInv'
    BY <1>2 DEF PersistedInv, Entitled, NoStageSkipped, Persisted!NoStageSkipped, ghostVars
  <2> QED BY <2>1, <2>2
<1>3. ASSUME NEW r \in Proc, Russ(r)
      PROVE  Consistent'
  <2>1. CASE InstanceAdd(r)
    BY <2>1, InstanceAddTypeOK, InstanceAddPersisted
  <2>2. CASE InstanceRm(r)
    BY <2>2, InstanceRmTypeOK, InstanceRmPersisted
  <2>3. CASE ClusterPromoteV8(r)
    BY <2>3, PromoteV8TypeOK, PromoteV8Persisted
  <2>4. CASE ClusterFailover(r)
    BY <2>4, FailoverTypeOK, FailoverPersisted
  <2>5. CASE ClusterIsolate(r)
    BY <2>5, IsolateTypeOK, IsolatePersisted
  <2>6. CASE Truncate(r) \/ Write(r) \/ Abort(r)
    BY <2>6, SaveTypeOK, SavePersisted
  <2> QED BY <1>3, <2>1, <2>2, <2>3, <2>4, <2>5, <2>6 DEF Russ
<1> QED BY <1>1, <1>2, <1>3 DEF Next

\* For every set of ports, sentinels and processes, and every bound, the state
\* of the instances, the sentinels, the commands and the file is well-typed,
\* and PersistedInv holds.
THEOREM AlwaysConsistent == Spec => []Consistent
BY InitConsistent, NextConsistent, PTL DEF Spec

\* Type correctness of the upgrade (cmd/cluster.go, cmd/instance.go).
THEOREM TypeCorrect == Spec => []TypeOK
<1>1. Consistent => TypeOK
  BY DEF Consistent
<1> QED BY <1>1, AlwaysConsistent, PTL

\* However many processes drive the upgrade, no stage is on file before the
\* stage it has to come from was, and a command only saves the successor of a
\* stage that was (machine.go, Fire).
THEOREM StagesPersisted == Spec => []PersistedInv
<1>1. Consistent => PersistedInv
  BY DEF Consistent
<1> QED BY <1>1, AlwaysConsistent, PTL

----------------------------------------------------------------------------
(* The commands implement the abstract lifecycle *)

\* Only Truncate and Write touch the file.
LEMMA OnlySavesTouchFile ==
  ASSUME NEW r \in Proc, Russ(r)
  PROVE  Truncate(r) \/ Write(r) \/ UNCHANGED <<lifecycle, reached>>
<1> USE DEF ghostVars
<1>1. CASE InstanceAdd(r)
  BY <1>1 DEF InstanceAdd, AddInstance, AddPriority, AddStart, AddReplicaOf, AddWait,
              AddReset, AddAdvance
<1>2. CASE InstanceRm(r)
  BY <1>2 DEF InstanceRm, RemoveInstance, RmBreak, RmReset, RmRemove, RmList, RmAdvance
<1>3. CASE ClusterPromoteV8(r)
  BY <1>3, ZenonT(40) DEF ClusterPromoteV8, PromoteV8, PromoteSet, PromoteWait
<1>4. CASE ClusterFailover(r)
  BY <1>4 DEF ClusterFailover, Failover, Reconcile, ReconcileSync, ReconcileSee, ReconcileDone,
              FailoverTrigger, FailoverWait
<1>5. CASE ClusterIsolate(r)
  BY <1>5 DEF ClusterIsolate, IsolateV6Replicas, IsolateBreak, IsolateReset
<1>6. CASE Abort(r)
  BY <1>6 DEF Abort
<1> QED BY <1>1, <1>2, <1>3, <1>4, <1>5, <1>6 DEF Russ

\* A write completes a transition whose source was reached: LateAdvance.
LEMMA WriteAdvances ==
  ASSUME Consistent, NEW r \in Proc, Write(r)
  PROVE  Persisted!Next
<1>1. cmd[r] \in Command /\ Entitled(cmd[r])
  BY DEF Consistent, TypeOK, PersistedInv
<1>2. PICK t \in Trigger : t = cmd[r].trigger /\ From[t] \in reached
  BY <1>1 DEF Entitled, Command, Write, At
<1>3. lifecycle' = To[t] /\ reached' = reached \cup {To[t]}
  BY <1>2 DEF Write
<1>4. Persisted!LateAdvance(t)
  BY <1>2, <1>3, SameFSM DEF Persisted!LateAdvance
<1> QED BY <1>4, SameFSM DEF Persisted!Next

\* Every step of any number of russ processes, and of the environment, is a
\* step of the abstract lifecycle or leaves it alone (machine.go Fire,
\* store.go Save).
THEOREM PersistedLifecycle == Spec => ImplementsLifecycle
<1>1. Init => Persisted!Init
  BY SameFSM DEF Init, Persisted!Init
<1>2. Consistent /\ [Next]_vars => [Persisted!Next]_(Persisted!lifecycleVars)
  <2> SUFFICES ASSUME Consistent, [Next]_vars
               PROVE  Persisted!Next \/ UNCHANGED <<lifecycle, reached>>
    BY DEF Persisted!lifecycleVars
  <2>1. CASE UNCHANGED vars
    BY <2>1 DEF vars, ghostVars
  <2>2. CASE Environment /\ UNCHANGED <<lifecycle, cmd, added, ghostVars>>
    BY <2>2 DEF ghostVars
  <2>3. ASSUME NEW r \in Proc, Russ(r)
        PROVE  Persisted!Next \/ UNCHANGED <<lifecycle, reached>>
    <3>1. CASE Truncate(r)
      BY <3>1, SameFSM DEF Truncate, ghostVars, Persisted!Next, Persisted!Tear
    <3>2. CASE Write(r)
      BY <3>2, WriteAdvances
    <3> QED BY <2>3, <3>1, <3>2, OnlySavesTouchFile
  <2> QED BY <2>1, <2>2, <2>3 DEF Next
<1> QED
  BY <1>1, <1>2, AlwaysConsistent, PTL DEF Spec, ImplementsLifecycle, Persisted!Spec

----------------------------------------------------------------------------
(* The priority regime of MixedVersions *)

\* What a command that only talks to sentinels, or only reads, keeps: the
\* instances as they are, and nothing new in what sentinels cached.
Quiet ==
  /\ UNCHANGED <<version, prio, reached, promoteRan, misread, retired>>
  /\ \A s \in Sentinel : \A p \in Port :
       cached'[s][p] = cached[s][p] \/ cached'[s][p] = NotRead

\* A command that is about to start an instance starts it within the regime.
StartsInRegime(c) ==
  c.pc = "add_start" => c.prio = RegimePriority(c.version)

LEMMA QuietStep ==
  ASSUME TypeOK, MixedRegime, NEW r \in Proc, NEW c, Goto(r, c), Quiet,
         StartsInRegime(c)
  PROVE  MixedRegime'
<1> SUFFICES ASSUME ~promoteRan, ~misread
             PROVE  MixedRegime'
  BY DEF MixedRegime, Quiet
<1>1. reached' \subseteq {"AllV6", "MixedVersions"}
  BY DEF MixedRegime, Quiet
<1>2. \A p \in Port : prio'[p] = RegimePriority(version'[p])
  BY DEF MixedRegime, Quiet
<1>3. ASSUME NEW s \in Sentinel, NEW p \in Port \ retired', cached'[s][p] # NotRead
      PROVE  Running(p)' /\ cached'[s][p] = prio'[p]
  BY <1>3 DEF MixedRegime, Quiet, Running
<1>4. ASSUME NEW q \in Proc PROVE StartsInRegime(cmd'[q])
  <2>1. cmd'[q] = c \/ cmd'[q] = cmd[q]
    BY DEF Goto, TypeOK
  <2> QED BY <2>1 DEF MixedRegime, StartsInRegime, At
<1> QED BY <1>1, <1>2, <1>3, <1>4 DEF MixedRegime, StartsInRegime, At, RegimePriority, Running

\* Moving on to any step but the start of an instance.
LEMMA QuietMove ==
  ASSUME TypeOK, MixedRegime, NEW r \in Proc, NEW pc \in PC \ {"add_start"},
         Step(r, pc), Quiet
  PROVE  MixedRegime'
<1>1. StartsInRegime([cmd[r] EXCEPT !.pc = pc])
  BY DEF StartsInRegime, TypeOK, Command
<1> QED BY <1>1, QuietStep DEF Step

LEMMA UnchangedIsQuiet ==
  ASSUME UNCHANGED <<instanceVars, cached, ghostVars>>
  PROVE  Quiet
BY DEF Quiet, instanceVars, ghostVars

LEMMA ResetIsQuiet ==
  ASSUME TypeOK, \E S \in SUBSET Sentinel : SentinelReset(S),
         UNCHANGED <<instanceVars, ghostVars>>
  PROVE  Quiet
BY DEF Quiet, instanceVars, ghostVars, SentinelReset, TypeOK, ReplicationTypeOK

LEMMA ReplicaOfIsQuiet ==
  ASSUME UNCHANGED <<version, prio, down, outages, sentinelVars, ghostVars>>
  PROVE  Quiet
BY DEF Quiet, sentinelVars, ghostVars

\* SENTINEL RESET, and moving on if it was the last.
LEMMA ResetMove ==
  ASSUME TypeOK, MixedRegime, NEW r \in Proc, NEW pc \in PC \ {"add_start"},
         ResetNext(r, pc), ~At(r, "add_start"), UNCHANGED <<instanceVars, ghostVars>>
  PROVE  MixedRegime'
<1>1. PICK R \in SUBSET Sentinel, q \in {pc, cmd[r].pc} : Goto(r, AfterReset(r, R, q))
  BY ResetForm DEF TypeOK
<1>2. StartsInRegime(AfterReset(r, R, q))
  BY DEF StartsInRegime, TypeOK, Command, AfterReset, At
<1>3. Quiet
  BY ResetForm, ResetIsQuiet DEF TypeOK
<1> QED BY <1>1, <1>2, <1>3, QuietStep

\* Firing a trigger without an action, or ending the command.
LEMMA EndIsQuiet ==
  ASSUME TypeOK, MixedRegime, NEW r \in Proc, NEW ready, NEW t,
         AdvanceOrEnd(r, ready, t), Quiet
  PROVE  MixedRegime'
<1>1. cmd[r] \in Command
  BY DEF TypeOK
<1>2. StartsInRegime(Idle)
  BY DEF StartsInRegime, Idle
<1>3. StartsInRegime([cmd[r] EXCEPT !.pc = "truncate", !.trigger = t])
  BY <1>1 DEF StartsInRegime, Command
<1> QED BY <1>2, <1>3, QuietStep DEF AdvanceOrEnd

LEMMA InstanceAddRegime ==
  ASSUME Consistent, MixedRegime, NEW r \in Proc, InstanceAdd(r)
  PROVE  MixedRegime'
<1> USE DEF Consistent
<1>0. cmd[r] \in Command
  BY DEF TypeOK
<1>1. ASSUME NEW v \in {6, 8}, NEW p \in Port, AddInstance(r, v, p)
      PROVE  MixedRegime'
  <2>1. PICK s \in Sentinel :
          Goto(r, [Idle EXCEPT !.pc = "add_priority", !.version = v,
                               !.target = p, !.master = master[s]])
    BY <1>1 DEF AddInstance
  <2>2. StartsInRegime([Idle EXCEPT !.pc = "add_priority", !.version = v,
                                    !.target = p, !.master = master[s]])
    BY DEF StartsInRegime, Idle
  <2>3. Quiet
    BY <1>1, UnchangedIsQuiet DEF AddInstance, replicationVars, sentinelVars
  <2> QED BY <2>1, <2>2, <2>3, QuietStep
<1>2. CASE AddPriority(r)
  <2> SUFFICES ASSUME ~promoteRan', ~misread' PROVE MixedRegime'
    BY DEF MixedRegime
  <2> DEFINE c == [cmd[r] EXCEPT !.pc = "add_start",
                     !.prio = InitialReplicaPriority(cmd[r].version, lifecycle)]
  <2>1. ~promoteRan /\ ~misread /\ ~(cmd[r].version = 8 /\ lifecycle = Torn)
    BY <1>2 DEF AddPriority
  <2>2. cmd[r].version # 8 \/ lifecycle \in {"AllV6", "MixedVersions"}
    BY <2>1 DEF PersistedInv, MixedRegime
  <2>3. InitialReplicaPriority(cmd[r].version, lifecycle) = RegimePriority(cmd[r].version)
    BY <2>2 DEF InitialReplicaPriority, RegimePriority
  <2>4. StartsInRegime(c)
    BY <1>0, <2>3 DEF StartsInRegime, Command
  <2>5. Quiet
    <3>1. misread = FALSE /\ misread' = FALSE
      BY <1>2, <2>1 DEF AddPriority, TypeOK
    <3> QED
      BY <1>2, <3>1 DEF AddPriority, Quiet, replicationVars, instanceVars, sentinelVars
  <2>6. Goto(r, c)
    BY <1>2 DEF AddPriority
  <2> HIDE DEF c
  <2> QED BY <2>4, <2>5, <2>6, QuietStep
<1>3. CASE AddStart(r)
  <2> SUFFICES ASSUME ~promoteRan, ~misread PROVE MixedRegime'
    BY <1>3 DEF MixedRegime, AddStart, ghostVars
  <2> DEFINE t == cmd[r].target
  <2>1. cmd[r].prio = RegimePriority(cmd[r].version)
    BY <1>3 DEF MixedRegime, AddStart, At
  <2>2. ASSUME NEW p \in Port
        PROVE  /\ prio'[p] = RegimePriority(version'[p])
               /\ p = t \/ (version'[p] = version[p] /\ prio'[p] = prio[p])
    BY <1>3, <2>1 DEF MixedRegime, AddStart, TypeOK, ReplicationTypeOK
  <2>3. UNCHANGED <<cached, reached, retired, promoteRan, misread>> /\ ~Running(t)
    BY <1>3 DEF AddStart, sentinelVars, ghostVars
  <2>4. ASSUME NEW s \in Sentinel, NEW p \in Port \ retired', cached'[s][p] # NotRead
        PROVE  Running(p)' /\ cached'[s][p] = prio'[p]
    <3>1. Running(p) /\ cached[s][p] = prio[p]
      BY <2>3, <2>4 DEF MixedRegime
    <3> QED BY <2>2, <2>3, <3>1 DEF Running
  <2>5. ASSUME NEW q \in Proc, At(q, "add_start")'
        PROVE  cmd'[q].prio = RegimePriority(cmd'[q].version)
    <3>1. cmd'[r].pc = "add_replicaof" /\ (q # r => cmd'[q] = cmd[q])
      BY <1>0, <1>3 DEF AddStart, Step, Goto, Command, TypeOK
    <3> QED BY <2>5, <3>1 DEF At, MixedRegime
  <2> QED BY <2>2, <2>3, <2>4, <2>5 DEF MixedRegime, RegimePriority
<1>4. CASE AddReplicaOf(r)
  BY <1>4, QuietMove, ReplicaOfIsQuiet DEF AddReplicaOf, PC
<1>5. CASE AddWait(r)
  BY <1>5, QuietMove, UnchangedIsQuiet DEF AddWait, PC, replicationVars, sentinelVars
<1>6. CASE AddReset(r)
  BY <1>6, ResetMove DEF AddReset, PC, At
<1>7. CASE AddAdvance(r)
  BY <1>7, EndIsQuiet, UnchangedIsQuiet DEF AddAdvance, replicationVars, sentinelVars
<1> QED BY <1>1, <1>2, <1>3, <1>4, <1>5, <1>6, <1>7 DEF InstanceAdd

LEMMA InstanceRmRegime ==
  ASSUME Consistent, MixedRegime, NEW r \in Proc, InstanceRm(r)
  PROVE  MixedRegime'
<1> USE DEF Consistent
<1>0. cmd[r] \in Command
  BY DEF TypeOK
<1>1. ASSUME NEW p \in Port, RemoveInstance(r, p)
      PROVE  MixedRegime'
  <2>1. PICK S \in SUBSET Sentinel :
          Goto(r, [Idle EXCEPT !.pc = "rm_break", !.target = p,
                               !.checked = (S = Sentinel)])
    BY <1>1 DEF RemoveInstance
  <2>2. StartsInRegime([Idle EXCEPT !.pc = "rm_break", !.target = p,
                                    !.checked = (S = Sentinel)])
    BY DEF StartsInRegime, Idle
  <2>3. Quiet
    BY <1>1, UnchangedIsQuiet DEF RemoveInstance, replicationVars, sentinelVars
  <2> QED BY <2>1, <2>2, <2>3, QuietStep
<1>2. CASE RmBreak(r)
  BY <1>2, QuietMove, ReplicaOfIsQuiet DEF RmBreak, PC
<1>3. CASE RmReset(r)
  BY <1>3, ResetMove DEF RmReset, PC, At
<1>4. CASE RmRemove(r)
  <2> SUFFICES ASSUME ~promoteRan, ~misread PROVE MixedRegime'
    BY <1>4 DEF MixedRegime, RmRemove
  <2> DEFINE t == cmd[r].target
  <2>1. ASSUME NEW p \in Port
        PROVE  /\ prio'[p] = RegimePriority(version'[p])
               /\ p = t \/ (version'[p] = version[p] /\ prio'[p] = prio[p])
    BY <1>4 DEF MixedRegime, RmRemove, TypeOK, ReplicationTypeOK, RegimePriority, Absent
  <2>2. UNCHANGED <<cached, reached, promoteRan, misread>> /\ retired' = retired \cup {t}
    BY <1>4 DEF RmRemove, sentinelVars
  <2>3. ASSUME NEW s \in Sentinel, NEW p \in Port \ retired', cached'[s][p] # NotRead
        PROVE  Running(p)' /\ cached'[s][p] = prio'[p]
    <3>1. Running(p) /\ cached[s][p] = prio[p] /\ p # t
      BY <2>2, <2>3 DEF MixedRegime
    <3> QED BY <2>1, <2>2, <3>1 DEF Running
  <2>4. ASSUME NEW q \in Proc, At(q, "add_start")'
        PROVE  cmd'[q].prio = RegimePriority(cmd'[q].version)
    <3>1. cmd'[r].pc = "rm_list" /\ (q # r => cmd'[q] = cmd[q])
      BY <1>0, <1>4 DEF RmRemove, Step, Goto, Command, TypeOK
    <3> QED BY <2>4, <3>1 DEF At, MixedRegime
  <2> QED BY <2>1, <2>2, <2>3, <2>4 DEF MixedRegime, RegimePriority
<1>5. CASE RmAdvance(r)
  BY <1>5, EndIsQuiet, UnchangedIsQuiet DEF RmAdvance, replicationVars, sentinelVars
<1>6. CASE RmList(r)
  <2>1. StartsInRegime([cmd[r] EXCEPT !.pc = "rm_advance",
                                      !.list = {p \in Containers : version[p] = 6}])
    BY <1>0 DEF StartsInRegime, Command
  <2>2. Quiet
    BY <1>6, UnchangedIsQuiet DEF RmList, replicationVars, sentinelVars
  <2> QED BY <1>6, <2>1, <2>2, QuietStep DEF RmList
<1> QED BY <1>1, <1>2, <1>3, <1>4, <1>5, <1>6 DEF InstanceRm

\* promote-v8 ends the regime; nothing is claimed once it was accepted.
LEMMA PromoteV8Regime ==
  ASSUME Consistent, MixedRegime, NEW r \in Proc, ClusterPromoteV8(r)
  PROVE  MixedRegime'
<1>1. CASE PromoteV8(r)
  BY <1>1 DEF PromoteV8, MixedRegime
<1>2. CASE At(r, "promote_set") /\ UNCHANGED promoteRan
  BY <1>2 DEF Consistent, PersistedInv, Entitled, At, MixedRegime
<1>3. PromoteV8(r) \/ (At(r, "promote_set") /\ UNCHANGED promoteRan)
  BY DEF ClusterPromoteV8, PromoteSet, PromoteWait, ghostVars
<1> QED BY <1>1, <1>2, <1>3

LEMMA FailoverRegime ==
  ASSUME Consistent, MixedRegime, NEW r \in Proc, ClusterFailover(r)
  PROVE  MixedRegime'
<1> USE DEF Consistent
<1>0. cmd[r] \in Command
  BY DEF TypeOK
<1>1. CASE Failover(r)
  <2> DEFINE next(s) ==
        [Idle EXCEPT
           !.pc = "failover_reconcile",
           !.trigger = IF CanFire(lifecycle, "Failover") THEN "Failover" ELSE NoFire,
           !.master = master[s], !.list = Containers,
           !.todo = Containers \ {master[s]}, !.term = elections]
  <2>1. PICK s \in Sentinel : Goto(r, next(s))
    BY <1>1 DEF Failover
  <2>2. StartsInRegime(next(s))
    BY DEF StartsInRegime, Idle
  <2>3. Quiet
    BY <1>1, UnchangedIsQuiet DEF Failover, replicationVars, sentinelVars
  <2> HIDE DEF next
  <2> QED BY <2>1, <2>2, <2>3, QuietStep
<1>2. ASSUME NEW p \in Port, Reconcile(r, p)
      PROVE  MixedRegime'
  <2> DEFINE c1 == [cmd[r] EXCEPT !.todo = @ \ {p}, !.skipped = @ \cup {p}]
             c2 == [cmd[r] EXCEPT !.todo = @ \ {p}]
             c3 == [cmd[r] EXCEPT !.todo = @ \ {p}, !.rewired = TRUE,
                                  !.target = p, !.pc = "failover_sync"]
  <2>1. StartsInRegime(c1) /\ StartsInRegime(c2) /\ StartsInRegime(c3)
    BY <1>0, <1>2 DEF StartsInRegime, Command, Reconcile, At
  <2>2. Goto(r, c1) \/ Goto(r, c2) \/ Goto(r, c3)
    BY <1>2 DEF Reconcile
  <2>3. Quiet
    BY <1>2, ReplicaOfIsQuiet DEF Reconcile
  <2> HIDE DEF c1, c2, c3
  <2> QED BY <2>1, <2>2, <2>3, QuietStep
<1>3. CASE ReconcileSync(r)
  BY <1>3, QuietMove, UnchangedIsQuiet DEF ReconcileSync, PC, replicationVars, sentinelVars
<1>4. CASE ReconcileDone(r)
  <2>1. PICK s \in Sentinel :
          Goto(r, [cmd[r] EXCEPT !.pc = "failover_trigger", !.master = master[s]])
    BY <1>4 DEF ReconcileDone
  <2>2. StartsInRegime([cmd[r] EXCEPT !.pc = "failover_trigger", !.master = master[s]])
    BY <1>0 DEF StartsInRegime, Command
  <2>3. Quiet
    BY <1>4, UnchangedIsQuiet DEF ReconcileDone, replicationVars, sentinelVars
  <2> QED BY <2>1, <2>2, <2>3, QuietStep
<1>5. ASSUME NEW p \in Port, FailoverTrigger(r, p)
      PROVE  MixedRegime'
  <2>1. Quiet
    BY <1>5 DEF FailoverTrigger, Elect, Quiet, ghostVars
  <2> QED BY <1>5, <2>1, QuietMove DEF FailoverTrigger, PC
<1>6. CASE FailoverWait(r)
  <2>1. StartsInRegime([cmd[r] EXCEPT !.pc = "truncate"]) /\ StartsInRegime(Idle)
    BY <1>0 DEF StartsInRegime, Command, Idle
  <2>2. Quiet
    BY <1>6, UnchangedIsQuiet DEF FailoverWait, replicationVars, sentinelVars
  <2> QED BY <1>6, <2>1, <2>2, QuietStep DEF FailoverWait
<1>7. ASSUME NEW p \in Port, ReconcileSee(r, p)
      PROVE  MixedRegime'
  <2>1. StartsInRegime([cmd[r] EXCEPT !.seen = @ \cup {p}])
    BY <1>0, <1>7 DEF StartsInRegime, Command, ReconcileSee, At
  <2>2. Quiet
    BY <1>7, UnchangedIsQuiet DEF ReconcileSee, replicationVars, sentinelVars
  <2> QED BY <1>7, <2>1, <2>2, QuietStep DEF ReconcileSee
<1> QED BY <1>1, <1>2, <1>3, <1>4, <1>5, <1>6, <1>7 DEF ClusterFailover

LEMMA IsolateRegime ==
  ASSUME Consistent, MixedRegime, NEW r \in Proc, ClusterIsolate(r)
  PROVE  MixedRegime'
<1> USE DEF Consistent
<1>0. cmd[r] \in Command
  BY DEF TypeOK
<1>1. CASE IsolateV6Replicas(r)
  <2> DEFINE next(m) ==
        [Idle EXCEPT !.pc = "isolate_break", !.trigger = "BreakReplication",
                     !.todo = {p \in Containers : version[p] = 6} \ {m}]
  <2>1. PICK m \in {master[s] : s \in Sentinel} \cup {NoPort} : Goto(r, next(m))
    BY <1>1 DEF IsolateV6Replicas
  <2>2. StartsInRegime(next(m))
    BY DEF StartsInRegime, Idle
  <2>3. Quiet
    BY <1>1, UnchangedIsQuiet DEF IsolateV6Replicas, replicationVars, sentinelVars
  <2> HIDE DEF next
  <2> QED BY <2>1, <2>2, <2>3, QuietStep
<1>2. ASSUME NEW p \in Port, IsolateBreak(r, p)
      PROVE  MixedRegime'
  <2>1. StartsInRegime([cmd[r] EXCEPT !.todo = @ \ {p}])
    BY <1>0, <1>2 DEF StartsInRegime, Command, IsolateBreak, At
  <2>2. Quiet
    BY <1>2, ReplicaOfIsQuiet DEF IsolateBreak
  <2> QED BY <1>2, <2>1, <2>2, QuietStep DEF IsolateBreak
<1>3. CASE IsolateReset(r)
  BY <1>3, ResetMove DEF IsolateReset, PC, At
<1> QED BY <1>1, <1>2, <1>3 DEF ClusterIsolate

\* While no promote-v8 was accepted, a write can only save MixedVersions.
LEMMA SaveRegime ==
  ASSUME Consistent, MixedRegime, NEW r \in Proc, Truncate(r) \/ Write(r) \/ Abort(r)
  PROVE  MixedRegime'
<1> USE DEF Consistent
<1>0. cmd[r] \in Command /\ Entitled(cmd[r])
  BY DEF TypeOK, PersistedInv
<1>1. CASE Truncate(r)
  BY <1>1, QuietMove, UnchangedIsQuiet DEF Truncate, PC, replicationVars, sentinelVars
<1>2. CASE Write(r)
  <2> SUFFICES ASSUME ~promoteRan, ~misread PROVE MixedRegime'
    BY <1>2 DEF MixedRegime, Write
  <2> DEFINE t == cmd[r].trigger
  <2>1. t \in Trigger /\ From[t] \in {"AllV6", "MixedVersions"} /\ t # "PromoteV8"
    BY <1>0, <1>2 DEF Entitled, Command, Write, At, MixedRegime
  <2>2. To[t] = "MixedVersions"
    BY <2>1 DEF Trigger, From, To
  <2>3. reached' \subseteq {"AllV6", "MixedVersions"}
    BY <1>2, <2>2 DEF Write, MixedRegime
  <2>4. UNCHANGED <<version, prio, cached, promoteRan, misread, retired>>
    BY <1>2 DEF Write, replicationVars, instanceVars, sentinelVars
  <2>5. ASSUME NEW q \in Proc, At(q, "add_start")'
        PROVE  cmd'[q].prio = RegimePriority(cmd'[q].version)
    <3>1. cmd'[r].pc = "idle" /\ (q # r => cmd'[q] = cmd[q])
      BY <1>2 DEF Write, Goto, Idle, TypeOK
    <3> QED BY <2>5, <3>1 DEF At, MixedRegime
  <2> QED BY <2>3, <2>4, <2>5 DEF MixedRegime, RegimePriority, Running
<1>3. CASE Abort(r)
  <2>1. StartsInRegime(Idle)
    BY DEF StartsInRegime, Idle
  <2> QED
    BY <1>3, <2>1, QuietStep, UnchangedIsQuiet DEF Abort, replicationVars, sentinelVars
<1> QED BY <1>1, <1>2, <1>3

\* Sentinels cache what an instance is configured with, or forget it.
LEMMA EnvironmentRegime ==
  ASSUME Consistent, MixedRegime, Environment,
         UNCHANGED <<lifecycle, cmd, added, ghostVars>>
  PROVE  MixedRegime'
<1> USE DEF Consistent
<1> DEFINE Reads == \A s \in Sentinel : \A p \in Port :
             \/ cached'[s][p] = cached[s][p] \/ cached'[s][p] = NotRead
             \/ Running(p) /\ cached'[s][p] = prio[p]
<1>1. UNCHANGED <<version, prio>>
  BY DEF Environment, Outage, Recover, Discover, Refresh, AutoFailover, Elect, Reattach,
         FinishFailover, AbandonFailover, Hello, instanceVars
<1>2. Reads
  <2>1. ASSUME NEW s \in Sentinel, NEW p \in Port, Refresh(s, p) PROVE Reads
    BY <2>1 DEF Refresh, Up, TypeOK, ReplicationTypeOK
  <2>2. ASSUME NEW s \in Sentinel, FinishFailover(s) PROVE Reads
    BY <2>2 DEF FinishFailover, TypeOK, ReplicationTypeOK
  <2>3. ASSUME NEW s \in Sentinel, NEW t \in Sentinel, Hello(s, t) PROVE Reads
    BY <2>3 DEF Hello, TypeOK, ReplicationTypeOK
  <2>4. CASE UNCHANGED cached
    BY <2>4
  <2> QED
    BY <2>1, <2>2, <2>3, <2>4
    DEF Environment, Outage, Recover, Discover, AutoFailover, Elect, Reattach,
        AbandonFailover, sentinelVars
<1> QED
  BY <1>1, <1>2 DEF MixedRegime, ghostVars, Running, At, RegimePriority

LEMMA InitRegime == Init => MixedRegime
BY PortAssumption
DEF Init, ReplicationInit, MixedRegime, RegimePriority, Running, Absent, NotRead, At,
    Idle, InitialStage

LEMMA NextRegime == Consistent /\ MixedRegime /\ [Next]_vars => MixedRegime'
<1> SUFFICES ASSUME Consistent, MixedRegime, [Next]_vars PROVE MixedRegime'
  OBVIOUS
<1>1. CASE UNCHANGED vars
  BY <1>1 DEF vars, replicationVars, instanceVars, sentinelVars, ghostVars, MixedRegime,
              RegimePriority, Running, At
<1>2. CASE Environment /\ UNCHANGED <<lifecycle, cmd, added, ghostVars>>
  BY <1>2, EnvironmentRegime
<1>3. ASSUME NEW r \in Proc, Russ(r)
      PROVE  MixedRegime'
  BY <1>3, InstanceAddRegime, InstanceRmRegime, PromoteV8Regime, FailoverRegime,
     IsolateRegime, SaveRegime DEF Russ
<1> QED BY <1>1, <1>2, <1>3 DEF Next

\* The priority regime of MixedVersions (client.go:82-94) holds until some
\* promote-v8 is accepted, for any number of concurrent or aborted commands.
THEOREM RegimeHolds == Spec => []MixedRegime
BY InitRegime, NextRegime, AlwaysConsistent, PTL DEF Spec

----------------------------------------------------------------------------
(* A failover in MixedVersions takes a v6 *)

\* A sentinel only starts promoting an instance by electing it.
LEMMA ElectsByElect ==
  ASSUME Consistent, Next, NEW s \in Sentinel, NEW p \in Port, Elects(s, p)
  PROVE  Elect(s, p)
<1> USE DEF Consistent
<1>0. p # NoPort /\ electing'[s] # electing[s]
  BY PortAssumption DEF Elects
<1>1. ASSUME NEW t \in Sentinel, NEW q \in Port, Elect(t, q)
      PROVE  Elect(s, p)
  <2>1. t = s /\ q = p
    BY <1>0, <1>1 DEF Elect, Elects, TypeOK, ReplicationTypeOK
  <2> QED BY <1>1, <2>1
<1>2. CASE Environment
  <2>1. ASSUME NEW t \in Sentinel, FinishFailover(t) PROVE FALSE
    BY <1>0, <2>1 DEF FinishFailover, Elects, TypeOK, ReplicationTypeOK
  <2>2. ASSUME NEW t \in Sentinel, AbandonFailover(t) PROVE FALSE
    BY <1>0, <2>2 DEF AbandonFailover, Elects, TypeOK, ReplicationTypeOK
  <2>3. ASSUME NEW t \in Sentinel, NEW u \in Sentinel, Hello(t, u) PROVE FALSE
    BY <1>0, <2>3 DEF Hello, Elects, TypeOK, ReplicationTypeOK
  <2>4. electing' # electing
    BY <1>0
  <2> QED
    BY <1>1, <1>2, <2>1, <2>2, <2>3, <2>4
    DEF Environment, Outage, Recover, Discover, Refresh, AutoFailover, Reattach,
        sentinelVars
<1>3. ASSUME NEW r \in Proc, NEW pc, ResetNext(r, pc) PROVE FALSE
  <2>1. PICK S \in SUBSET Sentinel : SentinelReset(S)
    BY <1>3, ResetForm DEF TypeOK
  <2> QED BY <1>0, <2>1 DEF SentinelReset, Elects
<1>4. ASSUME NEW r \in Proc, Russ(r)
      PROVE  Elect(s, p)
  <2>1. electing' # electing
    BY <1>0
  <2>2. CASE InstanceAdd(r)
    BY <1>3, <2>1, <2>2 DEF InstanceAdd, AddInstance, AddPriority, AddStart, AddReplicaOf,
       AddWait, AddReset, AddAdvance, replicationVars, sentinelVars
  <2>3. CASE InstanceRm(r)
    BY <1>3, <2>1, <2>3 DEF InstanceRm, RemoveInstance, RmBreak, RmReset, RmRemove,
       RmList, RmAdvance, replicationVars, sentinelVars
  <2>4. CASE ClusterPromoteV8(r)
    BY <2>1, <2>4, ZenonT(40) DEF ClusterPromoteV8, PromoteV8, PromoteSet, PromoteWait,
       replicationVars, sentinelVars
  <2>5. CASE ClusterFailover(r)
    BY <1>1, <2>1, <2>5, FirstAssumption DEF ClusterFailover, Failover, Reconcile,
       ReconcileSync, ReconcileSee, ReconcileDone, FailoverTrigger, FailoverWait, replicationVars,
       sentinelVars
  <2>6. CASE ClusterIsolate(r)
    BY <1>3, <2>1, <2>6 DEF ClusterIsolate, IsolateV6Replicas, IsolateBreak,
       IsolateReset, replicationVars, sentinelVars
  <2>7. CASE Truncate(r) \/ Write(r) \/ Abort(r)
    BY <2>1, <2>7 DEF Truncate, Write, Abort, replicationVars, sentinelVars
  <2> QED BY <1>4, <2>2, <2>3, <2>4, <2>5, <2>6, <2>7 DEF Russ
<1> QED BY <1>2, <1>4 DEF Next

\* Until a promote-v8 is accepted, a failover stays within the v6 subset while
\* the sentinel has a v6 candidate (store.go:17-21), whatever the number of
\* instances, sentinels and processes and whatever is aborted or interleaved.
THEOREM FailoversStayWithinV6 == Spec => StaysWithinV6
<1>1. ASSUME Consistent, MixedRegime, Next, NEW s \in Sentinel, NEW p \in Port,
             Elects(s, p), p \notin retired, ~promoteRan, ~misread,
             \E q \in SureCandidates(s) \ retired : version[q] = 6
      PROVE  version[p] = 6
  <2>1. Elect(s, p)
    BY <1>1, ElectsByElect
  <2>2. PICK q \in SureCandidates(s) \ retired : version[q] = 6
    BY <1>1
  <2>3. p \in Candidates(s) /\ q \in Candidates(s) /\ q \in Port
    BY <2>1, <2>2 DEF Elect, SureCandidates, Candidates, Up, Running
  <2>4. cached[s][p] = prio[p] /\ cached[s][q] = prio[q]
    BY <1>1, <2>2, <2>3 DEF MixedRegime, Candidates
  <2>5. prio[p] = RegimePriority(version[p]) /\ prio[q] = ReplicaPriorityDefault
    BY <1>1, <2>2, <2>3 DEF MixedRegime, RegimePriority
  <2>6. prio[p] <= prio[q]
    BY <2>1, <2>2, <2>4 DEF Elect
  <2>7. version[p] # 8
    BY <2>5, <2>6
    DEF RegimePriority, ReplicaPriorityDefault, ReplicaPriorityV8Deprioritized
  <2>8. version[p] # Absent /\ version[p] \in Version
    BY <1>1, <2>3 DEF Candidates, Up, Running, Consistent, TypeOK, ReplicationTypeOK
  <2> QED BY <2>7, <2>8 DEF Version
<1>2. Consistent /\ MixedRegime /\ [Next]_vars
        => [\A s \in Sentinel, p \in Port :
              /\ Elects(s, p) /\ p \notin retired
              /\ ~promoteRan /\ ~misread
              /\ \E q \in SureCandidates(s) \ retired : version[q] = 6
              => version[p] = 6]_vars
  BY <1>1
<1> QED BY <1>2, AlwaysConsistent, RegimeHolds, PTL DEF Spec, StaysWithinV6
=============================================================================
