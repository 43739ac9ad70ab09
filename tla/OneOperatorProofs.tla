--------------------------- MODULE OneOperatorProofs ---------------------------
(***************************************************************************)
(* Theorems about Upgrade when one operator runs one russ command at a     *)
(* time, for every set of ports and sentinels and every value of the       *)
(* bounds.  Commands may still die anywhere, and instances and sentinels   *)
(* act between any two of their steps.                                     *)
(***************************************************************************)
EXTENDS UpgradeProofs

OneOperator == \A q, r \in Proc : q = r

----------------------------------------------------------------------------
(* What a command may rely on from its start to its end. *)

\* Instances that are not v8 are at the default priority, and sentinels[0] has
\* read nothing else from those on ports that were never used twice.
DefaultKept == \A p \in Port : version[p] # 8 => prio[p] = ReplicaPriorityDefault

CachedSound ==
  \A p \in Port \ retired : cached[First][p] # NotRead =>
    Running(p) /\ (version[p] # 8 => cached[First][p] = ReplicaPriorityDefault)

\* Every v8 that promote-v8 did not skip is promoted, and sentinels[0] has read
\* nothing else from it.
Prioritized ==
  \A p \in Port \ (retired \cup exempt) : version[p] = 8 =>
    /\ prio[p] = ReplicaPriorityV8Promoted
    /\ cached[First][p] \in {NotRead, ReplicaPriorityV8Promoted}

FailoverPC == {"failover_reconcile", "failover_sync", "failover_trigger", "failover_wait"}

Expected(v) == IF v = 8 THEN ReplicaPriorityV8Promoted ELSE ReplicaPriorityDefault

\* What has been read and done so far still holds, as nobody else runs.
Adding(c) ==
  /\ c.pc \in {"add_priority", "add_start"} => c.version \in {6, 8}
  /\ c.pc = "add_start" => c.prio = InitialReplicaPriority(c.version, lifecycle)

Promoting(c) ==
  c.pc = "promote_set" =>
    /\ \A p \in Port : c.expect[p] = Expected(version[p])
    /\ \A p \in Port : version[p] = 8 => p \in c.list \cup exempt
    /\ \A p \in c.list \ c.todo : prio[p] = c.expect[p]

Firing(c) ==
  /\ c.pc \in FailoverPC => c.trigger \in {"Failover", NoFire}
  /\ c.trigger # NoFire => lifecycle = IF c.pc = "write" THEN Torn ELSE From[c.trigger]
  /\ c.pc = "rm_advance" /\ c.list = {} => \A p \in Port : version[p] # 6
  /\ c.pc \in {"truncate", "write"} =>
       /\ c.trigger = "PromoteV8" => Prioritized
       /\ c.trigger = "DestroyV6" => \A p \in Port : version[p] # 6

Plan(c) == Adding(c) /\ Promoting(c) /\ Firing(c)

Instances == DefaultKept /\ CachedSound /\ (lifecycle = "V8Prioritized" => Prioritized)

OperatorInv == Instances /\ \A r \in Proc : Plan(cmd[r])

----------------------------------------------------------------------------
(* Steps that leave the instances alone. *)

\* Priorities stay, and sentinels[0] at most reads or forgets some.
Calm ==
  /\ UNCHANGED <<version, prio, exempt, retired>>
  /\ \A p \in Port : \/ cached'[First][p] \in {cached[First][p], NotRead}
                     \/ Running(p) /\ cached'[First][p] = prio[p]

LEMMA QuietIsCalm ==
  ASSUME Quiet, UNCHANGED exempt
  PROVE  Calm
BY FirstAssumption DEF Quiet, Calm

LEMMA CalmInstances ==
  ASSUME DefaultKept, CachedSound, Calm
  PROVE  DefaultKept' /\ CachedSound' /\ (Prioritized => Prioritized')
<1>1. DefaultKept'
  BY DEF DefaultKept, Calm
<1>2. CachedSound'
  BY DEF DefaultKept, CachedSound, Calm, Running
<1>3. Prioritized => Prioritized'
  BY DEF Prioritized, Calm
<1> QED BY <1>1, <1>2, <1>3

LEMMA CalmPlan ==
  ASSUME Instances, Calm, UNCHANGED lifecycle, NEW c, Plan(c)
  PROVE  Plan(c)'
<1>1. Adding(c)'
  BY DEF Plan, Adding, InitialReplicaPriority
<1>2. Promoting(c)'
  BY DEF Plan, Promoting, Calm, Expected
<1>3. Firing(c)'
  BY CalmInstances DEF Plan, Firing, Instances, Calm
<1> QED BY <1>1, <1>2, <1>3 DEF Plan

\* The only command goes on as c.
LEMMA CalmStep ==
  ASSUME OneOperator, TypeOK, OperatorInv, NEW r \in Proc, NEW c, Goto(r, c), Plan(c),
         Calm, UNCHANGED lifecycle
  PROVE  OperatorInv'
<1>1. Instances'
  BY CalmInstances DEF OperatorInv, Instances
<1>2. ASSUME NEW q \in Proc PROVE Plan(cmd[q])'
  <2>1. cmd'[q] = c
    BY DEF OneOperator, Goto, TypeOK
  <2>2. Plan(c)'
    BY CalmPlan DEF OperatorInv
  <2> QED BY <2>1, <2>2 DEF Plan, Adding, Promoting, Firing
<1> QED BY <1>1, <1>2 DEF OperatorInv

LEMMA IdlePlan == Plan(Idle)
BY DEF Plan, Adding, Promoting, Firing, Idle, FailoverPC, NoFire

\* Moving on to a step that asks for nothing but the trigger it had.
LEMMA CalmMove ==
  ASSUME OneOperator, TypeOK, OperatorInv, NEW r \in Proc,
         NEW pc \in PC \ ({"truncate", "write", "add_priority", "add_start", "promote_set",
                           "rm_advance"} \cup FailoverPC),
         Step(r, pc), ~At(r, "write"), Calm, UNCHANGED lifecycle
  PROVE  OperatorInv'
<1>1. cmd[r] \in Command /\ Plan(cmd[r])
  BY DEF TypeOK, OperatorInv
<1>2. Plan([cmd[r] EXCEPT !.pc = pc])
  BY <1>1 DEF Plan, Adding, Promoting, Firing, Command, At, FailoverPC
<1> QED BY <1>2, CalmStep DEF Step

\* SENTINEL RESET on one more sentinel leads to such a step or back.
LEMMA CalmReset ==
  ASSUME OneOperator, TypeOK, OperatorInv, NEW r \in Proc, NEW pc, ResetNext(r, pc),
         {pc, cmd[r].pc} \subseteq
           PC \ ({"truncate", "write", "add_priority", "add_start", "promote_set",
                  "rm_advance"} \cup FailoverPC),
         UNCHANGED <<instanceVars, lifecycle, ghostVars>>
  PROVE  OperatorInv'
<1>1. cmd[r] \in Command /\ Plan(cmd[r])
  BY DEF TypeOK, OperatorInv
<1>2. PICK R \in SUBSET Sentinel, q \in {pc, cmd[r].pc} : Goto(r, AfterReset(r, R, q))
  BY ResetForm DEF TypeOK
<1>3. Plan(AfterReset(r, R, q))
  BY <1>1 DEF AfterReset, Plan, Adding, Promoting, Firing, Command, FailoverPC
<1>4. Calm
  BY ResetForm, ResetIsQuiet, QuietIsCalm DEF TypeOK, ghostVars
<1> QED BY <1>2, <1>3, <1>4, CalmStep

\* Firing a trigger without an action, or ending the command.
LEMMA CalmEnd ==
  ASSUME OneOperator, TypeOK, OperatorInv, NEW r \in Proc, NEW ready,
         NEW t \in Trigger \ {"PromoteV8"},
         t = "DestroyV6" /\ ready => \A p \in Port : version[p] # 6,
         AdvanceOrEnd(r, ready, t), Calm, UNCHANGED lifecycle
  PROVE  OperatorInv'
<1>1. cmd[r] \in Command
  BY DEF TypeOK
<1>2. CASE ready /\ CanFire(lifecycle, t)
  <2>1. Plan([cmd[r] EXCEPT !.pc = "truncate", !.trigger = t])
    BY <1>1, <1>2 DEF Plan, Adding, Promoting, Firing, Command, FailoverPC, CanFire
  <2> QED BY <1>2, <2>1, CalmStep DEF AdvanceOrEnd
<1>3. CASE ~(ready /\ CanFire(lifecycle, t))
  BY <1>3, IdlePlan, CalmStep DEF AdvanceOrEnd
<1> QED BY <1>2, <1>3

----------------------------------------------------------------------------
(* The commands. *)

LEMMA InstanceAddOperator ==
  ASSUME OneOperator, Consistent, OperatorInv, NEW r \in Proc, InstanceAdd(r)
  PROVE  OperatorInv'
<1> USE DEF Consistent
<1>0. cmd[r] \in Command /\ Plan(cmd[r])
  BY DEF TypeOK, OperatorInv
<1>1. ASSUME NEW v \in {6, 8}, NEW p \in Port, AddInstance(r, v, p)
      PROVE  OperatorInv'
  <2>1. PICK s \in Sentinel :
          Goto(r, [Idle EXCEPT !.pc = "add_priority", !.version = v,
                               !.target = p, !.master = master[s]])
    BY <1>1 DEF AddInstance
  <2>2. Plan([Idle EXCEPT !.pc = "add_priority", !.version = v,
                          !.target = p, !.master = master[s]])
    BY DEF Plan, Adding, Promoting, Firing, Idle, FailoverPC, NoFire
  <2>3. Calm
    BY <1>1, UnchangedIsQuiet, QuietIsCalm
    DEF AddInstance, replicationVars, sentinelVars, ghostVars
  <2> QED BY <1>1, <2>1, <2>2, <2>3, CalmStep DEF AddInstance
<1>2. CASE AddPriority(r)
  <2>1. Plan([cmd[r] EXCEPT !.pc = "add_start",
                !.prio = InitialReplicaPriority(cmd[r].version, lifecycle)])
    BY <1>0, <1>2 DEF Plan, Adding, Promoting, Firing, FailoverPC, Command, AddPriority, At
  <2>2. Calm
    BY <1>2 DEF AddPriority, Calm, replicationVars, instanceVars, sentinelVars
  <2> QED BY <1>2, <2>1, <2>2, CalmStep DEF AddPriority
<1>3. CASE AddStart(r)
  <2> DEFINE t == cmd[r].target
             c == [cmd[r] EXCEPT !.pc = "add_replicaof"]
  <2>1. /\ cmd[r].version \in {6, 8}
        /\ cmd[r].prio = InitialReplicaPriority(cmd[r].version, lifecycle)
    BY <1>0, <1>3 DEF AddStart, At, Plan, Adding
  <2>2. /\ ~Running(t)
        /\ version' = [version EXCEPT ![t] = cmd[r].version]
        /\ prio' = [prio EXCEPT ![t] = cmd[r].prio]
        /\ UNCHANGED <<cached, lifecycle, exempt, retired>>
    BY <1>3 DEF AddStart, sentinelVars, ghostVars
  <2>3. ASSUME NEW p \in Port
        PROVE  /\ p # t => version'[p] = version[p] /\ prio'[p] = prio[p]
               /\ p = t => version'[p] = cmd[r].version /\ prio'[p] = cmd[r].prio
    BY <2>2 DEF TypeOK, ReplicationTypeOK
  <2>4. DefaultKept'
    BY <2>1, <2>3 DEF OperatorInv, Instances, DefaultKept, InitialReplicaPriority
  <2>5. CachedSound'
    BY <2>2, <2>3 DEF OperatorInv, Instances, CachedSound, Running
  <2>6. lifecycle = "V8Prioritized" => Prioritized'
    <3> HAVE lifecycle = "V8Prioritized"
    <3>1. cmd[r].version = 8 => cmd[r].prio = ReplicaPriorityV8Promoted
      BY <2>1 DEF InitialReplicaPriority
    <3>2. t \in Port \ retired => cached[First][t] = NotRead
      BY <2>2 DEF OperatorInv, Instances, CachedSound
    <3> QED BY <2>2, <2>3, <3>1, <3>2 DEF OperatorInv, Instances, Prioritized
  <2>7. ASSUME NEW q \in Proc PROVE Plan(cmd[q])'
    <3>1. cmd'[q] = c
      BY <1>3 DEF AddStart, Step, Goto, TypeOK, OneOperator
    <3>2. c.pc = "add_replicaof" /\ c.trigger = cmd[r].trigger
      BY <1>0 DEF Command
    <3>3. cmd[r].trigger # NoFire => lifecycle = From[cmd[r].trigger]
      BY <1>0, <1>3 DEF Plan, Firing, AddStart, At
    <3> QED
      BY <2>2, <3>1, <3>2, <3>3 DEF Plan, Adding, Promoting, Firing, FailoverPC
  <2> QED BY <2>2, <2>4, <2>5, <2>6, <2>7 DEF OperatorInv, Instances
<1>4. CASE AddReplicaOf(r)
  BY <1>4, CalmMove, ReplicaOfIsQuiet, QuietIsCalm DEF AddReplicaOf, PC, At, FailoverPC, ghostVars
<1>5. CASE AddWait(r)
  BY <1>5, CalmMove, UnchangedIsQuiet, QuietIsCalm
  DEF AddWait, PC, At, FailoverPC, replicationVars, sentinelVars, ghostVars
<1>6. CASE AddReset(r)
  BY <1>6, CalmReset DEF AddReset, PC, At, FailoverPC
<1>7. CASE AddAdvance(r)
  BY <1>7, CalmEnd, UnchangedIsQuiet, QuietIsCalm
  DEF AddAdvance, Trigger, replicationVars, sentinelVars, ghostVars
<1> QED BY <1>1, <1>2, <1>3, <1>4, <1>5, <1>6, <1>7 DEF InstanceAdd

LEMMA InstanceRmOperator ==
  ASSUME OneOperator, Consistent, OperatorInv, NEW r \in Proc, InstanceRm(r)
  PROVE  OperatorInv'
<1> USE DEF Consistent
<1>0. cmd[r] \in Command /\ Plan(cmd[r])
  BY DEF TypeOK, OperatorInv
<1>1. ASSUME NEW p \in Port, RemoveInstance(r, p)
      PROVE  OperatorInv'
  <2>1. PICK S \in SUBSET Sentinel :
          Goto(r, [Idle EXCEPT !.pc = "rm_break", !.target = p,
                               !.checked = (S = Sentinel)])
    BY <1>1 DEF RemoveInstance
  <2>2. Plan([Idle EXCEPT !.pc = "rm_break", !.target = p, !.checked = (S = Sentinel)])
    BY DEF Plan, Adding, Promoting, Firing, Idle, FailoverPC, NoFire
  <2>3. Calm
    BY <1>1, UnchangedIsQuiet, QuietIsCalm
    DEF RemoveInstance, replicationVars, sentinelVars, ghostVars
  <2> QED BY <1>1, <2>1, <2>2, <2>3, CalmStep DEF RemoveInstance
<1>2. CASE RmBreak(r)
  BY <1>2, CalmMove, ReplicaOfIsQuiet, QuietIsCalm DEF RmBreak, PC, At, FailoverPC, ghostVars
<1>3. CASE RmReset(r)
  BY <1>3, CalmReset DEF RmReset, PC, At, FailoverPC
<1>4. CASE RmRemove(r)
  <2> DEFINE t == cmd[r].target
             c == [cmd[r] EXCEPT !.pc = "rm_list"]
  <2>1. /\ version' = [version EXCEPT ![t] = Absent]
        /\ prio' = [prio EXCEPT ![t] = ReplicaPriorityDefault]
        /\ retired' = retired \cup {t}
        /\ UNCHANGED <<cached, lifecycle, exempt>>
    BY <1>4 DEF RmRemove, sentinelVars
  <2>2. ASSUME NEW p \in Port
        PROVE  /\ p # t => version'[p] = version[p] /\ prio'[p] = prio[p]
               /\ p = t => version'[p] = Absent /\ prio'[p] = ReplicaPriorityDefault
    BY <2>1 DEF TypeOK, ReplicationTypeOK
  <2>3. DefaultKept'
    BY <2>2 DEF OperatorInv, Instances, DefaultKept
  <2>4. CachedSound'
    BY <2>1, <2>2 DEF OperatorInv, Instances, CachedSound, Running
  <2>5. Prioritized => Prioritized'
    BY <2>1, <2>2 DEF Prioritized, Absent
  <2>6. ASSUME NEW q \in Proc PROVE Plan(cmd[q])'
    <3>1. cmd'[q] = c
      BY <1>4 DEF RmRemove, Step, Goto, TypeOK, OneOperator
    <3>2. c.pc = "rm_list" /\ c.trigger = cmd[r].trigger
      BY <1>0 DEF Command
    <3>3. cmd[r].trigger # NoFire => lifecycle = From[cmd[r].trigger]
      BY <1>0, <1>4 DEF Plan, Firing, RmRemove, At
    <3> QED
      BY <2>1, <3>1, <3>2, <3>3 DEF Plan, Adding, Promoting, Firing, FailoverPC
  <2> QED BY <2>1, <2>3, <2>4, <2>5, <2>6 DEF OperatorInv, Instances
<1>5. CASE RmAdvance(r)
  <2>1. cmd[r].list = {} => \A p \in Port : version[p] # 6
    BY <1>0, <1>5 DEF RmAdvance, At, Plan, Firing
  <2> QED
    BY <1>5, <2>1, CalmEnd, UnchangedIsQuiet, QuietIsCalm
    DEF RmAdvance, Trigger, replicationVars, sentinelVars, ghostVars
<1>6. CASE RmList(r)
  <2> DEFINE L == {p \in Containers : version[p] = 6}
  <2>1. L = {} => \A p \in Port : version[p] # 6
    BY DEF Containers, Running, Absent
  <2> HIDE DEF L
  <2>2. Plan([cmd[r] EXCEPT !.pc = "rm_advance", !.list = L])
    BY <1>0, <1>6, <2>1
    DEF Plan, Adding, Promoting, Firing, FailoverPC, Command, RmList, At
  <2>3. Calm
    BY <1>6, UnchangedIsQuiet, QuietIsCalm
    DEF RmList, replicationVars, sentinelVars, ghostVars
  <2>4. Goto(r, [cmd[r] EXCEPT !.pc = "rm_advance", !.list = L])
    BY <1>6 DEF RmList, L
  <2> QED BY <1>6, <2>2, <2>3, <2>4, CalmStep DEF RmList
<1> QED BY <1>1, <1>2, <1>3, <1>4, <1>5, <1>6 DEF InstanceRm

LEMMA PromoteOperator ==
  ASSUME OneOperator, Consistent, OperatorInv, NEW r \in Proc, ClusterPromoteV8(r)
  PROVE  OperatorInv'
<1> USE DEF Consistent
<1>0. cmd[r] \in Command /\ Plan(cmd[r])
  BY DEF TypeOK, OperatorInv
<1>1. CASE PromoteV8(r)
  <2> DEFINE others(s) == Containers \ {master[s]}
             expected == [p \in Port |-> IF version[p] = 8
                                         THEN ReplicaPriorityV8Promoted
                                         ELSE ReplicaPriorityDefault]
             next(s) == [Idle EXCEPT !.pc = "promote_set", !.trigger = "PromoteV8",
                                     !.list = others(s), !.todo = others(s),
                                     !.expect = expected]
  <2>1. PICK s \in Sentinel :
          /\ Goto(r, next(s))
          /\ exempt' = IF version[master[s]] = 8 THEN exempt \cup {master[s]} ELSE exempt
    BY <1>1 DEF PromoteV8
  <2>2. /\ UNCHANGED <<version, prio, cached, lifecycle, retired>>
        /\ CanFire(lifecycle, "PromoteV8")
        /\ exempt \subseteq exempt'
    BY <1>1, <2>1 DEF PromoteV8, replicationVars, instanceVars, sentinelVars
  <2>3. Instances'
    BY <2>2 DEF OperatorInv, Instances, DefaultKept, CachedSound, Prioritized, Running
  <2>4. \A p \in Port : version[p] = 8 => p \in others(s) \cup exempt'
    BY <2>1 DEF Containers, Running, Absent
  <2>5. /\ next(s).pc = "promote_set" /\ next(s).trigger = "PromoteV8"
        /\ next(s).list = others(s) /\ next(s).todo = others(s) /\ next(s).expect = expected
    BY DEF Idle
  <2>6. \A p \in Port : expected[p] = Expected(version[p])
    BY DEF Expected
  <2> HIDE DEF next, others, expected
  <2>7. ASSUME NEW q \in Proc PROVE Plan(cmd[q])'
    <3>1. cmd'[q] = next(s)
      BY <2>1 DEF Goto, TypeOK, OneOperator
    <3>2. Promoting(cmd[q])'
      BY <2>2, <2>4, <2>5, <2>6, <3>1 DEF Promoting, Expected
    <3>3. Adding(cmd[q])' /\ Firing(cmd[q])'
      BY <2>2, <2>5, <3>1 DEF Adding, Firing, CanFire, FailoverPC
    <3> QED BY <3>2, <3>3 DEF Plan
  <2> QED BY <2>3, <2>7 DEF OperatorInv
<1>2. ASSUME NEW p \in Port, PromoteSet(r, p)
      PROVE  OperatorInv'
  <2> DEFINE c == [cmd[r] EXCEPT !.todo = @ \ {p}]
  <2>1. /\ \A q \in Port : cmd[r].expect[q] = Expected(version[q])
        /\ \A q \in Port : version[q] = 8 => q \in cmd[r].list \cup exempt
        /\ \A q \in cmd[r].list \ cmd[r].todo : prio[q] = cmd[r].expect[q]
        /\ cmd[r].trigger # NoFire => lifecycle = From[cmd[r].trigger]
    BY <1>0, <1>2 DEF PromoteSet, At, Plan, Promoting, Firing
  <2>2. /\ prio' = [prio EXCEPT ![p] = cmd[r].expect[p]]
        /\ UNCHANGED <<version, cached, lifecycle, exempt, retired>>
    BY <1>2 DEF PromoteSet, sentinelVars, ghostVars
  <2>3. ASSUME NEW q \in Port
        PROVE  prio'[q] = IF q = p THEN Expected(version[q]) ELSE prio[q]
    BY <2>1, <2>2 DEF TypeOK, ReplicationTypeOK
  <2>4. Instances'
    BY <2>2, <2>3 DEF OperatorInv, Instances, DefaultKept, CachedSound, Prioritized, Running,
                      Expected
  <2>5. /\ c.pc = "promote_set" /\ c.trigger = cmd[r].trigger
        /\ c.list = cmd[r].list /\ c.expect = cmd[r].expect /\ c.todo = cmd[r].todo \ {p}
        /\ c.list \subseteq Port
    BY <1>0, <1>2 DEF PromoteSet, At, Command
  <2>6. ASSUME NEW q \in Proc PROVE Plan(cmd[q])'
    <3>1. cmd'[q] = c
      BY <1>2 DEF PromoteSet, Goto, TypeOK, OneOperator
    <3> HIDE DEF c
    <3>2. Promoting(cmd[q])'
      BY <2>1, <2>2, <2>3, <2>5, <3>1 DEF Promoting, Expected
    <3>3. Adding(cmd[q])' /\ Firing(cmd[q])'
      BY <2>1, <2>2, <2>5, <3>1 DEF Adding, Firing, FailoverPC
    <3> QED BY <3>2, <3>3 DEF Plan
  <2> QED BY <2>4, <2>6 DEF OperatorInv
<1>3. CASE PromoteWait(r)
  <2>1. /\ \A q \in Port : version[q] = 8 => q \in cmd[r].list \cup exempt
        /\ \A q \in Port : cmd[r].expect[q] = Expected(version[q])
        /\ \A q \in cmd[r].list : prio[q] = cmd[r].expect[q]
        /\ \A q \in cmd[r].list : cached[First][q] = cmd[r].expect[q]
        /\ cmd[r].trigger # NoFire => lifecycle = From[cmd[r].trigger]
    BY <1>0, <1>3 DEF PromoteWait, At, Plan, Promoting, Firing
  <2>2. Prioritized
    BY <2>1 DEF Prioritized, Expected
  <2>3. cmd[r].trigger = "PromoteV8"
    BY <1>3 DEF PromoteWait, At, PersistedInv, Entitled
  <2>4. Plan([cmd[r] EXCEPT !.pc = "truncate"])
    BY <1>0, <2>1, <2>2, <2>3 DEF Plan, Adding, Promoting, Firing, FailoverPC, Command
  <2>5. Calm
    BY <1>3, UnchangedIsQuiet, QuietIsCalm
    DEF PromoteWait, replicationVars, sentinelVars, ghostVars
  <2> QED BY <1>3, <2>4, <2>5, CalmStep DEF PromoteWait, Step
<1> QED BY <1>1, <1>2, <1>3 DEF ClusterPromoteV8

LEMMA FailoverOperator ==
  ASSUME OneOperator, Consistent, OperatorInv, NEW r \in Proc, ClusterFailover(r)
  PROVE  OperatorInv'
<1> USE DEF Consistent
<1>0. cmd[r] \in Command /\ Plan(cmd[r])
  BY DEF TypeOK, OperatorInv
<1>1. CASE Failover(r)
  <2> DEFINE fires == CanFire(lifecycle, "Failover")
             next(s) ==
               [Idle EXCEPT
                  !.pc = "failover_reconcile",
                  !.trigger = IF fires THEN "Failover" ELSE NoFire,
                  !.master = master[s], !.list = Containers,
                  !.todo = Containers \ {master[s]}, !.term = elections]
  <2>1. PICK s \in Sentinel : Goto(r, next(s))
    BY <1>1 DEF Failover
  <2>2. /\ next(s).pc = "failover_reconcile"
        /\ next(s).trigger = IF fires THEN "Failover" ELSE NoFire
    BY DEF Idle
  <2>3. fires => lifecycle = From["Failover"]
    BY DEF CanFire
  <2>4. Calm
    BY <1>1, UnchangedIsQuiet, QuietIsCalm
    DEF Failover, replicationVars, sentinelVars, ghostVars
  <2> HIDE DEF next, fires
  <2>5. Plan(next(s))
    BY <2>2, <2>3 DEF Plan, Adding, Promoting, Firing, FailoverPC
  <2> QED BY <1>1, <2>1, <2>4, <2>5, CalmStep DEF Failover
<1>2. ASSUME NEW p \in Port, Reconcile(r, p)
      PROVE  OperatorInv'
  <2> DEFINE c1 == [cmd[r] EXCEPT !.todo = @ \ {p}, !.skipped = @ \cup {p}]
             c2 == [cmd[r] EXCEPT !.todo = @ \ {p}]
             c3 == [cmd[r] EXCEPT !.todo = @ \ {p}, !.rewired = TRUE,
                                  !.target = p, !.pc = "failover_sync"]
  <2>1. Plan(c1) /\ Plan(c2) /\ Plan(c3)
    BY <1>0, <1>2 DEF Plan, Adding, Promoting, Firing, FailoverPC, Command, Reconcile, At
  <2>2. Goto(r, c1) \/ Goto(r, c2) \/ Goto(r, c3)
    BY <1>2 DEF Reconcile
  <2>3. Calm
    BY <1>2, ReplicaOfIsQuiet, QuietIsCalm DEF Reconcile, ghostVars
  <2>4. UNCHANGED lifecycle
    BY <1>2 DEF Reconcile
  <2> HIDE DEF c1, c2, c3
  <2> QED BY <2>1, <2>2, <2>3, <2>4, CalmStep
<1>3. CASE ReconcileSync(r)
  <2>1. Plan([cmd[r] EXCEPT !.pc = "failover_reconcile"])
    BY <1>0, <1>3 DEF Plan, Adding, Promoting, Firing, FailoverPC, Command, ReconcileSync, At
  <2>2. Calm
    BY <1>3, UnchangedIsQuiet, QuietIsCalm
    DEF ReconcileSync, replicationVars, sentinelVars, ghostVars
  <2> QED BY <1>3, <2>1, <2>2, CalmStep DEF ReconcileSync, Step
<1>4. CASE ReconcileDone(r)
  <2>1. PICK s \in Sentinel :
          Goto(r, [cmd[r] EXCEPT !.pc = "failover_trigger", !.master = master[s]])
    BY <1>4 DEF ReconcileDone
  <2>2. Plan([cmd[r] EXCEPT !.pc = "failover_trigger", !.master = master[s]])
    BY <1>0, <1>4 DEF Plan, Adding, Promoting, Firing, FailoverPC, Command, ReconcileDone, At
  <2>3. Calm
    BY <1>4, UnchangedIsQuiet, QuietIsCalm
    DEF ReconcileDone, replicationVars, sentinelVars, ghostVars
  <2> QED BY <1>4, <2>1, <2>2, <2>3, CalmStep DEF ReconcileDone
<1>5. ASSUME NEW p \in Port, FailoverTrigger(r, p)
      PROVE  OperatorInv'
  <2>1. Plan([cmd[r] EXCEPT !.pc = "failover_wait"])
    BY <1>0, <1>5 DEF Plan, Adding, Promoting, Firing, FailoverPC, Command, FailoverTrigger, At
  <2>2. Calm
    BY <1>5 DEF FailoverTrigger, Elect, Calm, ghostVars
  <2> QED BY <1>5, <2>1, <2>2, CalmStep DEF FailoverTrigger, Step
<1>6. CASE FailoverWait(r)
  <2>1. cmd[r].trigger # NoFire => Plan([cmd[r] EXCEPT !.pc = "truncate"])
    BY <1>0, <1>6 DEF Plan, Adding, Promoting, Firing, FailoverPC, Command, FailoverWait, At
  <2>2. Calm
    BY <1>6, UnchangedIsQuiet, QuietIsCalm
    DEF FailoverWait, replicationVars, sentinelVars, ghostVars
  <2> QED BY <1>6, <2>1, <2>2, IdlePlan, CalmStep DEF FailoverWait
<1>7. ASSUME NEW p \in Port, ReconcileSee(r, p)
      PROVE  OperatorInv'
  <2>1. Plan([cmd[r] EXCEPT !.seen = @ \cup {p}])
    BY <1>0, <1>7 DEF Plan, Adding, Promoting, Firing, FailoverPC, Command, ReconcileSee, At
  <2>2. Calm
    BY <1>7, UnchangedIsQuiet, QuietIsCalm
    DEF ReconcileSee, replicationVars, sentinelVars, ghostVars
  <2> QED BY <1>7, <2>1, <2>2, CalmStep DEF ReconcileSee
<1> QED BY <1>1, <1>2, <1>3, <1>4, <1>5, <1>6, <1>7 DEF ClusterFailover

LEMMA IsolateOperator ==
  ASSUME OneOperator, Consistent, OperatorInv, NEW r \in Proc, ClusterIsolate(r)
  PROVE  OperatorInv'
<1> USE DEF Consistent
<1>0. cmd[r] \in Command /\ Plan(cmd[r]) /\ Entitled(cmd[r])
  BY DEF TypeOK, OperatorInv, PersistedInv
<1>1. CASE IsolateV6Replicas(r)
  <2> DEFINE next(m) ==
        [Idle EXCEPT !.pc = "isolate_break", !.trigger = "BreakReplication",
                     !.todo = {p \in Containers : version[p] = 6} \ {m}]
  <2>1. PICK m \in {master[s] : s \in Sentinel} \cup {NoPort} : Goto(r, next(m))
    BY <1>1 DEF IsolateV6Replicas
  <2>2. next(m).pc = "isolate_break" /\ next(m).trigger = "BreakReplication"
    BY DEF Idle
  <2>3. lifecycle = From["BreakReplication"] /\ UNCHANGED lifecycle
    BY <1>1 DEF IsolateV6Replicas, CanFire
  <2>4. Calm
    BY <1>1, UnchangedIsQuiet, QuietIsCalm
    DEF IsolateV6Replicas, replicationVars, sentinelVars, ghostVars
  <2> HIDE DEF next
  <2>5. Plan(next(m))
    BY <2>2, <2>3 DEF Plan, Adding, Promoting, Firing, FailoverPC
  <2> QED BY <2>1, <2>3, <2>4, <2>5, CalmStep
<1>2. ASSUME NEW p \in Port, IsolateBreak(r, p)
      PROVE  OperatorInv'
  <2>1. Plan([cmd[r] EXCEPT !.todo = @ \ {p}])
    BY <1>0, <1>2 DEF Plan, Adding, Promoting, Firing, FailoverPC, Command, IsolateBreak, At
  <2>2. Calm
    BY <1>2, ReplicaOfIsQuiet, QuietIsCalm DEF IsolateBreak, ghostVars
  <2> QED BY <1>2, <2>1, <2>2, CalmStep DEF IsolateBreak
<1>3. CASE IsolateReset(r)
  <2>1. cmd[r].trigger = "BreakReplication"
    BY <1>0, <1>3 DEF IsolateReset, At, Entitled
  <2>2. PICK R \in SUBSET Sentinel, q \in {"truncate", cmd[r].pc} :
          Goto(r, AfterReset(r, R, q))
    BY <1>3, ResetForm DEF IsolateReset, TypeOK
  <2>3. cmd[r].pc = "isolate_break"
    BY <1>3 DEF IsolateReset, At
  <2>4. Plan(AfterReset(r, R, q))
    BY <1>0, <2>1, <2>3 DEF AfterReset, Plan, Adding, Promoting, Firing, FailoverPC, Command
  <2>5. Calm
    BY <1>3, ResetForm, ResetIsQuiet, QuietIsCalm DEF IsolateReset, TypeOK, ghostVars
  <2> QED BY <1>3, <2>2, <2>4, <2>5, CalmStep DEF IsolateReset
<1> QED BY <1>1, <1>2, <1>3 DEF ClusterIsolate

\* Saving: V8Prioritized is only written over instances that are prioritized.
LEMMA SaveOperator ==
  ASSUME OneOperator, Consistent, OperatorInv, NEW r \in Proc,
         Truncate(r) \/ Write(r) \/ Abort(r)
  PROVE  OperatorInv'
<1> USE DEF Consistent
<1>0. cmd[r] \in Command /\ Plan(cmd[r]) /\ Entitled(cmd[r])
  BY DEF TypeOK, OperatorInv, PersistedInv
<1>1. ASSUME UNCHANGED <<replicationVars, exempt, retired>>
      PROVE  DefaultKept' /\ CachedSound' /\ (Prioritized => Prioritized')
  BY <1>1 DEF OperatorInv, Instances, DefaultKept, CachedSound, Prioritized, Running,
              replicationVars, instanceVars, sentinelVars
<1>2. CASE Truncate(r)
  <2>1. /\ lifecycle' = Torn /\ UNCHANGED <<version, prio, cached, exempt, retired>>
        /\ UNCHANGED replicationVars
    BY <1>2 DEF Truncate, replicationVars, instanceVars, sentinelVars, ghostVars
  <2>2. Instances'
    BY <1>1, <2>1 DEF Instances, Torn
  <2>3. ASSUME NEW q \in Proc PROVE Plan(cmd[q])'
    <3>1. cmd'[q] = [cmd[r] EXCEPT !.pc = "write"]
      BY <1>2 DEF Truncate, Step, Goto, TypeOK, OneOperator
    <3>2. cmd'[q].pc = "write" /\ cmd'[q].trigger = cmd[r].trigger
      BY <1>0, <3>1 DEF Command
    <3> QED
      BY <1>0, <1>2, <2>1, <3>2
      DEF Plan, Adding, Promoting, Firing, FailoverPC, Prioritized, Truncate, At
  <2> QED BY <2>2, <2>3 DEF OperatorInv
<1>3. CASE Write(r)
  <2>1. /\ lifecycle' = To[cmd[r].trigger] /\ cmd[r].trigger \in Trigger
        /\ UNCHANGED <<replicationVars, exempt, retired>>
    BY <1>0, <1>3 DEF Write, At, Entitled, Command
  <2>2. lifecycle' = "V8Prioritized" => cmd[r].trigger = "PromoteV8"
    BY <2>1 DEF To, Trigger
  <2>3. cmd[r].trigger = "PromoteV8" => Prioritized
    BY <1>0, <1>3 DEF Write, At, Plan, Firing
  <2>4. Instances'
    BY <1>1, <2>1, <2>2, <2>3 DEF Instances
  <2>5. ASSUME NEW q \in Proc PROVE Plan(cmd[q])'
    <3>1. cmd'[q] = Idle
      BY <1>3 DEF Write, Goto, TypeOK, OneOperator
    <3> QED BY <3>1 DEF Plan, Adding, Promoting, Firing, Idle, FailoverPC, NoFire
  <2> QED BY <2>4, <2>5 DEF OperatorInv
<1>4. CASE Abort(r)
  BY <1>4, IdlePlan, CalmStep, UnchangedIsQuiet, QuietIsCalm
  DEF Abort, replicationVars, sentinelVars, ghostVars
<1> QED BY <1>2, <1>3, <1>4

----------------------------------------------------------------------------
(* The invariant holds in every reachable state. *)

LEMMA EnvironmentIsCalm ==
  ASSUME Consistent, Environment, UNCHANGED ghostVars
  PROVE  Calm
<1> USE DEF Consistent
<1> DEFINE Reads == \A p \in Port : \/ cached'[First][p] \in {cached[First][p], NotRead}
                                    \/ Running(p) /\ cached'[First][p] = prio[p]
<1>1. UNCHANGED <<version, prio, exempt, retired>>
  BY DEF Environment, Outage, Recover, Discover, Refresh, AutoFailover, Elect, Reattach,
         FinishFailover, AbandonFailover, Hello, instanceVars, ghostVars
<1>2. Reads
  <2> USE FirstAssumption
  <2>1. ASSUME NEW s \in Sentinel, NEW p \in Port, Refresh(s, p) PROVE Reads
    BY <2>1 DEF Refresh, Up, TypeOK, ReplicationTypeOK
  <2>2. ASSUME NEW s \in Sentinel, FinishFailover(s) PROVE Reads
    BY <2>2 DEF FinishFailover, TypeOK, ReplicationTypeOK
  <2>3. ASSUME NEW s \in Sentinel, NEW t \in Sentinel, Hello(s, t) PROVE Reads
    BY <2>3 DEF Hello, TypeOK, ReplicationTypeOK
  <2>4. CASE UNCHANGED cached
    BY <2>4
  <2> QED
    BY <2>1, <2>2, <2>3, <2>4
    DEF Environment, Outage, Recover, Discover, AutoFailover, Elect, Reattach,
        AbandonFailover, sentinelVars
<1> QED BY <1>1, <1>2 DEF Calm

LEMMA InitOperator == Init => OperatorInv
<1> SUFFICES ASSUME Init PROVE OperatorInv
  OBVIOUS
<1>1. Instances
  BY FirstAssumption
  DEF Init, ReplicationInit, Instances, DefaultKept, CachedSound, NotRead, InitialStage
<1>2. ASSUME NEW r \in Proc PROVE Plan(cmd[r])
  <2>1. cmd[r] = Idle
    BY DEF Init
  <2> QED BY <2>1, IdlePlan
<1> QED BY <1>1, <1>2 DEF OperatorInv

LEMMA NextOperator ==
  ASSUME OneOperator, Consistent, OperatorInv, [Next]_vars
  PROVE  OperatorInv'
<1>1. CASE UNCHANGED vars
  BY <1>1 DEF vars, replicationVars, instanceVars, sentinelVars, ghostVars, OperatorInv,
              Instances, DefaultKept, CachedSound, Prioritized, Running, Plan, Adding,
              Promoting, Firing, Expected, InitialReplicaPriority
<1>2. CASE Environment /\ UNCHANGED <<lifecycle, cmd, added, ghostVars>>
  <2>1. Calm
    BY <1>2, EnvironmentIsCalm
  <2>2. Instances'
    BY <1>2, <2>1, CalmInstances DEF OperatorInv, Instances
  <2>3. ASSUME NEW q \in Proc PROVE Plan(cmd[q])'
    <3>1. PICK c : c = cmd[q]
      OBVIOUS
    <3>2. Plan(c)'
      BY <1>2, <2>1, <3>1, CalmPlan DEF OperatorInv
    <3>3. cmd'[q] = c
      BY <1>2, <3>1
    <3> QED BY <3>2, <3>3 DEF Plan, Adding, Promoting, Firing
  <2> QED BY <2>2, <2>3 DEF OperatorInv
<1>3. ASSUME NEW r \in Proc, Russ(r)
      PROVE  OperatorInv'
  BY <1>3, InstanceAddOperator, InstanceRmOperator, PromoteOperator, FailoverOperator,
     IsolateOperator, SaveOperator DEF Russ
<1> QED BY <1>1, <1>2, <1>3 DEF Next

\* With one command at a time, what a command has read and done still holds
\* when it goes on, whatever instances and sentinels did in between.
THEOREM OperatorInvariant ==
  ASSUME OneOperator
  PROVE  Spec => []OperatorInv
<1>1. Consistent /\ OperatorInv /\ [Next]_vars => OperatorInv'
  BY NextOperator
<1> QED BY <1>1, InitOperator, AlwaysConsistent, PTL DEF Spec

----------------------------------------------------------------------------
(* What the stages promise *)

\* Once promote-v8 has recorded V8Prioritized, a failover led by sentinels[0]
\* takes a v8 if it has a v8 candidate (store.go:22-24), whether a command or
\* the sentinels start it: WaitForReplicaPriorities is what makes it so.
THEOREM FailoverTakesV8 ==
  ASSUME OneOperator
  PROVE  Spec => V8WinsFailover
<1>1. ASSUME Consistent, OperatorInv, Next, NEW p \in Port,
             Elects(First, p), p \notin retired, lifecycle = "V8Prioritized",
             \E q \in SureCandidates(First) \ (retired \cup exempt) : version[q] = 8
      PROVE  version[p] = 8
  <2>1. Elect(First, p)
    BY <1>1, ElectsByElect, FirstAssumption
  <2>2. PICK q \in SureCandidates(First) \ (retired \cup exempt) : version[q] = 8
    BY <1>1
  <2>3. p \in Candidates(First) /\ q \in Candidates(First) /\ q \in Port
    BY <2>1, <2>2 DEF Elect, SureCandidates, Candidates, Up, Running
  <2>4. cached[First][q] = ReplicaPriorityV8Promoted
    BY <1>1, <2>2, <2>3 DEF OperatorInv, Instances, Prioritized, Candidates
  <2>5. version[p] # 8 => cached[First][p] = ReplicaPriorityDefault
    BY <1>1, <2>3 DEF OperatorInv, Instances, CachedSound, Candidates
  <2>6. cached[First][p] <= cached[First][q]
    BY <2>1, <2>2 DEF Elect
  <2> QED BY <2>4, <2>5, <2>6 DEF ReplicaPriorityDefault, ReplicaPriorityV8Promoted
<1>2. Consistent /\ OperatorInv /\ [Next]_vars
        => [\A p \in Port :
              /\ Elects(First, p) /\ p \notin retired
              /\ lifecycle = "V8Prioritized" /\ ~misread
              /\ \E q \in SureCandidates(First) \ (retired \cup exempt) : version[q] = 8
              => version[p] = 8]_vars
  BY <1>1
<1> QED BY <1>2, AlwaysConsistent, OperatorInvariant, PTL DEF Spec, V8WinsFailover

\* When V6Destroyed is recorded no v6 container is left (store.go:30): no
\* instance add runs between the listing of instance rm and its save.
THEOREM V6GoneWhenDestroyed ==
  ASSUME OneOperator
  PROVE  Spec => DestroyedWhenGone
<1>1. ASSUME Consistent, OperatorInv, Next,
             lifecycle' = "V6Destroyed", lifecycle # "V6Destroyed"
      PROVE  \A p \in Port : version[p] # 6
  <2>1. PICK r \in Proc : Russ(r)
    BY <1>1 DEF Next
  <2>2. Write(r)
    BY <1>1, <2>1, OnlySavesTouchFile DEF Truncate, Torn
  <2>3. cmd[r] \in Command /\ Entitled(cmd[r]) /\ Plan(cmd[r])
    BY <1>1 DEF Consistent, TypeOK, PersistedInv, OperatorInv
  <2>4. cmd[r].trigger \in Trigger /\ To[cmd[r].trigger] = "V6Destroyed"
    BY <1>1, <2>2, <2>3 DEF Write, At, Entitled, Command
  <2>5. cmd[r].trigger = "DestroyV6"
    BY <2>4 DEF Trigger, To
  <2> QED BY <2>2, <2>3, <2>5 DEF Write, At, Plan, Firing
<1>2. Consistent /\ OperatorInv /\ [Next]_vars
        => [lifecycle' = "V6Destroyed" /\ lifecycle # "V6Destroyed"
              => \A p \in Port : version[p] # 6]_vars
  BY <1>1
<1> QED BY <1>2, AlwaysConsistent, OperatorInvariant, PTL DEF Spec, DestroyedWhenGone

----------------------------------------------------------------------------
(* The lifecycle only moves forward *)

Writing == \E r \in Proc : At(r, "write")

LEMMA SettledFSM ==
  /\ Settled!Trigger = Trigger /\ Settled!From = From /\ Settled!To = To
  /\ Settled!InitialStage = InitialStage /\ Settled!Torn = Torn
BY DEF Settled!Trigger, Settled!From, Settled!To, Settled!InitialStage, Settled!Torn,
       Trigger, From, To, InitialStage, Torn

\* Only a truncation is followed by a write, and a command that is about to
\* write does nothing else.
LEMMA OthersDoNotWrite ==
  ASSUME OneOperator, Consistent, NEW r \in Proc, Russ(r)
  PROVE  Truncate(r) \/ Write(r) \/ Abort(r) \/ (~Writing /\ ~Writing')
<1> USE DEF Consistent
<1>0. cmd[r] \in Command /\ Idle.pc = "idle"
  BY DEF TypeOK, Idle
<1>1. ASSUME cmd[r].pc # "write", NEW c, c.pc # "write", Goto(r, c)
      PROVE  ~Writing /\ ~Writing'
  BY <1>1 DEF Writing, At, Goto, TypeOK, OneOperator
<1>2. ASSUME NEW pc \in PC \ {"write"}, cmd[r].pc # "write", Step(r, pc)
      PROVE  ~Writing /\ ~Writing'
  <2>1. [cmd[r] EXCEPT !.pc = pc].pc # "write"
    BY <1>0, <1>2 DEF Command
  <2> QED BY <1>1, <1>2, <2>1 DEF Step
<1>3. ASSUME NEW ready, NEW t, cmd[r].pc # "write", AdvanceOrEnd(r, ready, t)
      PROVE  ~Writing /\ ~Writing'
  <2>1. [cmd[r] EXCEPT !.pc = "truncate", !.trigger = t].pc # "write"
    BY <1>0 DEF Command
  <2>2. CASE ready /\ CanFire(lifecycle, t)
    BY <1>1, <1>3, <2>1, <2>2 DEF AdvanceOrEnd
  <2>3. CASE ~(ready /\ CanFire(lifecycle, t))
    BY <1>0, <1>1, <1>3, <2>3 DEF AdvanceOrEnd
  <2> QED BY <2>2, <2>3
<1>9. ASSUME NEW pc, pc # "write", cmd[r].pc # "write", ResetNext(r, pc)
      PROVE  ~Writing /\ ~Writing'
  <2>1. PICK R \in SUBSET Sentinel, q \in {pc, cmd[r].pc} : Goto(r, AfterReset(r, R, q))
    BY <1>9, ResetForm DEF TypeOK
  <2>2. AfterReset(r, R, q).pc # "write"
    BY <1>0, <1>9 DEF AfterReset, Command
  <2> QED BY <1>1, <1>9, <2>1, <2>2
<1>4. CASE InstanceAdd(r)
  <2>1. ASSUME NEW v \in {6, 8}, NEW p \in Port, AddInstance(r, v, p)
        PROVE  ~Writing /\ ~Writing'
    <3>1. PICK c : c.pc = "add_priority" /\ Goto(r, c)
      BY <2>1 DEF AddInstance, Idle
    <3> QED BY <1>1, <2>1, <3>1 DEF AddInstance, At
  <2>2. CASE AddPriority(r)
    <3>1. PICK c : c.pc = "add_start" /\ Goto(r, c)
      BY <1>0, <2>2 DEF AddPriority, Command
    <3> QED BY <1>1, <2>2, <3>1 DEF AddPriority, At
  <2>3. CASE AddStart(r) \/ AddReplicaOf(r) \/ AddWait(r)
    BY <1>2, <2>3 DEF AddStart, AddReplicaOf, AddWait, At, PC
  <2>4. CASE AddAdvance(r)
    BY <1>3, <2>4 DEF AddAdvance, At
  <2>5. CASE AddReset(r)
    BY <1>9, <2>5 DEF AddReset, At
  <2> QED BY <1>4, <2>1, <2>2, <2>3, <2>4, <2>5 DEF InstanceAdd
<1>5. CASE InstanceRm(r)
  <2>1. ASSUME NEW p \in Port, RemoveInstance(r, p)
        PROVE  ~Writing /\ ~Writing'
    <3>1. PICK c : c.pc = "rm_break" /\ Goto(r, c)
      BY <2>1 DEF RemoveInstance, Idle
    <3> QED BY <1>1, <2>1, <3>1 DEF RemoveInstance, At
  <2>2. CASE RmBreak(r) \/ RmRemove(r)
    BY <1>2, <2>2 DEF RmBreak, RmRemove, At, PC
  <2>3. CASE RmAdvance(r)
    BY <1>3, <2>3 DEF RmAdvance, At
  <2>4. CASE RmReset(r)
    BY <1>9, <2>4 DEF RmReset, At
  <2>5. CASE RmList(r)
    <3>1. PICK c : c.pc = "rm_advance" /\ Goto(r, c)
      BY <1>0, <2>5 DEF RmList, Command
    <3> QED BY <1>1, <2>5, <3>1 DEF RmList, At
  <2> QED BY <1>5, <2>1, <2>2, <2>3, <2>4, <2>5 DEF InstanceRm
<1>6. CASE ClusterPromoteV8(r)
  <2>1. CASE PromoteV8(r)
    <3>1. PICK c : c.pc = "promote_set" /\ Goto(r, c)
      BY <2>1 DEF PromoteV8, Idle
    <3> QED BY <1>1, <2>1, <3>1 DEF PromoteV8, At
  <2>2. ASSUME NEW p \in Port, PromoteSet(r, p)
        PROVE  ~Writing /\ ~Writing'
    <3>1. PICK c : c.pc = "promote_set" /\ Goto(r, c)
      BY <1>0, <2>2 DEF PromoteSet, Command, At
    <3> QED BY <1>1, <2>2, <3>1 DEF PromoteSet, At
  <2>3. CASE PromoteWait(r)
    BY <1>2, <2>3 DEF PromoteWait, At, PC
  <2> QED BY <1>6, <2>1, <2>2, <2>3 DEF ClusterPromoteV8
<1>7. CASE ClusterFailover(r)
  <2>1. CASE Failover(r)
    <3>1. PICK c : c.pc = "failover_reconcile" /\ Goto(r, c)
      BY <2>1 DEF Failover, Idle
    <3> QED BY <1>1, <2>1, <3>1 DEF Failover, At
  <2>2. ASSUME NEW p \in Port, Reconcile(r, p)
        PROVE  ~Writing /\ ~Writing'
    <3> DEFINE c1 == [cmd[r] EXCEPT !.todo = @ \ {p}, !.skipped = @ \cup {p}]
               c2 == [cmd[r] EXCEPT !.todo = @ \ {p}]
               c3 == [cmd[r] EXCEPT !.todo = @ \ {p}, !.rewired = TRUE,
                                    !.target = p, !.pc = "failover_sync"]
    <3>1. Goto(r, c1) \/ Goto(r, c2) \/ Goto(r, c3)
      BY <2>2 DEF Reconcile
    <3>2. cmd[r].pc # "write" /\ c1.pc # "write" /\ c2.pc # "write" /\ c3.pc # "write"
      BY <1>0, <2>2 DEF Reconcile, Command, At
    <3> HIDE DEF c1, c2, c3
    <3> QED BY <1>1, <3>1, <3>2
  <2>3. CASE ReconcileDone(r)
    <3>1. PICK c : c.pc = "failover_trigger" /\ Goto(r, c)
      BY <1>0, <2>3 DEF ReconcileDone, Command
    <3> QED BY <1>1, <2>3, <3>1 DEF ReconcileDone, At
  <2>4. CASE FailoverWait(r)
    <3>1. PICK c : c.pc \in {"idle", "truncate"} /\ Goto(r, c)
      BY <1>0, <2>4 DEF FailoverWait, Command
    <3> QED BY <1>1, <2>4, <3>1 DEF FailoverWait, At
  <2>5. CASE ReconcileSync(r) \/ \E p \in Port : FailoverTrigger(r, p)
    BY <1>2, <2>5 DEF ReconcileSync, FailoverTrigger, At, PC
  <2>6. ASSUME NEW p \in Port, ReconcileSee(r, p)
        PROVE  ~Writing /\ ~Writing'
    <3>1. PICK c : c.pc = "failover_reconcile" /\ Goto(r, c)
      BY <1>0, <2>6 DEF ReconcileSee, Command, At
    <3> QED BY <1>1, <2>6, <3>1 DEF ReconcileSee, At
  <2> QED BY <1>7, <2>1, <2>2, <2>3, <2>4, <2>5, <2>6 DEF ClusterFailover
<1>8. CASE ClusterIsolate(r)
  <2>1. CASE IsolateV6Replicas(r)
    <3>1. PICK c : c.pc = "isolate_break" /\ Goto(r, c)
      BY <2>1 DEF IsolateV6Replicas, Idle
    <3> QED BY <1>1, <2>1, <3>1 DEF IsolateV6Replicas, At
  <2>2. ASSUME NEW p \in Port, IsolateBreak(r, p)
        PROVE  ~Writing /\ ~Writing'
    <3>1. PICK c : c.pc = "isolate_break" /\ Goto(r, c)
      BY <1>0, <2>2 DEF IsolateBreak, Command, At
    <3> QED BY <1>1, <2>2, <3>1 DEF IsolateBreak, At
  <2>3. CASE IsolateReset(r)
    BY <1>9, <2>3 DEF IsolateReset, At
  <2> QED BY <1>8, <2>1, <2>2, <2>3 DEF ClusterIsolate
<1> QED BY <1>4, <1>5, <1>6, <1>7, <1>8 DEF Russ

\* While nobody writes, the stage is the one on file.
LEMMA NobodyWrites ==
  ~Writing => SettledStage = lifecycle
BY DEF Writing, SettledStage

\* While somebody does, it is the stage about to be left.
LEMMA SomebodyWrites ==
  ASSUME OneOperator, Consistent, OperatorInv, NEW r \in Proc, At(r, "write")
  PROVE  SettledStage = From[cmd[r].trigger]
<1>1. (CHOOSE q \in Proc : At(q, "write")) = r
  BY DEF OneOperator
<1>2. lifecycle = Torn
  BY DEF Consistent, PersistedInv, Entitled, OperatorInv, Plan, Firing, At
<1> QED BY <1>1, <1>2 DEF SettledStage

\* With one command at a time, every step of the upgrade moves the stage along
\* one edge of the FSM, leaves it alone, or loses it to a process that dies
\* while it writes; it is never moved back or skipped (machine.go Fire).
THEOREM MovesForwardOnly ==
  ASSUME OneOperator
  PROVE  Spec => NeverMovesBack
<1>1. Init => Settled!Init
  <2>1. Init => ~Writing
    BY DEF Init, Writing, At, Idle
  <2> QED BY <2>1, NobodyWrites, SettledFSM DEF Init, Settled!Init
<1>2. Consistent /\ OperatorInv /\ [Next]_vars
        => [Settled!SequentialNext]_(Settled!lifecycleVars)
  <2> SUFFICES ASSUME Consistent, OperatorInv, [Next]_vars
               PROVE  \/ Settled!SequentialNext
                      \/ SettledStage' = SettledStage /\ reached' = reached
    BY DEF Settled!lifecycleVars
  <2>1. CASE UNCHANGED <<lifecycle, cmd, reached>>
    BY <2>1 DEF SettledStage, At
  <2>2. ASSUME NEW r \in Proc, Russ(r)
        PROVE  \/ Settled!SequentialNext
               \/ SettledStage' = SettledStage /\ reached' = reached
    <3> DEFINE t == cmd[r].trigger
    <3>0. cmd[r] \in Command /\ Entitled(cmd[r]) /\ Plan(cmd[r])
      BY DEF Consistent, TypeOK, PersistedInv, OperatorInv
    <3>1. CASE Truncate(r)
      <4>1. cmd' = [cmd EXCEPT ![r] = [cmd[r] EXCEPT !.pc = "write"]]
        BY <3>1 DEF Truncate, Step, Goto
      <4>2. cmd'[r].pc = "write" /\ cmd'[r].trigger = t
        BY <3>0, <4>1 DEF Consistent, TypeOK, Command
      <4>3. (CHOOSE q \in Proc : At(q, "write")') = r
        BY <4>2 DEF OneOperator, At
      <4>4. SettledStage' = From[t]
        BY <3>1, <4>2, <4>3 DEF SettledStage, Truncate, At
      <4>5. ~Writing /\ lifecycle = From[t]
        BY <3>0, <3>1 DEF Writing, Truncate, At, OneOperator, Entitled, Plan, Firing
      <4> QED BY <3>1, <4>4, <4>5, NobodyWrites DEF Truncate, ghostVars
    <3>2. CASE Write(r)
      <4>1. t \in Trigger /\ SettledStage = From[t]
        BY <3>0, <3>2, SomebodyWrites DEF Write, At, Entitled, Command
      <4>2. lifecycle' = To[t] /\ reached' = reached \cup {To[t]}
        BY <3>2 DEF Write
      <4>3. SettledStage' = lifecycle'
        BY <4>1, <4>2, Edges DEF SettledStage
      <4>4. Settled!Advance(t)
        BY <4>1, <4>2, <4>3, SettledFSM DEF Settled!Advance, Settled!CanFire
      <4> QED BY <4>1, <4>4, SettledFSM DEF Settled!SequentialNext
    <3>3. CASE Abort(r)
      <4>1. ~Writing' /\ UNCHANGED <<lifecycle, reached>>
        BY <3>3 DEF Abort, Goto, Idle, Writing, At, Consistent, TypeOK, OneOperator, ghostVars
      <4>2. SettledStage' = lifecycle
        BY <4>1 DEF Writing, SettledStage
      <4>3. CASE At(r, "write")
        <5>1. lifecycle = Torn
          BY <3>0, <4>3 DEF Entitled, Plan, Firing, At
        <5> QED BY <4>1, <4>2, <5>1, SettledFSM DEF Settled!SequentialNext, Settled!Tear
      <4>4. CASE ~At(r, "write")
        BY <4>1, <4>2, <4>4, NobodyWrites DEF Writing, OneOperator
      <4> QED BY <4>3, <4>4
    <3>4. CASE ~Truncate(r) /\ ~Write(r) /\ ~Abort(r)
      <4>1. UNCHANGED <<lifecycle, reached>> /\ ~Writing /\ ~Writing'
        BY <2>2, <3>4, OnlySavesTouchFile, OthersDoNotWrite
      <4> QED BY <4>1 DEF Writing, SettledStage
    <3> QED BY <3>1, <3>2, <3>3, <3>4
  <2> QED BY <2>1, <2>2 DEF Next, vars, ghostVars
<1> QED
  BY <1>1, <1>2, AlwaysConsistent, OperatorInvariant, PTL
  DEF Spec, NeverMovesBack, Settled!SequentialSpec

----------------------------------------------------------------------------
(* Reconciliation, whatever the sentinels do *)

\* One failover runs at a time, and no view is newer than the last of them.
Views ==
  /\ \A s \in Sentinel : epoch[s] <= elections
  /\ \A s, t \in Sentinel : electing[s] # NoPort /\ electing[t] # NoPort => s = t

Reconciling == {"failover_reconcile", "failover_sync"}

\* Every instance handled so far, but those that could not be reached, is a
\* direct replica of the master that was read.
HandledFollow(c) ==
  \A p \in Containers \ (c.todo \cup c.skipped \cup {c.master}) : upstream[p] = c.master

\* A sentinel with the newest view has another master, and no failover is
\* under way: no hello will change its mind.
Outvoted(c) ==
  \E s \in Sentinel :
    /\ master[s] # c.master
    /\ \A t \in Sentinel : electing[t] = NoPort /\ epoch[t] <= epoch[s]

\* How far reconcileReplication has got, if no failover started since it read
\* the master; one that was under way may have finished.
Flat(c) ==
  c.pc \in Reconciling =>
    /\ c.term <= elections
    /\ c.term = elections => HandledFollow(c) \/ Outvoted(c)

FlatInv == Views /\ \A r \in Proc : Flat(cmd[r])

\* What a command does to the sentinels' views.
LEMMA RussViews ==
  ASSUME TypeOK, NEW r \in Proc, Russ(r)
  PROVE  \/ UNCHANGED sentinelVars
         \/ \E S \in SUBSET Sentinel : SentinelReset(S)
         \/ \E p \in Port : Elect(First, p)
<1>1. CASE InstanceAdd(r) /\ ~AddReset(r)
  BY <1>1 DEF InstanceAdd, AddInstance, AddPriority, AddStart, AddReplicaOf, AddWait,
              AddAdvance, replicationVars
<1>2. CASE InstanceRm(r) /\ ~RmReset(r)
  BY <1>2 DEF InstanceRm, RemoveInstance, RmBreak, RmRemove, RmList, RmAdvance,
              replicationVars
<1>3. CASE ClusterPromoteV8(r)
  BY <1>3, ZenonT(40) DEF ClusterPromoteV8, PromoteV8, PromoteSet, PromoteWait, replicationVars
<1>4. CASE ClusterFailover(r)
  BY <1>4 DEF ClusterFailover, Failover, Reconcile, ReconcileSync, ReconcileSee, ReconcileDone,
              FailoverTrigger, FailoverWait, replicationVars
<1>5. CASE ClusterIsolate(r) /\ ~IsolateReset(r)
  BY <1>5 DEF ClusterIsolate, IsolateV6Replicas, IsolateBreak, replicationVars
<1>6. CASE Truncate(r) \/ Write(r) \/ Abort(r)
  BY <1>6 DEF Truncate, Write, Abort, replicationVars
<1>7. CASE AddReset(r) \/ RmReset(r) \/ IsolateReset(r)
  BY <1>7, ResetForm DEF AddReset, RmReset, IsolateReset, TypeOK
<1> QED BY <1>1, <1>2, <1>3, <1>4, <1>5, <1>6, <1>7 DEF Russ

LEMMA ElectViews ==
  ASSUME TypeOK, Views, NEW s \in Sentinel, NEW p \in Port, Elect(s, p)
  PROVE  Views'
<1>1. \A t \in Sentinel : epoch'[t] <= elections'
  BY DEF Elect, Views, TypeOK, ReplicationTypeOK
<1>2. \A t \in Sentinel : t # s => electing'[t] = NoPort
  BY DEF Elect, TypeOK, ReplicationTypeOK
<1> QED BY <1>1, <1>2 DEF Views

LEMMA ViewsKept ==
  ASSUME TypeOK, Views, NEW r \in Proc, Russ(r)
  PROVE  Views'
<1>1. CASE UNCHANGED sentinelVars
  BY <1>1 DEF Views, sentinelVars
<1>2. ASSUME NEW S \in SUBSET Sentinel, SentinelReset(S)
      PROVE  Views'
  BY <1>2 DEF Views, SentinelReset, TypeOK, ReplicationTypeOK
<1>3. ASSUME NEW p \in Port, Elect(First, p)
      PROVE  Views'
  BY <1>3, FirstAssumption, ElectViews
<1> QED BY <1>1, <1>2, <1>3, RussViews

\* Only four steps lead into or through reconcileReplication.
LEMMA ReconcilingSteps ==
  ASSUME TypeOK, NEW r \in Proc, Russ(r), cmd'[r].pc \in Reconciling
  PROVE  \/ Failover(r) \/ ReconcileSync(r)
         \/ \E p \in Port : Reconcile(r, p) \/ ReconcileSee(r, p)
<1> USE DEF Reconciling
<1>0. /\ cmd[r] \in Command
      /\ \A c : Goto(r, c) => cmd'[r] = c
      /\ \A pc : Step(r, pc) => cmd'[r].pc = pc
  BY DEF TypeOK, Goto, Step, Command
<1>1. ASSUME NEW ready, NEW t, AdvanceOrEnd(r, ready, t)
      PROVE  FALSE
  <2>1. CASE Goto(r, Idle)
    BY <1>0, <2>1 DEF Idle
  <2>2. CASE Goto(r, [cmd[r] EXCEPT !.pc = "truncate", !.trigger = t])
    BY <1>0, <2>2 DEF Command
  <2> QED BY <1>1, <2>1, <2>2 DEF AdvanceOrEnd
<1>8. ASSUME NEW pc, ResetNext(r, pc), {pc, cmd[r].pc} \cap Reconciling = {}
      PROVE  FALSE
  <2>1. PICK R \in SUBSET Sentinel, q \in {pc, cmd[r].pc} : Goto(r, AfterReset(r, R, q))
    BY <1>8, ResetForm DEF TypeOK
  <2>2. AfterReset(r, R, q).pc = q
    BY <1>0 DEF AfterReset, Command
  <2> QED BY <1>0, <1>8, <2>1, <2>2
<1>2. ~InstanceAdd(r)
  <2>1. ~(\E v \in {6, 8}, p \in Port : AddInstance(r, v, p))
    BY <1>0, ZenonT(40) DEF AddInstance, Idle
  <2>2. ~AddPriority(r)
    BY <1>0 DEF AddPriority, Command
  <2>3. ~(AddStart(r) \/ AddReplicaOf(r) \/ AddWait(r))
    BY <1>0 DEF AddStart, AddReplicaOf, AddWait
  <2>4. ~AddAdvance(r)
    BY <1>1 DEF AddAdvance
  <2>5. ~AddReset(r)
    BY <1>8 DEF AddReset, At
  <2> QED BY <2>1, <2>2, <2>3, <2>4, <2>5 DEF InstanceAdd
<1>3. ~InstanceRm(r)
  <2>1. ~(\E p \in Port : RemoveInstance(r, p))
    BY <1>0, ZenonT(40) DEF RemoveInstance, Idle
  <2>2. ~(RmBreak(r) \/ RmRemove(r))
    BY <1>0 DEF RmBreak, RmRemove
  <2>3. ~RmAdvance(r)
    BY <1>1 DEF RmAdvance
  <2>4. ~RmReset(r)
    BY <1>8 DEF RmReset, At
  <2>5. ~RmList(r)
    BY <1>0 DEF RmList, Command
  <2> QED BY <2>1, <2>2, <2>3, <2>4, <2>5 DEF InstanceRm
<1>4. ~ClusterPromoteV8(r)
  <2>1. ~PromoteV8(r)
    <3>1. ASSUME NEW c, c.pc = "promote_set" PROVE ~Goto(r, c)
      BY <1>0, <3>1
    <3>. QED  BY <3>1, ZenonT(40) DEF PromoteV8, Idle
  <2>2. ~(\E p \in Port : PromoteSet(r, p))
    BY <1>0 DEF PromoteSet, At, Command
  <2>3. ~PromoteWait(r)
    BY <1>0 DEF PromoteWait
  <2> QED BY <2>1, <2>2, <2>3 DEF ClusterPromoteV8
<1>5. ~ClusterIsolate(r)
  <2>1. ~IsolateV6Replicas(r)
    BY <1>0 DEF IsolateV6Replicas, Idle
  <2>2. ~(\E p \in Port : IsolateBreak(r, p))
    BY <1>0 DEF IsolateBreak, At, Command
  <2>3. ~IsolateReset(r)
    BY <1>8 DEF IsolateReset, At
  <2> QED BY <2>1, <2>2, <2>3 DEF ClusterIsolate
<1>6. ~ReconcileDone(r) /\ ~FailoverWait(r) /\ ~(\E p \in Port : FailoverTrigger(r, p))
  <2>1. ~ReconcileDone(r)
    BY <1>0 DEF ReconcileDone, Command
  <2>2. ~FailoverWait(r)
    BY <1>0 DEF FailoverWait, Idle, Command
  <2>3. ~(\E p \in Port : FailoverTrigger(r, p))
    BY <1>0 DEF FailoverTrigger
  <2> QED BY <2>1, <2>2, <2>3
<1>7. ~Truncate(r) /\ ~Write(r) /\ ~Abort(r)
  BY <1>0 DEF Truncate, Write, Abort, Idle
<1> QED BY <1>2, <1>3, <1>4, <1>5, <1>6, <1>7 DEF Russ, ClusterFailover

\* And four lead on from its loop.
LEMMA ReconcilingActs ==
  ASSUME NEW r \in Proc, Russ(r), At(r, "failover_reconcile")
  PROVE  \/ ReconcileDone(r) \/ Abort(r)
         \/ \E p \in Port : Reconcile(r, p) \/ ReconcileSee(r, p)
<1>1. ~InstanceAdd(r)
  BY DEF InstanceAdd, AddInstance, AddPriority, AddStart, AddReplicaOf, AddWait, AddReset,
         AddAdvance, At
<1>2. ~InstanceRm(r)
  BY DEF InstanceRm, RemoveInstance, RmBreak, RmReset, RmRemove, RmList, RmAdvance, At
<1>3. ~ClusterPromoteV8(r)
  BY DEF ClusterPromoteV8, PromoteV8, PromoteSet, PromoteWait, At
<1>4. ~ClusterIsolate(r)
  BY DEF ClusterIsolate, IsolateV6Replicas, IsolateBreak, IsolateReset, At
<1>5. ~Truncate(r) /\ ~Write(r)
  BY DEF Truncate, Write, At
<1>6. ClusterFailover(r) => \/ ReconcileDone(r)
                           \/ \E p \in Port : Reconcile(r, p) \/ ReconcileSee(r, p)
  BY DEF ClusterFailover, Failover, ReconcileSync, FailoverTrigger, FailoverWait, At
<1> QED BY <1>1, <1>2, <1>3, <1>4, <1>5, <1>6 DEF Russ

LEMMA RussKeepsFlat ==
  ASSUME OneOperator, TypeOK, FlatInv, NEW r \in Proc, Russ(r)
  PROVE  Flat(cmd[r])'
<1> SUFFICES ASSUME cmd'[r].pc \in Reconciling PROVE Flat(cmd[r])'
  BY DEF Flat
<1>0. /\ cmd[r] \in Command /\ Flat(cmd[r])
      /\ \A c : Goto(r, c) => cmd'[r] = c
  BY DEF TypeOK, Goto, FlatInv
<1>1. CASE Failover(r)
  <2>0. PICK s \in Sentinel : Goto(r, [Idle EXCEPT
            !.pc = "failover_reconcile",
            !.trigger = IF CanFire(lifecycle, "Failover") THEN "Failover" ELSE NoFire,
            !.master = master[s], !.list = Containers,
            !.todo = Containers \ {master[s]}, !.term = elections])
    BY <1>1 DEF Failover
  <2>1. PICK n : n = [Idle EXCEPT
            !.pc = "failover_reconcile",
            !.trigger = IF CanFire(lifecycle, "Failover") THEN "Failover" ELSE NoFire,
            !.master = master[s], !.list = Containers,
            !.todo = Containers \ {master[s]}, !.term = elections]
    OBVIOUS
  <2>2. /\ cmd'[r].master = master[s] /\ cmd'[r].term = elections
        /\ cmd'[r].todo = Containers \ {master[s]}
    <3>1. cmd'[r] = n
      BY <1>0, <2>0, <2>1
    <3>2. /\ n.master = master[s] /\ n.term = elections
          /\ n.todo = Containers \ {master[s]}
      BY <2>1 DEF Idle
    <3> QED BY <3>1, <3>2
  <2>3. UNCHANGED <<version, elections>>
    BY <1>1 DEF Failover, replicationVars, instanceVars, sentinelVars
  <2>4. elections \in Nat
    BY DEF TypeOK, ReplicationTypeOK
  <2> QED BY <2>2, <2>3, <2>4 DEF Flat, HandledFollow, Containers, Running
<1>2. CASE ReconcileSync(r)
  <2>1. cmd'[r] = [cmd[r] EXCEPT !.pc = "failover_reconcile"]
    BY <1>0, <1>2 DEF ReconcileSync, Step
  <2>2. /\ cmd'[r].term = cmd[r].term /\ cmd'[r].master = cmd[r].master
        /\ cmd'[r].todo = cmd[r].todo /\ cmd'[r].skipped = cmd[r].skipped
        /\ cmd[r].pc \in Reconciling
    BY <1>0, <1>2, <2>1 DEF ReconcileSync, At, Command, Reconciling
  <2>3. UNCHANGED <<version, upstream, master, elections, electing, epoch>>
    BY <1>2 DEF ReconcileSync, replicationVars, instanceVars, sentinelVars
  <2> QED BY <1>0, <2>2, <2>3 DEF Flat, HandledFollow, Outvoted, Containers, Running
<1>3. ASSUME NEW p \in Port, ReconcileSee(r, p)
      PROVE  Flat(cmd[r])'
  <2>1. cmd'[r] = [cmd[r] EXCEPT !.seen = @ \cup {p}]
    BY <1>0, <1>3 DEF ReconcileSee
  <2>2. /\ cmd'[r].term = cmd[r].term /\ cmd'[r].master = cmd[r].master
        /\ cmd'[r].todo = cmd[r].todo /\ cmd'[r].skipped = cmd[r].skipped
        /\ cmd[r].pc \in Reconciling
    BY <1>0, <1>3, <2>1 DEF ReconcileSee, At, Command, Reconciling
  <2>3. UNCHANGED <<version, upstream, master, elections, electing, epoch>>
    BY <1>3 DEF ReconcileSee, replicationVars, instanceVars, sentinelVars
  <2> QED BY <1>0, <2>2, <2>3 DEF Flat, HandledFollow, Outvoted, Containers, Running
<1>4. ASSUME NEW p \in Port, Reconcile(r, p)
      PROVE  Flat(cmd[r])'
  <2>1. /\ cmd[r].pc = "failover_reconcile"
        /\ UNCHANGED <<version, down, master, elections, electing, epoch>>
    BY <1>4 DEF Reconcile, At, sentinelVars
  <2>2. /\ cmd'[r].term = cmd[r].term /\ cmd'[r].master = cmd[r].master
        /\ cmd'[r].todo = cmd[r].todo \ {p}
        /\ \/ cmd'[r].skipped = cmd[r].skipped \cup {p} /\ UNCHANGED upstream
           \/ /\ cmd'[r].skipped = cmd[r].skipped
              /\ upstream[p] = cmd[r].master /\ UNCHANGED upstream
           \/ /\ cmd'[r].skipped = cmd[r].skipped
              /\ upstream' = [upstream EXCEPT ![p] = cmd[r].master]
    BY <1>0, <1>4 DEF Reconcile, ReplicaOf, Command
  <2>3. \A q \in Port : upstream'[q] = upstream[q] \/ (q = p /\ upstream'[q] = cmd[r].master)
    BY <2>2 DEF TypeOK, ReplicationTypeOK
  <2>4. p \in cmd'[r].skipped \/ upstream'[p] = cmd[r].master
    BY <2>2 DEF TypeOK, ReplicationTypeOK
  <2>5. cmd[r].skipped \subseteq cmd'[r].skipped
    BY <2>2
  <2>6. HandledFollow(cmd[r]) => HandledFollow(cmd[r])'
    BY <2>1, <2>2, <2>3, <2>4, <2>5 DEF HandledFollow, Containers, Running
  <2>7. Outvoted(cmd[r]) => Outvoted(cmd[r])'
    BY <2>1, <2>2 DEF Outvoted
  <2> QED BY <1>0, <2>1, <2>2, <2>6, <2>7 DEF Flat, Reconciling
<1> QED BY <1>1, <1>2, <1>3, <1>4, ReconcilingSteps

LEMMA EnvironmentViews ==
  ASSUME TypeOK, Views, Environment
  PROVE  Views'
<1> USE DEF TypeOK, ReplicationTypeOK
<1>1. ASSUME NEW p \in Port, Outage(p) \/ Recover(p)
      PROVE  Views'
  BY <1>1 DEF Outage, Recover, sentinelVars, Views
<1>2. ASSUME NEW s \in Sentinel, NEW p \in Port,
             Discover(s, p) \/ Refresh(s, p) \/ Reattach(s, p)
      PROVE  Views'
  BY <1>2 DEF Discover, Refresh, Reattach, sentinelVars, Views
<1>3. ASSUME NEW s \in Sentinel, NEW p \in Port, AutoFailover(s, p)
      PROVE  Views'
  BY <1>3, ElectViews DEF AutoFailover
<1>4. ASSUME NEW s \in Sentinel, FinishFailover(s) \/ AbandonFailover(s)
      PROVE  Views'
  <2>1. /\ \A t \in Sentinel : electing'[t] \in {electing[t], NoPort}
        /\ \A t \in Sentinel : epoch'[t] \in {epoch[t], elections}
        /\ UNCHANGED elections
    BY <1>4 DEF FinishFailover, AbandonFailover
  <2> QED BY <2>1 DEF Views
<1>5. ASSUME NEW s \in Sentinel, NEW t \in Sentinel, Hello(s, t)
      PROVE  Views'
  <2>1. /\ \A u \in Sentinel : electing'[u] \in {electing[u], NoPort}
        /\ \A u \in Sentinel : epoch'[u] \in {epoch[u], epoch[s]}
        /\ UNCHANGED elections
    BY <1>5 DEF Hello
  <2> QED BY <2>1 DEF Views
<1> QED BY <1>1, <1>2, <1>3, <1>4, <1>5 DEF Environment

\* What the sentinels do between the steps: one may point an instance at its
\* master, finish a failover it had started, or adopt another's view.
LEMMA EnvironmentKeepsFlat ==
  ASSUME TypeOK, Views, Environment, NEW c, Flat(c), c.term \in Nat
  PROVE  Flat(c)'
<1> USE DEF TypeOK, ReplicationTypeOK
<1>1. ASSUME NEW p \in Port, Outage(p) \/ Recover(p)
      PROVE  Flat(c)'
  BY <1>1 DEF Outage, Recover, sentinelVars, Flat, HandledFollow, Outvoted, Containers, Running
<1>2. ASSUME NEW s \in Sentinel, NEW p \in Port, Discover(s, p) \/ Refresh(s, p)
      PROVE  Flat(c)'
  BY <1>2 DEF Discover, Refresh, instanceVars, Flat, HandledFollow, Outvoted, Containers, Running
<1>3. ASSUME NEW s \in Sentinel, NEW p \in Port, AutoFailover(s, p)
      PROVE  Flat(c)'
  BY <1>3 DEF AutoFailover, Elect, Flat
<1>4. ASSUME NEW s \in Sentinel, NEW p \in Port, Reattach(s, p)
      PROVE  Flat(c)'
  <2>1. /\ UNCHANGED <<version, master, electing, elections, epoch>>
        /\ \A q \in Port : upstream'[q] \in {upstream[q], master[s]}
        /\ \A t \in Sentinel : electing[t] = NoPort /\ epoch[t] <= epoch[s]
    BY <1>4 DEF Reattach, sentinelVars
  <2>2. CASE master[s] = c.master
    BY <2>1, <2>2 DEF Flat, HandledFollow, Outvoted, Containers, Running
  <2>3. CASE master[s] # c.master
    BY <2>1, <2>3 DEF Flat, Outvoted
  <2> QED BY <2>2, <2>3
<1>5. ASSUME NEW s \in Sentinel, FinishFailover(s)
      PROVE  Flat(c)'
  <2> DEFINE new == electing[s]
  <2>1. /\ new # NoPort /\ new \in Port
        /\ master' = [master EXCEPT ![s] = new]
        /\ electing' = [electing EXCEPT ![s] = NoPort]
        /\ epoch' = [epoch EXCEPT ![s] = elections]
        /\ \A q \in Port : upstream'[q] \in {upstream[q], new}
        /\ UNCHANGED <<version, elections>>
    BY <1>5, PortAssumption DEF FinishFailover, Up, Running
  <2>2. \A t \in Sentinel : t # s => electing[t] = NoPort
    BY <2>1 DEF Views
  <2>3. ~Outvoted(c)
    BY <2>1 DEF Outvoted
  <2> HIDE DEF new
  <2>4. CASE new = c.master
    BY <2>1, <2>3, <2>4 DEF Flat, HandledFollow, Containers, Running
  <2>5. CASE new # c.master
    <3>1. Outvoted(c)'
      BY <2>1, <2>2, <2>5 DEF Outvoted, Views
    <3> QED BY <2>1, <3>1 DEF Flat
  <2> QED BY <2>4, <2>5
<1>6. ASSUME NEW s \in Sentinel, AbandonFailover(s)
      PROVE  Flat(c)'
  <2>1. /\ electing[s] # NoPort
        /\ UNCHANGED <<version, upstream, elections>>
    BY <1>6 DEF AbandonFailover, instanceVars
  <2> QED BY <2>1 DEF Flat, HandledFollow, Outvoted, Containers, Running
<1>7. ASSUME NEW s \in Sentinel, NEW t \in Sentinel, Hello(s, t)
      PROVE  Flat(c)'
  <2>1. /\ UNCHANGED <<version, upstream, elections>>
        /\ epoch[s] > epoch[t]
        /\ master' = [master EXCEPT ![t] = master[s]]
        /\ electing' = [electing EXCEPT ![t] = NoPort]
        /\ epoch' = [epoch EXCEPT ![t] = epoch[s]]
    BY <1>7 DEF Hello, instanceVars
  <2>2. Outvoted(c) => Outvoted(c)'
    <3>1. SUFFICES ASSUME NEW u \in Sentinel, master[u] # c.master,
                          \A v \in Sentinel : electing[v] = NoPort /\ epoch[v] <= epoch[u]
                   PROVE  Outvoted(c)'
      BY DEF Outvoted
    <3>2. u # t
      BY <2>1, <3>1
    <3>3. master'[u] # c.master /\ epoch'[u] = epoch[u]
      BY <2>1, <3>1, <3>2
    <3>4. \A v \in Sentinel : electing'[v] = NoPort /\ epoch'[v] <= epoch'[u]
      BY <2>1, <3>1, <3>3
    <3> QED BY <3>3, <3>4 DEF Outvoted
  <2> QED BY <2>1, <2>2 DEF Flat, HandledFollow, Containers, Running
<1> QED BY <1>1, <1>2, <1>3, <1>4, <1>5, <1>6, <1>7 DEF Environment

\* When reconcileReplication is done, every instance it could reach replicates
\* from the master it read, unless a failover started meanwhile or a sentinel
\* has another master: what it rewired or found in order stays so while it
\* handles the others (sentinel.go:272, reconcileReplication), for any number
\* of sentinels with whatever views.
THEOREM ReconciledIsFlat ==
  ASSUME OneOperator
  PROVE  Spec => FlatBeforeFailover
<1>1. Init => FlatInv
  <2> SUFFICES ASSUME Init PROVE FlatInv
    OBVIOUS
  <2>1. Views
    BY DEF Init, ReplicationInit, Views
  <2>2. PICK c : c = Idle
    OBVIOUS
  <2>3. c.pc = "idle"
    BY <2>2 DEF Idle
  <2>4. \A r \in Proc : cmd[r] = c
    BY <2>2 DEF Init
  <2> QED BY <2>1, <2>3, <2>4 DEF FlatInv, Flat, Reconciling
<1>2. ASSUME TypeOK, FlatInv, [Next]_vars
      PROVE  FlatInv'
  <2>1. CASE UNCHANGED vars
    <3>1. UNCHANGED <<version, upstream, master, electing, elections, epoch, cmd>>
      BY <2>1 DEF vars, replicationVars, instanceVars, sentinelVars
    <3>2. Views'
      BY <1>2, <3>1 DEF FlatInv, Views
    <3>3. ASSUME NEW r \in Proc PROVE Flat(cmd[r])'
      <4>1. Flat(cmd[r])
        BY <1>2 DEF FlatInv
      <4> QED BY <3>1, <4>1 DEF Flat, HandledFollow, Outvoted, Containers, Running
    <3> QED BY <3>2, <3>3 DEF FlatInv
  <2>2. CASE Environment /\ UNCHANGED <<lifecycle, cmd, added, ghostVars>>
    <3>1. ASSUME NEW r \in Proc
          PROVE  Flat(cmd[r])'
      <4>1. PICK c : c = cmd[r]
        OBVIOUS
      <4>2. c.term \in Nat /\ Flat(c)
        BY <1>2, <4>1 DEF TypeOK, Command, FlatInv
      <4>3. Flat(c)'
        BY <1>2, <2>2, <4>2, EnvironmentKeepsFlat DEF FlatInv
      <4>4. cmd'[r] = c
        BY <2>2, <4>1
      <4> QED BY <4>3, <4>4 DEF Flat, HandledFollow, Outvoted
    <3>2. Views'
      BY <1>2, <2>2, EnvironmentViews DEF FlatInv
    <3> QED BY <3>1, <3>2 DEF FlatInv
  <2>3. ASSUME NEW r \in Proc, Russ(r)
        PROVE  FlatInv'
    <3>1. Views'
      BY <1>2, <2>3, ViewsKept DEF FlatInv
    <3>2. \A q \in Proc : q = r
      BY DEF OneOperator
    <3>3. Flat(cmd[r])'
      BY <1>2, <2>3, RussKeepsFlat
    <3> QED BY <3>1, <3>2, <3>3 DEF FlatInv
  <2> QED BY <1>2, <2>1, <2>2, <2>3 DEF Next
<1>3. ASSUME TypeOK, FlatInv, Next, NEW r \in Proc,
             At(r, "failover_reconcile"), cmd'[r].pc = "failover_trigger",
             elections = cmd[r].term, \A s \in Sentinel : master[s] = cmd[r].master,
             NEW p \in Containers \ (cmd[r].skipped \cup {cmd[r].master})
      PROVE  upstream[p] = cmd[r].master
  <2>1. Russ(r)
    BY <1>3 DEF Next, OneOperator, At
  <2>0. /\ cmd[r] \in Command /\ cmd[r].pc = "failover_reconcile"
        /\ \A c : Goto(r, c) => cmd'[r] = c
    BY <1>3 DEF TypeOK, Goto, At
  <2>2. ReconcileDone(r)
    <3>2. ~Abort(r)
      BY <1>3, <2>0 DEF Abort, Idle
    <3>3. ASSUME NEW q \in Port, Reconcile(r, q) \/ ReconcileSee(r, q)
          PROVE  FALSE
      <4>1. cmd'[r].pc \in Reconciling
        BY <2>0, <3>3 DEF Reconcile, ReconcileSee, Command, Reconciling
      <4> QED BY <1>3, <4>1 DEF Reconciling
    <3> QED BY <1>3, <2>1, <3>2, <3>3, ReconcilingActs
  <2>3. HandledFollow(cmd[r])
    BY <1>3, <2>0 DEF FlatInv, Flat, Reconciling, Outvoted
  <2> QED BY <1>3, <2>2, <2>3 DEF ReconcileDone, HandledFollow
<1>4. TypeOK /\ FlatInv /\ [Next]_vars
        => [\A r \in Proc :
              LET c == cmd[r] IN
              /\ At(r, "failover_reconcile") /\ cmd'[r].pc = "failover_trigger"
              /\ elections = c.term /\ \A s \in Sentinel : master[s] = c.master
              => \A p \in Containers \ (c.skipped \cup {c.master}) : upstream[p] = c.master]_vars
  BY <1>3
<1>5. Consistent => TypeOK
  BY DEF Consistent
<1>6. TypeOK /\ FlatInv /\ [Next]_vars => FlatInv'
  BY <1>2
<1> QED BY <1>1, <1>4, <1>5, <1>6, AlwaysConsistent, PTL DEF Spec, FlatBeforeFailover
=============================================================================
