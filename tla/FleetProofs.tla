----------------------------- MODULE FleetProofs -----------------------------
(***************************************************************************)
(* Theorems about SentinelFleet and FleetHistory for every set of ports,   *)
(* clusters and russ processes and every value of the bounds.              *)
(***************************************************************************)
EXTENDS FleetHistory, FiniteSetTheorems, TLAPS

----------------------------------------------------------------------------
(* Type correctness *)

LEMMA IdleIsCommand == Idle \in Command
BY DEF Idle, Command, PC, Trigger, Stage, InitialStage

LEMMA GotoType ==
  ASSUME cmd \in [Proc -> Command], NEW r \in Proc, NEW c \in Command, Goto(r, c)
  PROVE  cmd' \in [Proc -> Command]
BY DEF Goto

\* The majority of any set of sentinels is a quorum.
LEMMA MajorityType ==
  ASSUME NEW S \in SUBSET Port
  PROVE  Majority(Cardinality(S)) \in Nat
<1>1. Cardinality(S) \in Nat
  BY PortsAreNumbers, FS_Subset, FS_CardinalityType
<1> QED BY <1>1 DEF Majority

\* Setting one quorum keeps the type of the quorums, on whatever port.
LEMMA WatchType ==
  ASSUME watches \in [Port -> [Cluster -> Nat]], NEW s, NEW c, NEW n \in Nat
  PROVE  [watches EXCEPT ![s][c] = n] \in [Port -> [Cluster -> Nat]]
<1>1. CASE s \in Port
  <2>1. [watches[s] EXCEPT ![c] = n] \in [Cluster -> Nat]
    BY <1>1
  <2> QED BY <1>1, <2>1
<1>2. CASE s \notin Port
  BY <1>2
<1> QED BY <1>1, <1>2

LEMMA MonitorType ==
  ASSUME watches \in [Port -> [Cluster -> Nat]], NEW s, NEW c, NEW n \in Nat,
         MonitorOn(s, c, n)
  PROVE  watches' \in [Port -> [Cluster -> Nat]]
<1>1. CASE watches' = watches
  BY <1>1
<1>2. CASE watches' = [watches EXCEPT ![s][c] = n]
  BY <1>2, WatchType
<1> QED BY <1>1, <1>2 DEF MonitorOn

LEMMA AdvancingIsCommand ==
  ASSUME NEW c \in Command, NEW t \in Trigger
  PROVE  Advancing(c, t) \in Command
<1>1. Files \in SUBSET Cluster
  BY DEF Files
<1>2. "advance" \in PC
  BY DEF PC
<1> QED BY <1>1, <1>2, IdleIsCommand DEF Advancing, Command

LEMMA SavedIsCommand ==
  ASSUME NEW c \in Command
  PROVE  Saved(c) \in Command
BY DEF Saved, Command, PC, Stage, InitialStage

LEMMA ToType == \A t \in Trigger : To[t] \in Stage
BY DEF To, Trigger, Stage

\* A step that changes only the locals of a command.
LEMMA LocalTypeOK ==
  ASSUME TypeOK, cmd' \in [Proc -> Command], faults' \in Nat,
         UNCHANGED <<sentinel, watches, exists, file, interrupted>>
  PROVE  TypeOK'
BY DEF TypeOK

LEMMA CallType ==
  ASSUME faults \in Nat, NEW lost, Call(lost)
  PROVE  faults' \in Nat
BY DEF Call

\* The advance of state files keeps the types.
LEMMA AdvanceTypeOK ==
  ASSUME TypeOK, NEW r \in Proc,
         AdvanceDone(r) \/ Truncate(r) \/ Write(r) \/ \E c \in Cluster : AdvanceCluster(r, c)
  PROVE  TypeOK'
<1>0. /\ cmd \in [Proc -> Command] /\ cmd[r] \in Command /\ faults \in Nat
      /\ file \in [Cluster -> Stage \cup {Torn, Missing}]
  BY DEF TypeOK
<1>1. CASE AdvanceDone(r)
  BY <1>0, <1>1, IdleIsCommand, GotoType, LocalTypeOK DEF AdvanceDone
<1>2. ASSUME NEW c \in Cluster, AdvanceCluster(r, c)
      PROVE  TypeOK'
  <2> DEFINE l == [cmd[r] EXCEPT !.clusters = @ \ {c}]
             next == [l EXCEPT !.pc = "truncate", !.cluster = c, !.save = To[l.trigger]]
  <2>1. l \in Command /\ l.trigger \in Trigger
    BY <1>0 DEF Command
  <2>2. Goto(r, IF CanFire(file[c], l.trigger) THEN next ELSE l)
    BY <1>2 DEF AdvanceCluster
  <2> HIDE DEF l
  <2>3. next \in Command
    BY <2>1, ToType DEF Command, PC
  <2> HIDE DEF next
  <2>4. cmd' \in [Proc -> Command]
    BY <1>0, <2>1, <2>2, <2>3, GotoType
  <2> QED BY <1>0, <1>2, <2>4, LocalTypeOK DEF AdvanceCluster
<1>3. CASE Truncate(r)
  <2>1. [cmd[r] EXCEPT !.pc = "write"] \in Command
    BY <1>0 DEF Command, PC
  <2>2. cmd' \in [Proc -> Command]
    BY <1>0, <1>3, <2>1, SavedIsCommand, GotoType DEF Truncate
  <2>3. faults' \in Nat
    BY <1>0, <1>3, CallType DEF Truncate
  <2>4. file' \in [Cluster -> Stage \cup {Torn, Missing}]
    BY <1>0, <1>3 DEF Truncate
  <2> QED BY <1>3, <2>2, <2>3, <2>4 DEF TypeOK, Truncate
<1>4. CASE Write(r)
  <2>1. cmd' \in [Proc -> Command]
    BY <1>0, <1>4, SavedIsCommand, GotoType DEF Write
  <2>2. file' \in [Cluster -> Stage \cup {Torn, Missing}]
    BY <1>0, <1>4 DEF Write, Command
  <2> QED BY <1>4, <2>1, <2>2 DEF TypeOK, Write
<1> QED BY <1>1, <1>2, <1>3, <1>4

\* sentinel add keeps the types.
LEMMA AddTypeOK ==
  ASSUME TypeOK, NEW r \in Proc,
         \/ \E v \in {6, 8}, n \in 1 .. MaxCount : SentinelAdd(r, v, n)
         \/ \E p \in Port : AddStart(r, p)
         \/ AddStarted(r) \/ RegisterDone(r) \/ Monitor(r) \/ SetQuorum(r)
         \/ \E c \in Cluster : RegisterCluster(r, c)
  PROVE  TypeOK'
<1>0. /\ cmd \in [Proc -> Command] /\ cmd[r] \in Command /\ faults \in Nat
      /\ Fleet \in SUBSET Port /\ Files \in SUBSET Cluster
      /\ "AddV8Sentinels" \in Trigger
  BY DEF TypeOK, Fleet, Files, Trigger
<1>1. ASSUME NEW v \in {6, 8}, NEW n \in 1 .. MaxCount, SentinelAdd(r, v, n)
      PROVE  TypeOK'
  <2>0. n \in Nat /\ v \in {0, 6, 8} /\ "add_start" \in PC
    BY FleetBounds DEF PC
  <2>1. ASSUME NEW S \in SUBSET Port
        PROVE  [Idle EXCEPT !.pc = "add_start", !.version = v, !.count = n,
                            !.prior = S] \in Command
    BY <2>0, IdleIsCommand DEF Command
  <2>2. cmd' \in [Proc -> Command]
    <3>1. PICK lost \in BOOLEAN :
            Goto(r, [Idle EXCEPT !.pc = "add_start", !.version = v, !.count = n,
                                 !.prior = IF lost THEN {} ELSE Fleet])
      BY <1>1 DEF SentinelAdd
    <3> QED BY <1>0, <2>1, <3>1, GotoType
  <2> QED BY <1>0, <1>1, <2>2, CallType, LocalTypeOK DEF SentinelAdd
<1>2. ASSUME NEW p \in Port, AddStart(r, p)
      PROVE  TypeOK'
  <2>0. cmd[r].count - 1 \in Nat /\ cmd[r].new \cup {p} \in SUBSET Port
    <3>1. cmd[r].count \in Nat /\ cmd[r].count > 0
      BY <1>0, <1>2 DEF AddStart, Command
    <3> QED BY <1>0, <3>1 DEF Command
  <2>1. [cmd[r] EXCEPT !.count = @ - 1, !.new = @ \cup {p}] \in Command
    BY <1>0, <2>0 DEF Command
  <2>2. cmd' \in [Proc -> Command]
    BY <1>0, <1>2, <2>1, GotoType DEF AddStart
  <2>3. cmd[r].version \in {0, 6, 8}
    BY <1>0 DEF Command
  <2> QED BY <1>2, <2>2, <2>3 DEF TypeOK, AddStart
<1>3. CASE AddStarted(r)
  <2>1. ASSUME NEW S \in SUBSET Port
        PROVE  [cmd[r] EXCEPT !.list = S] \in Command
    BY <1>0 DEF Command
  <2>2. ASSUME NEW l \in Command
        PROVE  [l EXCEPT !.pc = "register", !.clusters = Files] \in Command
    BY <1>0 DEF Command, PC
  <2>3. cmd' \in [Proc -> Command]
    <3>1. PICK lost \in BOOLEAN :
            LET l == [cmd[r] EXCEPT !.list = IF lost THEN {} ELSE Fleet] IN
              Goto(r, IF l.version # 8 THEN Idle
                      ELSE IF l.prior = {} THEN Advancing(l, "AddV8Sentinels")
                      ELSE [l EXCEPT !.pc = "register", !.clusters = Files])
      BY <1>3 DEF AddStarted
    <3> DEFINE l == [cmd[r] EXCEPT !.list = IF lost THEN {} ELSE Fleet]
    <3>2. l \in Command
      BY <1>0, <2>1
    <3>3. /\ Advancing(l, "AddV8Sentinels") \in Command
          /\ [l EXCEPT !.pc = "register", !.clusters = Files] \in Command
      BY <1>0, <2>2, <3>2, AdvancingIsCommand
    <3> HIDE DEF l
    <3>4. Goto(r, IF l.version # 8 THEN Idle
                  ELSE IF l.prior = {} THEN Advancing(l, "AddV8Sentinels")
                  ELSE [l EXCEPT !.pc = "register", !.clusters = Files])
      BY <3>1 DEF l
    <3> QED BY <1>0, <3>3, <3>4, IdleIsCommand, GotoType
  <2> QED BY <1>0, <1>3, <2>3, CallType, LocalTypeOK DEF AddStarted
<1>4. CASE RegisterDone(r)
  BY <1>0, <1>4, AdvancingIsCommand, GotoType, LocalTypeOK DEF RegisterDone
<1>5. CASE Monitor(r)
  <2>1. Majority(Cardinality(cmd[r].list)) \in Nat
    BY <1>0, MajorityType DEF Command
  <2>2. watches' \in [Port -> [Cluster -> Nat]]
    <3>1. \/ UNCHANGED watches
          \/ MonitorOn(Min(cmd[r].ports), cmd[r].cluster, Majority(Cardinality(cmd[r].list)))
      BY <1>5 DEF Monitor
    <3> QED BY <2>1, <3>1, MonitorType DEF TypeOK
  <2>3. ASSUME NEW S
        PROVE  [cmd[r] EXCEPT !.ports = cmd[r].ports \ S] \in Command
    BY <1>0 DEF Command
  <2>4. [cmd[r] EXCEPT !.pc = "set_quorum", !.ports = cmd[r].prior] \in Command
    BY <1>0 DEF Command, PC
  <2>5. cmd' \in [Proc -> Command]
    BY <1>0, <1>5, <2>3, <2>4, GotoType DEF Monitor
  <2>6. faults' \in Nat
    BY <1>0, <1>5, CallType DEF Monitor
  <2> QED BY <1>5, <2>2, <2>5, <2>6 DEF TypeOK, Monitor
<1>6. CASE SetQuorum(r)
  <2>1. Majority(Cardinality(cmd[r].list)) \in Nat
    BY <1>0, MajorityType DEF Command
  <2>2. watches' \in [Port -> [Cluster -> Nat]]
    BY <1>6, <2>1, WatchType DEF TypeOK, SetQuorum
  <2>3. ASSUME NEW S, NEW pc \in {"set_quorum", "register", "requorum"}
        PROVE  [cmd[r] EXCEPT !.ports = cmd[r].ports \ S, !.pc = pc] \in Command
    BY <1>0 DEF Command, PC
  <2>4. cmd' \in [Proc -> Command]
    BY <1>0, <1>6, <2>3, GotoType DEF SetQuorum
  <2>5. faults' \in Nat
    BY <1>0, <1>6, CallType DEF SetQuorum
  <2> QED BY <1>6, <2>2, <2>4, <2>5 DEF TypeOK, SetQuorum
<1>7. ASSUME NEW c \in Cluster, RegisterCluster(r, c)
      PROVE  TypeOK'
  <2> DEFINE l == [cmd[r] EXCEPT !.clusters = @ \ {c}]
             next == [l EXCEPT !.pc = "monitor", !.cluster = c, !.ports = l.new]
  <2>1. l \in Command
    BY <1>0 DEF Command
  <2>2. \/ Goto(r, next) \/ Goto(r, l)
    BY <1>7 DEF RegisterCluster
  <2> HIDE DEF l
  <2>3. next \in Command
    BY <2>1 DEF Command, PC
  <2> HIDE DEF next
  <2>4. cmd' \in [Proc -> Command]
    BY <1>0, <2>1, <2>2, <2>3, GotoType
  <2> QED BY <1>0, <1>7, <2>4, CallType, LocalTypeOK DEF RegisterCluster
<1> QED BY <1>1, <1>2, <1>3, <1>4, <1>5, <1>6, <1>7

\* sentinel rm keeps the types.
LEMMA RmTypeOK ==
  ASSUME TypeOK, NEW r \in Proc,
         \/ \E p \in Port : SentinelRm(r, p)
         \/ \E c \in Cluster : RmUnmonitor(r, c) \/ Requorum(r, c)
         \/ RmStop(r) \/ RmList(r) \/ RequorumDone(r)
  PROVE  TypeOK'
<1>0. /\ cmd \in [Proc -> Command] /\ cmd[r] \in Command /\ faults \in Nat
      /\ Fleet \in SUBSET Port /\ \A p : Watched(p) \in SUBSET Cluster
      /\ "RemoveV6Sentinels" \in Trigger
  BY DEF TypeOK, Fleet, Watched, Trigger
<1>1. ASSUME NEW p \in Port, SentinelRm(r, p)
      PROVE  TypeOK'
  <2>1. sentinel[p] \in {0, 6, 8} /\ "rm_unmonitor" \in PC
    BY DEF TypeOK, PC
  <2>2. ASSUME NEW S \in SUBSET Cluster
        PROVE  [Idle EXCEPT !.pc = "rm_unmonitor", !.target = p,
                            !.version = sentinel[p], !.clusters = S] \in Command
    BY <2>1, IdleIsCommand DEF Command
  <2>3. PICK lost \in BOOLEAN :
          Goto(r, [Idle EXCEPT !.pc = "rm_unmonitor", !.target = p,
                               !.version = sentinel[p],
                               !.clusters = IF lost THEN {} ELSE Watched(p)])
    BY <1>1 DEF SentinelRm
  <2>4. cmd' \in [Proc -> Command]
    BY <1>0, <2>2, <2>3, GotoType
  <2> QED BY <1>0, <1>1, <2>4, CallType, LocalTypeOK DEF SentinelRm
<1>2. ASSUME NEW c \in Cluster, RmUnmonitor(r, c)
      PROVE  TypeOK'
  <2>1. [cmd[r] EXCEPT !.clusters = @ \ {c}] \in Command
    BY <1>0 DEF Command
  <2>2. cmd' \in [Proc -> Command]
    BY <1>0, <1>2, <2>1, GotoType DEF RmUnmonitor
  <2>3. watches' \in [Port -> [Cluster -> Nat]]
    BY <1>2, WatchType DEF TypeOK, RmUnmonitor
  <2>4. faults' \in Nat
    BY <1>0, <1>2, CallType DEF RmUnmonitor
  <2> QED BY <1>2, <2>2, <2>3, <2>4 DEF TypeOK, RmUnmonitor
<1>3. ASSUME NEW c \in Cluster, Requorum(r, c)
      PROVE  TypeOK'
  <2>1. [cmd[r] EXCEPT !.pc = "set_quorum", !.cluster = c,
                       !.clusters = @ \ {c}, !.ports = cmd[r].list] \in Command
    BY <1>0 DEF Command, PC
  <2>2. cmd' \in [Proc -> Command]
    BY <1>0, <1>3, <2>1, GotoType DEF Requorum
  <2> QED BY <1>0, <1>3, <2>2, LocalTypeOK DEF Requorum
<1>4. CASE RmStop(r)
  <2>1. [cmd[r] EXCEPT !.pc = "rm_list"] \in Command
    BY <1>0 DEF Command, PC
  <2>2. cmd' \in [Proc -> Command]
    BY <1>0, <1>4, <2>1, GotoType DEF RmStop
  <2>3. watches' \in [Port -> [Cluster -> Nat]] /\ sentinel' \in [Port -> {0, 6, 8}]
    BY <1>4 DEF TypeOK, RmStop, Unwatching
  <2> QED BY <1>4, <2>2, <2>3 DEF TypeOK, RmStop
<1>5. CASE RmList(r)
  <2>1. ASSUME NEW S \in SUBSET Port, NEW C \in SUBSET Cluster, NEW b \in BOOLEAN
        PROVE  [cmd[r] EXCEPT !.pc = "requorum", !.list = S, !.clusters = C,
                              !.last = b] \in Command
    BY <1>0 DEF Command, PC
  <2>2. PICK lost \in BOOLEAN, mute \in BOOLEAN :
          LET left == IF lost THEN {} ELSE Fleet IN
            Goto(r, [cmd[r] EXCEPT !.pc = "requorum", !.list = left,
                      !.clusters = IF mute \/ left = {} THEN {} ELSE Watched(Min(left)),
                      !.last = cmd[r].version = 6 /\ \A s \in left : sentinel[s] # 6])
    BY <1>5 DEF RmList
  <2> DEFINE left == IF lost THEN {} ELSE Fleet
             C == IF mute \/ left = {} THEN {} ELSE Watched(Min(left))
             b == cmd[r].version = 6 /\ \A s \in left : sentinel[s] # 6
  <2>3. left \in SUBSET Port /\ C \in SUBSET Cluster /\ b \in BOOLEAN
    BY <1>0
  <2>4. Goto(r, [cmd[r] EXCEPT !.pc = "requorum", !.list = left, !.clusters = C, !.last = b])
    BY <2>2
  <2> HIDE DEF left, C, b
  <2>5. cmd' \in [Proc -> Command]
    BY <1>0, <2>1, <2>3, <2>4, GotoType
  <2>6. faults' \in Nat
    BY <1>0, <1>5, CallType DEF RmList
  <2> QED BY <1>5, <2>5, <2>6, LocalTypeOK DEF RmList
<1>6. CASE RequorumDone(r)
  BY <1>0, <1>6, IdleIsCommand, AdvancingIsCommand, GotoType, LocalTypeOK DEF RequorumDone
<1> QED BY <1>1, <1>2, <1>3, <1>4, <1>5, <1>6

\* cluster create, cluster rm and the commands of module Upgrade keep the types.
LEMMA ClusterTypeOK ==
  ASSUME TypeOK, NEW r \in Proc,
         \/ \E c \in Cluster, v \in {6, 8} : CreateCluster(r, c, v)
         \/ CreateList(r) \/ CreateMonitor(r) \/ CreateSave(r)
         \/ \E c \in Cluster : RmCluster(r, c)
         \/ Unwatch(r) \/ RmContainers(r) \/ RmFile(r)
         \/ \E c \in Cluster, t \in Trigger : ClusterCommand(r, c, t)
  PROVE  TypeOK'
<1>0. /\ cmd \in [Proc -> Command] /\ cmd[r] \in Command /\ faults \in Nat
      /\ Fleet \in SUBSET Port
  BY DEF TypeOK, Fleet
<1>1. ASSUME NEW c \in Cluster, NEW v \in {6, 8}, CreateCluster(r, c, v)
      PROVE  TypeOK'
  <2>1. "create_list" \in PC /\ {InitialStage, "Done"} \subseteq Stage
    BY DEF PC, Stage, InitialStage
  <2>2. ASSUME NEW s \in Stage
        PROVE  [Idle EXCEPT !.pc = "create_list", !.cluster = c, !.version = v,
                            !.save = s] \in Command
    BY <2>1, IdleIsCommand DEF Command
  <2>3. cmd' \in [Proc -> Command]
    BY <1>0, <1>1, <2>1, <2>2, GotoType DEF CreateCluster
  <2> QED BY <1>1, <2>3 DEF TypeOK, CreateCluster
<1>2. CASE CreateList(r)
  <2>1. [cmd[r] EXCEPT !.pc = "create_monitor", !.list = Fleet, !.ports = Fleet] \in Command
    BY <1>0 DEF Command, PC
  <2>2. cmd' \in [Proc -> Command]
    BY <1>0, <1>2, <2>1, GotoType DEF CreateList
  <2> QED BY <1>0, <1>2, <2>2, LocalTypeOK DEF CreateList
<1>3. CASE CreateMonitor(r)
  <2>1. ASSUME NEW S
        PROVE  [cmd[r] EXCEPT !.ports = @ \ S] \in Command
    BY <1>0 DEF Command
  <2>2. cmd' \in [Proc -> Command]
    BY <1>0, <1>3, <2>1, GotoType DEF CreateMonitor
  <2>3. Majority(Cardinality(cmd[r].list)) \in Nat
    BY <1>0, MajorityType DEF Command
  <2>4. watches' \in [Port -> [Cluster -> Nat]]
    BY <1>3, <2>3, MonitorType DEF TypeOK, CreateMonitor
  <2> QED BY <1>3, <2>2, <2>4 DEF TypeOK, CreateMonitor
<1>4. CASE CreateSave(r)
  <2>1. "truncate" \in PC
    BY DEF PC
  <2>2. [Idle EXCEPT !.pc = "truncate", !.cluster = cmd[r].cluster,
                     !.save = cmd[r].save] \in Command
    BY <1>0, <2>1, IdleIsCommand DEF Command
  <2>3. cmd' \in [Proc -> Command]
    BY <1>0, <1>4, <2>2, GotoType DEF CreateSave
  <2> QED BY <1>0, <1>4, <2>3, LocalTypeOK DEF CreateSave
<1>5. ASSUME NEW c \in Cluster, RmCluster(r, c)
      PROVE  TypeOK'
  <2>1. "unwatch" \in PC
    BY DEF PC
  <2>2. ASSUME NEW S \in SUBSET Port
        PROVE  [Idle EXCEPT !.pc = "unwatch", !.cluster = c, !.ports = S] \in Command
    BY <2>1, IdleIsCommand DEF Command
  <2>3. PICK lost \in BOOLEAN :
          Goto(r, [Idle EXCEPT !.pc = "unwatch", !.cluster = c,
                               !.ports = IF lost THEN {} ELSE Fleet])
    BY <1>5 DEF RmCluster
  <2>4. cmd' \in [Proc -> Command]
    BY <1>0, <2>2, <2>3, GotoType
  <2> QED BY <1>0, <1>5, <2>4, CallType, LocalTypeOK DEF RmCluster
<1>6. CASE Unwatch(r)
  <2>1. ASSUME NEW S
        PROVE  [cmd[r] EXCEPT !.ports = @ \ S] \in Command
    BY <1>0 DEF Command
  <2>2. cmd' \in [Proc -> Command]
    BY <1>0, <1>6, <2>1, GotoType DEF Unwatch
  <2>3. watches' \in [Port -> [Cluster -> Nat]]
    BY <1>6, WatchType DEF TypeOK, Unwatch
  <2>4. faults' \in Nat
    BY <1>0, <1>6, CallType DEF Unwatch
  <2> QED BY <1>6, <2>2, <2>3, <2>4 DEF TypeOK, Unwatch
<1>7. CASE RmContainers(r)
  <2>1. [cmd[r] EXCEPT !.pc = "rm_file"] \in Command
    BY <1>0 DEF Command, PC
  <2>2. cmd' \in [Proc -> Command]
    BY <1>0, <1>7, <2>1, GotoType DEF RmContainers
  <2>3. exists' \in [Cluster -> BOOLEAN]
    BY <1>7 DEF TypeOK, RmContainers
  <2>4. faults' \in Nat
    BY <1>0, <1>7, CallType DEF RmContainers
  <2> QED BY <1>7, <2>2, <2>3, <2>4 DEF TypeOK, RmContainers
<1>8. CASE RmFile(r)
  <2>1. cmd' \in [Proc -> Command]
    BY <1>0, <1>8, IdleIsCommand, GotoType DEF RmFile
  <2>2. file' \in [Cluster -> Stage \cup {Torn, Missing}]
    BY <1>8 DEF TypeOK, RmFile
  <2>3. faults' \in Nat
    BY <1>0, <1>8, CallType DEF RmFile
  <2> QED BY <1>8, <2>1, <2>2, <2>3 DEF TypeOK, RmFile
<1>9. ASSUME NEW c \in Cluster, NEW t \in Trigger, ClusterCommand(r, c, t)
      PROVE  TypeOK'
  BY <1>9, ToType DEF TypeOK, ClusterCommand
<1> QED BY <1>1, <1>2, <1>3, <1>4, <1>5, <1>6, <1>7, <1>8, <1>9

LEMMA AbortTypeOK ==
  ASSUME TypeOK, NEW r \in Proc, Abort(r)
  PROVE  TypeOK'
BY IdleIsCommand, GotoType DEF TypeOK, Abort

LEMMA NextTypeOK ==
  ASSUME TypeOK, [Next]_vars
  PROVE  TypeOK'
<1>1. CASE UNCHANGED vars
  BY <1>1 DEF TypeOK, vars
<1>2. ASSUME NEW r \in Proc, Step(r)
      PROVE  TypeOK'
  BY <1>2, AdvanceTypeOK, AddTypeOK, RmTypeOK, ClusterTypeOK, AbortTypeOK DEF Step
<1>3. ASSUME NEW r \in Proc, NEW c \in Cluster, ClusterStep(r, c)
      PROVE  TypeOK'
  BY <1>3, AdvanceTypeOK, AddTypeOK, RmTypeOK, ClusterTypeOK DEF ClusterStep
<1>4. ASSUME NEW r \in Proc, NEW p \in Port, PortStep(r, p)
      PROVE  TypeOK'
  BY <1>4, AddTypeOK, RmTypeOK DEF PortStep
<1> QED BY <1>1, <1>2, <1>3, <1>4 DEF Next

LEMMA InitTypeOK == Init => TypeOK
<1> SUFFICES ASSUME Init PROVE TypeOK
  OBVIOUS
<1>1. cmd \in [Proc -> Command]
  BY IdleIsCommand DEF Init
<1> QED BY <1>1 DEF Init, TypeOK, Unwatching

\* The fleet, the monitored clusters with their quorums, the state files and
\* the locals of every command keep their types (module SentinelFleet).
THEOREM FleetTypeCorrect == Spec => []TypeOK
<1>1. TypeOK /\ [Next]_vars => TypeOK'
  BY NextTypeOK
<1> QED BY InitTypeOK, <1>1, PTL DEF Spec

----------------------------------------------------------------------------
(* State files implement the lifecycle *)

\* A command with locals l on its way to a write may save what it is about to:
\* the state a new cluster starts in, or the successor of a stage in R[cluster].
Earned(l, R) ==
  /\ l.pc \in {"create_list", "create_monitor"} =>
       l.cluster \in Cluster /\ l.save \in {InitialStage, "Done"}
  /\ l.pc \in {"truncate", "write"} =>
       /\ l.cluster \in Cluster
       /\ \/ l.save \in {InitialStage, "Done"}
          \/ \E t \in Trigger : l.save = To[t] /\ From[t] \in R[l.cluster]

SavesEarned == \A r \in Proc : Earned(cmd[r], reached)

\* The history has what the file holds; a missing file counts as initial.
HistoryKept ==
  \A c \in Cluster :
    /\ reached[c] \subseteq Stage /\ InitialStage \in reached[c]
    /\ file[c] \in Stage => file[c] \in reached[c]

HistoryInv ==
  /\ TypeOK
  /\ reached \in [Cluster -> SUBSET Stage]
  /\ HistoryKept
  /\ SavesEarned

\* The names of the two states a file can be in besides a stage are not stages.
LEMMA NotStages == Torn \notin Stage /\ Missing \notin Stage
BY DEF Torn, Missing, Stage

LEMMA FromType == \A t \in Trigger : From[t] \in Stage
BY DEF From, Trigger, Stage

\* The four ways a step leaves the state file of a cluster.
FileStep(c) ==
  \/ file'[c] = file[c]
  \/ file'[c] \in {Torn, Missing}
  \/ file'[c] \in {InitialStage, "Done"}
  \/ \E t \in Trigger : From[t] \in reached[c] /\ file'[c] = To[t]

\* Every step of the fleet is one of them for each cluster.
LEMMA FileSteps ==
  ASSUME HistoryInv, Next
  PROVE  \A c \in Cluster : FileStep(c)
<1> USE DEF HistoryInv, FileStep
<1>0. file \in [Cluster -> Stage \cup {Torn, Missing}]
  BY DEF TypeOK
<1>1. ASSUME NEW r \in Proc, Truncate(r)
      PROVE  \A c \in Cluster : FileStep(c)
  BY <1>0, <1>1 DEF Truncate
<1>2. ASSUME NEW r \in Proc, Write(r)
      PROVE  \A c \in Cluster : FileStep(c)
  <2>1. cmd[r].pc = "write" /\ Earned(cmd[r], reached)
    BY <1>2 DEF SavesEarned, Write, At
  <2>2. file' = [file EXCEPT ![cmd[r].cluster] = cmd[r].save]
    BY <1>2 DEF Write
  <2> QED BY <1>0, <2>1, <2>2 DEF Earned
<1>3. ASSUME NEW r \in Proc, RmFile(r)
      PROVE  \A c \in Cluster : FileStep(c)
  BY <1>0, <1>3 DEF RmFile
<1>4. ASSUME NEW r \in Proc, NEW d \in Cluster, NEW t \in Trigger, ClusterCommand(r, d, t)
      PROVE  \A c \in Cluster : FileStep(c)
  <2>1. From[t] \in reached[d]
    <3>1. From[t] = IF file[d] = Missing THEN InitialStage ELSE file[d]
      BY <1>4 DEF ClusterCommand, CanFire
    <3>2. From[t] \in Stage
      BY FromType
    <3> QED BY <3>1, <3>2 DEF HistoryKept
  <2> QED BY <1>0, <1>4, <2>1 DEF ClusterCommand
<1>5. ASSUME UNCHANGED file
      PROVE  \A c \in Cluster : FileStep(c)
  BY <1>5
<1>6. ASSUME NEW r \in Proc, Step(r)
      PROVE  \A c \in Cluster : FileStep(c)
  <2>1. CASE Truncate(r) \/ Write(r) \/ RmFile(r)
    BY <2>1, <1>1, <1>2, <1>3
  <2>2. CASE ~(Truncate(r) \/ Write(r) \/ RmFile(r))
    <3>1. UNCHANGED file
      BY <1>6, <2>2 DEF Step, AdvanceDone, AddStarted, RegisterDone, Monitor,
           SetQuorum, RmStop, RmList, RequorumDone, CreateList, CreateMonitor,
           CreateSave, Unwatch, RmContainers, Abort, SentinelAdd
    <3> QED BY <3>1, <1>5, ZenonT(40)
  <2> QED BY <2>1, <2>2
<1>7. ASSUME NEW r \in Proc, NEW c \in Cluster, ClusterStep(r, c)
      PROVE  \A d \in Cluster : FileStep(d)
  <2>1. CASE \E t \in Trigger : ClusterCommand(r, c, t)
    BY <2>1, <1>4
  <2>2. CASE ~ \E t \in Trigger : ClusterCommand(r, c, t)
    <3>1. UNCHANGED file
      BY <1>7, <2>2 DEF ClusterStep, AdvanceCluster, RegisterCluster,
           RmUnmonitor, Requorum, RmCluster, CreateCluster
    <3> QED BY <3>1, <1>5
  <2> QED BY <2>1, <2>2
<1>8. ASSUME NEW r \in Proc, NEW p \in Port, PortStep(r, p)
      PROVE  \A c \in Cluster : FileStep(c)
  BY <1>8, <1>5 DEF PortStep, AddStart, SentinelRm
<1> QED BY <1>6, <1>7, <1>8 DEF Next

\* The history grows and keeps what is saved.
LEMMA HistoryGrows ==
  ASSUME HistoryInv, HistoryNext
  PROVE  /\ reached' \in [Cluster -> SUBSET Stage]
         /\ HistoryKept'
         /\ \A c \in Cluster : reached[c] \subseteq reached'[c]
<1>1. \A c \in Cluster : reached'[c] = reached[c] \cup ({file'[c]} \cap Stage)
  BY DEF HistoryNext
<1>2. reached' \in [Cluster -> SUBSET Stage]
  BY DEF HistoryNext, HistoryInv
<1> QED BY <1>1, <1>2 DEF HistoryInv, HistoryKept

\* A command that may save still may when the history has grown.
LEMMA EarnedGrows ==
  ASSUME NEW R, NEW Q, \A c \in Cluster : R[c] \subseteq Q[c], NEW l, Earned(l, R)
  PROVE  Earned(l, Q)
BY DEF Earned

\* It is enough to look at the command that takes the step.
LEMMA OneEarns ==
  ASSUME HistoryInv, HistoryNext, NEW r \in Proc, NEW l, Goto(r, l), Earned(l, reached')
  PROVE  SavesEarned'
<1>1. ASSUME NEW q \in Proc
      PROVE  Earned(cmd'[q], reached')
  <2>1. CASE q = r
    BY <2>1 DEF Goto, HistoryInv, TypeOK
  <2>2. CASE q # r
    <3>1. cmd'[q] = cmd[q] /\ Earned(cmd[q], reached)
      BY <2>2 DEF Goto, HistoryInv, TypeOK, SavesEarned
    <3> QED BY <3>1, HistoryGrows, EarnedGrows
  <2> QED BY <2>1, <2>2
<1> QED BY <1>1 DEF SavesEarned

\* Locals of a command that is not on its way to a write.
LEMMA ElsewhereEarns ==
  ASSUME NEW l, NEW R, l.pc \notin {"create_list", "create_monitor", "truncate", "write"}
  PROVE  Earned(l, R)
BY DEF Earned

\* Where a command that takes a step lands.
LEMMA Landing ==
  ASSUME cmd \in [Proc -> Command], NEW r \in Proc, NEW l, Goto(r, l)
  PROVE  cmd'[r] = l /\ Goto(r, cmd'[r])
BY DEF Goto

LEMMA LandsElsewhere ==
  ASSUME HistoryInv, HistoryNext, NEW r \in Proc, Goto(r, cmd'[r]),
         cmd'[r].pc \notin {"create_list", "create_monitor", "truncate", "write"}
  PROVE  SavesEarned'
BY ElsewhereEarns, OneEarns

LEMMA SavesEarnedStep ==
  ASSUME HistoryInv, HistoryNext
  PROVE  SavesEarned'
<1>0. /\ cmd \in [Proc -> Command]
      /\ \A r \in Proc : Earned(cmd[r], reached')
      /\ \A c \in Cluster : file[c] \in Stage => file[c] \in reached'[c]
  BY HistoryGrows, EarnedGrows DEF HistoryInv, TypeOK, SavesEarned, HistoryKept
<1>i. Idle.pc = "idle" /\ \A c, t : Advancing(c, t).pc = "advance"
  BY DEF Idle, Advancing
<1>1. ASSUME NEW r \in Proc, NEW c \in Cluster, AdvanceCluster(r, c)
      PROVE  SavesEarned'
  <2> DEFINE l == [cmd[r] EXCEPT !.clusters = @ \ {c}]
             next == [l EXCEPT !.pc = "truncate", !.cluster = c, !.save = To[l.trigger]]
  <2>1. l \in Command /\ l.trigger \in Trigger /\ l.pc = "advance"
    BY <1>0, <1>1 DEF Command, AdvanceCluster, At
  <2>2. Goto(r, IF CanFire(file[c], l.trigger) THEN next ELSE l)
    BY <1>1 DEF AdvanceCluster
  <2> HIDE DEF l
  <2>3. /\ next.pc = "truncate" /\ next.cluster = c
        /\ next.save = To[l.trigger]
    BY <2>1 DEF Command
  <2> HIDE DEF next
  <2>4. CASE CanFire(file[c], l.trigger)
    <3>1. From[l.trigger] \in reached'[c]
      BY <1>0, <2>1, <2>4, FromType DEF CanFire
    <3>2. Earned(next, reached')
      BY <2>1, <2>3, <3>1 DEF Earned
    <3> QED BY <2>2, <2>4, <3>2, OneEarns
  <2>5. CASE ~CanFire(file[c], l.trigger)
    BY <2>1, <2>2, <2>5, ElsewhereEarns, OneEarns
  <2> QED BY <2>4, <2>5
<1>2. ASSUME NEW r \in Proc, Truncate(r)
      PROVE  SavesEarned'
  <2> DEFINE next == [cmd[r] EXCEPT !.pc = "write"]
  <2>1. cmd[r] \in Command /\ cmd[r].pc = "truncate" /\ Earned(cmd[r], reached')
    BY <1>0, <1>2 DEF Truncate, At
  <2>2. /\ next.pc = "write" /\ next.cluster = cmd[r].cluster /\ next.save = cmd[r].save
        /\ Saved(cmd[r]).pc = "advance"
    BY <2>1 DEF Command, Saved
  <2>3. Goto(r, next) \/ Goto(r, Saved(cmd[r]))
    BY <1>2 DEF Truncate
  <2> HIDE DEF next
  <2>4. Earned(next, reached')
    BY <2>1, <2>2 DEF Earned
  <2> QED BY <2>2, <2>3, <2>4, ElsewhereEarns, OneEarns
<1>3. ASSUME NEW r \in Proc, NEW c \in Cluster, NEW v \in {6, 8}, CreateCluster(r, c, v)
      PROVE  SavesEarned'
  <2> DEFINE next == [Idle EXCEPT !.pc = "create_list", !.cluster = c, !.version = v,
                                  !.save = IF v = 6 THEN InitialStage ELSE "Done"]
  <2>1. Goto(r, next)
    BY <1>3 DEF CreateCluster
  <2>2. /\ next.pc = "create_list" /\ next.cluster = c
        /\ next.save \in {InitialStage, "Done"}
    BY IdleIsCommand DEF Command
  <2> HIDE DEF next
  <2> QED BY <2>1, <2>2, OneEarns DEF Earned
<1>4. ASSUME NEW r \in Proc, CreateList(r) \/ CreateMonitor(r)
      PROVE  SavesEarned'
  <2>1. cmd[r] \in Command /\ Earned(cmd[r], reached')
    BY <1>0
  <2>2. CASE CreateList(r)
    <3> DEFINE next == [cmd[r] EXCEPT !.pc = "create_monitor", !.list = Fleet, !.ports = Fleet]
    <3>1. Goto(r, next) /\ cmd[r].pc = "create_list"
      BY <2>2 DEF CreateList, At
    <3>2. /\ next.pc = "create_monitor" /\ next.cluster = cmd[r].cluster
          /\ next.save = cmd[r].save
      BY <2>1 DEF Command
    <3> HIDE DEF next
    <3> QED BY <2>1, <3>1, <3>2, OneEarns DEF Earned
  <2>3. CASE CreateMonitor(r)
    <3> DEFINE next == [cmd[r] EXCEPT !.ports = @ \ {Min(cmd[r].ports)}]
    <3>1. Goto(r, next)
      BY <2>3 DEF CreateMonitor
    <3>2. /\ next.pc = cmd[r].pc /\ next.cluster = cmd[r].cluster
          /\ next.save = cmd[r].save
      BY <2>1 DEF Command
    <3> HIDE DEF next
    <3>3. Earned(next, reached')
      BY <2>1, <3>2 DEF Earned
    <3> QED BY <3>1, <3>3, OneEarns
  <2> QED BY <1>4, <2>2, <2>3
<1>5. ASSUME NEW r \in Proc, CreateSave(r)
      PROVE  SavesEarned'
  <2> DEFINE next == [Idle EXCEPT !.pc = "truncate", !.cluster = cmd[r].cluster,
                                  !.save = cmd[r].save]
  <2>1. Goto(r, next) /\ cmd[r].pc = "create_monitor" /\ Earned(cmd[r], reached')
    BY <1>0, <1>5 DEF CreateSave, At
  <2>2. /\ next.pc = "truncate" /\ next.cluster = cmd[r].cluster
        /\ next.save = cmd[r].save
    BY IdleIsCommand DEF Command
  <2> HIDE DEF next
  <2> QED BY <2>1, <2>2, OneEarns DEF Earned
<1>6. ASSUME NEW r \in Proc, NEW c \in Cluster, NEW t \in Trigger, ClusterCommand(r, c, t)
      PROVE  SavesEarned'
  BY <1>0, <1>6 DEF ClusterCommand, SavesEarned
<1> DEFINE Writing == {"create_list", "create_monitor", "truncate", "write"}
           Elsewhere(r) == Goto(r, cmd'[r]) /\ cmd'[r].pc \notin Writing
<1>7. ASSUME NEW r \in Proc,
             \/ Abort(r) \/ AdvanceDone(r) \/ RmFile(r) \/ RequorumDone(r)
             \/ RegisterDone(r) \/ Write(r)
      PROVE  Elsewhere(r)
  <2>1. PICK l \in {Idle, Advancing(cmd[r], "RemoveV6Sentinels"),
                    Advancing(cmd[r], "AddV8Sentinels"), Saved(cmd[r])} : Goto(r, l)
    BY <1>7 DEF Abort, AdvanceDone, RmFile, RequorumDone, RegisterDone, Write
  <2>2. Saved(cmd[r]).pc = "advance"
    BY <1>0 DEF Saved, Command
  <2>3. l.pc \in {"idle", "advance"}
    BY <1>i, <2>2
  <2> QED BY <1>0, <2>1, <2>3, Landing
<1>8. ASSUME NEW r \in Proc,
             \/ \E v \in {6, 8}, n \in 1 .. MaxCount : SentinelAdd(r, v, n)
             \/ \E p \in Port : SentinelRm(r, p)
             \/ \E c \in Cluster : RmCluster(r, c)
      PROVE  Elsewhere(r)
  <2>1. ASSUME NEW v \in {6, 8}, NEW n \in 1 .. MaxCount, SentinelAdd(r, v, n)
        PROVE  Elsewhere(r)
    BY <1>0, <2>1 DEF Goto, SentinelAdd, Idle
  <2>2. ASSUME NEW p \in Port, SentinelRm(r, p)
        PROVE  Elsewhere(r)
    BY <1>0, <2>2 DEF Goto, SentinelRm, Idle
  <2>3. ASSUME NEW c \in Cluster, RmCluster(r, c)
        PROVE  Elsewhere(r)
    BY <1>0, <2>3 DEF Goto, RmCluster, Idle
  <2> QED BY <1>8, <2>1, <2>2, <2>3
<1>9. ASSUME NEW r \in Proc, AddStarted(r)
      PROVE  Elsewhere(r)
  BY <1>0, <1>i, <1>9 DEF Goto, AddStarted, HistoryInv, TypeOK, Command
<1>10. ASSUME NEW r \in Proc,
              \/ \E p \in Port : AddStart(r, p)
              \/ \E c \in Cluster : RmUnmonitor(r, c) \/ Requorum(r, c)
              \/ RmStop(r) \/ Unwatch(r) \/ RmContainers(r)
       PROVE  Elsewhere(r)
  <2>0. cmd[r] \in Command
    BY <1>0
  <2>1. ASSUME NEW p \in Port, AddStart(r, p)
        PROVE  Elsewhere(r)
    BY <1>0, <2>0, <2>1 DEF Goto, At, AddStart, Command
  <2>2. ASSUME NEW c \in Cluster, RmUnmonitor(r, c)
        PROVE  Elsewhere(r)
    BY <1>0, <2>0, <2>2 DEF Goto, At, RmUnmonitor, Command
  <2>3. ASSUME NEW c \in Cluster, Requorum(r, c)
        PROVE  Elsewhere(r)
    BY <1>0, <2>0, <2>3 DEF Goto, At, Requorum, Command
  <2>4. CASE RmStop(r)
    BY <1>0, <2>0, <2>4 DEF Goto, At, RmStop, Command
  <2>5. CASE Unwatch(r)
    BY <1>0, <2>0, <2>5 DEF Goto, At, Unwatch, Command
  <2>6. CASE RmContainers(r)
    BY <1>0, <2>0, <2>6 DEF Goto, At, RmContainers, Command
  <2> QED BY <1>10, <2>1, <2>2, <2>3, <2>4, <2>5, <2>6
<1>11. ASSUME NEW r \in Proc, NEW c \in Cluster, RegisterCluster(r, c)
       PROVE  Elsewhere(r)
  BY <1>0, <1>11 DEF Goto, At, RegisterCluster, HistoryInv, TypeOK, Command
<1>12. ASSUME NEW r \in Proc, Monitor(r) \/ SetQuorum(r) \/ RmList(r)
       PROVE  Elsewhere(r)
  <2>0. cmd[r] \in Command
    BY <1>0
  <2>1. CASE Monitor(r)
    BY <1>0, <2>0, <2>1 DEF Goto, At, Monitor, Command
  <2>2. CASE SetQuorum(r)
    BY <1>0, <2>0, <2>2 DEF Goto, At, SetQuorum, Command
  <2>3. CASE RmList(r)
    BY <1>0, <2>0, <2>3 DEF Goto, At, RmList, Command
  <2> QED BY <1>12, <2>1, <2>2, <2>3
<1>13. ASSUME NEW r \in Proc, Elsewhere(r)
       PROVE  SavesEarned'
  BY <1>13, LandsElsewhere
<1> HIDE DEF Elsewhere
<1>14. ASSUME NEW r \in Proc, Step(r)
       PROVE  SavesEarned'
  BY <1>14, <1>2, <1>4, <1>5, <1>7, <1>8, <1>9, <1>10, <1>12, <1>13 DEF Step
<1>15. ASSUME NEW r \in Proc, NEW c \in Cluster, ClusterStep(r, c)
       PROVE  SavesEarned'
  BY <1>15, <1>1, <1>3, <1>6, <1>8, <1>10, <1>11, <1>13 DEF ClusterStep
<1>16. ASSUME NEW r \in Proc, NEW p \in Port, PortStep(r, p)
       PROVE  SavesEarned'
  BY <1>16, <1>8, <1>10, <1>13 DEF PortStep
<1> QED BY <1>14, <1>15, <1>16 DEF HistoryNext, Next

LEMMA HistoryInvInit == HistoryInit => HistoryInv
<1> SUFFICES ASSUME HistoryInit PROVE HistoryInv
  OBVIOUS
<1>1. TypeOK
  BY InitTypeOK DEF HistoryInit
<1>2. InitialStage \in Stage
  BY DEF InitialStage, Stage
<1>3. HistoryKept /\ reached \in [Cluster -> SUBSET Stage]
  BY <1>2, NotStages DEF HistoryInit, Init, HistoryKept
<1>4. \A r \in Proc : cmd[r].pc = "idle"
  BY DEF HistoryInit, Init, Idle
<1>5. SavesEarned
  BY <1>4, ElsewhereEarns DEF SavesEarned
<1> QED BY <1>1, <1>3, <1>5 DEF HistoryInv

LEMMA HistoryInvNext ==
  ASSUME HistoryInv, [HistoryNext]_<<vars, reached>>
  PROVE  HistoryInv'
<1>1. CASE HistoryNext
  BY <1>1, NextTypeOK, HistoryGrows, SavesEarnedStep DEF HistoryInv, HistoryNext
<1>2. CASE UNCHANGED <<vars, reached>>
  BY <1>2 DEF HistoryInv, TypeOK, HistoryKept, SavesEarned, Earned, vars
<1> QED BY <1>1, <1>2

\* The four ways of FileSteps are the steps of ManagedLifecycle.
LEMMA StepImplements ==
  ASSUME HistoryInv, HistoryNext, NEW c \in Cluster
  PROVE  L(c)!ManagedNext \/ UNCHANGED <<file[c], reached[c]>>
<1>1. FileStep(c)
  BY FileSteps DEF HistoryNext
<1>2. reached'[c] = reached[c] \cup ({file'[c]} \cap Stage)
  BY DEF HistoryNext
<1>3. CASE file'[c] = file[c]
  BY <1>2, <1>3 DEF HistoryInv, HistoryKept
<1>4. CASE file'[c] \in {Torn, Missing}
  BY <1>2, <1>4, NotStages
     DEF L!ManagedNext, L!Next, L!Tear, L!Remove, L!Torn, L!Missing, Torn, Missing
<1>5. CASE file'[c] \in {InitialStage, "Done"}
  <2>1. file'[c] \in Stage
    BY <1>5 DEF InitialStage, Stage
  <2>2. L(c)!Create(file'[c])
    BY <1>2, <1>5, <2>1 DEF L!Create, L!InitialStage, InitialStage
  <2> QED BY <2>1, <2>2 DEF L!ManagedNext, L!Stage, Stage
<1>6. ASSUME NEW t \in Trigger, From[t] \in reached[c], file'[c] = To[t]
      PROVE  L(c)!ManagedNext
  <2>1. L(c)!LateAdvance(t)
    BY <1>2, <1>6, ToType DEF L!LateAdvance, L!From, L!To, From, To
  <2> QED BY <2>1 DEF L!ManagedNext, L!Next, L!Trigger, Trigger
<1> QED BY <1>1, <1>3, <1>4, <1>5, <1>6 DEF FileStep

\* However many sentinel and cluster commands run at once, and whichever of
\* their calls fail, every state file implements ManagedLifecycle: a stage is
\* saved only over the stage the FSM leads there from, or later (machine.go 138).
THEOREM FilesManaged == HistorySpec => FilesImplementLifecycle
<1>1. HistoryInit => \A c \in Cluster : L(c)!ManagedInit
  BY DEF HistoryInit, Init, L!ManagedInit, L!Missing, L!InitialStage, Missing, InitialStage
<1>2. HistoryInv /\ [HistoryNext]_<<vars, reached>> =>
        [\A c \in Cluster :
           L(c)!ManagedNext \/ UNCHANGED <<file[c], reached[c]>>]_<<file, reached>>
  <2>1. ASSUME HistoryInv, HistoryNext
        PROVE  \A c \in Cluster : L(c)!ManagedNext \/ UNCHANGED <<file[c], reached[c]>>
    BY <2>1, StepImplements
  <2>2. ASSUME UNCHANGED <<vars, reached>>
        PROVE  UNCHANGED <<file, reached>>
    BY <2>2 DEF vars
  <2> QED BY <2>1, <2>2
<1>3. HistoryInv /\ [HistoryNext]_<<vars, reached>> => HistoryInv'
  BY HistoryInvNext
<1> QED BY <1>1, <1>2, <1>3, HistoryInvInit, PTL DEF HistorySpec, FilesImplementLifecycle
=============================================================================
