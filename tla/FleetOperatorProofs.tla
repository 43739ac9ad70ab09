------------------------- MODULE FleetOperatorProofs -------------------------
(***************************************************************************)
(* Theorems about SentinelFleet when one operator runs one russ command at *)
(* a time, for every set of sentinel ports and clusters and every value of *)
(* the bounds.  Commands may still die at any step.                        *)
(***************************************************************************)
EXTENDS FleetProofs

OneOperator == \E r : Proc = {r}

----------------------------------------------------------------------------
(* What a command may rely on from its start to its end. *)

\* Where no sentinel runs, nothing is monitored.
Silent == \A p \in Port : sentinel[p] = 0 => \A c \in Cluster : watches[p][c] = 0

\* The sentinels of S that monitor c need n votes.
Need(S, c, n) == \A s \in S : watches[s][c] \in {0, n}

Agree(c) ==
  \A s, t \in Port :
    watches[s][c] # 0 /\ watches[t][c] # 0 => watches[s][c] = watches[t][c]

NoV6Sentinel == \A p \in Port : sentinel[p] # 6

\* sentinel add registers the clusters, or sets the quorum of one.
Adding(l) == l.pc \in {"register", "monitor"} \/ (l.pc = "set_quorum" /\ l.new # {})
Removing(l) == l.pc = "requorum" \/ (l.pc = "set_quorum" /\ l.new = {})
Saving(l) == l.pc \in {"advance", "truncate", "write"}

\* The cluster whose quorum is being set.
Attends(l, c) == l.pc \in {"monitor", "set_quorum"} /\ l.cluster = c

Quorum(l) == Majority(Cardinality(l.list))

\* What RegisteredWhenAdded asks for c.
Registered(l, c) ==
  (\E s \in l.prior : watches[s][c] # 0) =>
    /\ \A s \in l.new : watches[s][c] # 0
    /\ Need(Fleet, c, Majority(Cardinality(Fleet)))

\* The locals fit where the command is.
Shape(l) ==
  /\ l.pc \in {"monitor", "set_quorum", "create_list", "create_monitor", "unwatch"} =>
       l.cluster \in Cluster
  /\ l.trigger \in {"AddV8Sentinels", "RemoveV6Sentinels"}
  /\ l.pc = "add_start" =>
       /\ l.count > 0 \/ l.new # {}
       /\ l.version # 0 /\ ~l.last /\ l.trigger = "AddV8Sentinels"
  /\ l.pc \in {"register", "monitor"} => l.new # {}
  /\ l.pc \in {"rm_unmonitor", "rm_list", "requorum"} => l.new = {}
  /\ l.pc \in {"create_list", "create_monitor"} => l.save \in {InitialStage, "Done"}
  /\ l.pc \in {"truncate", "write"} => l.save # "V6Destroyed"

\* What a command relies on as long as no call failed.
Known(l) ==
  /\ l.pc \in {"monitor", "create_list", "create_monitor"} => exists[l.cluster]
  /\ l.pc = "unwatch" => \A p \in Port \ l.ports : watches[p][l.cluster] = 0
  /\ l.last \/ l.trigger = "RemoveV6Sentinels" => NoV6Sentinel

\* How far a command has got with the quorums, if all before it ran to the end.
Agreed(l) ==
  /\ \A c \in Cluster : Attends(l, c) \/ Agree(c)
  /\ l.pc = "add_start" => /\ \A c \in Cluster : Need(Port \ l.prior, c, 0)
                           /\ l.new \subseteq Fleet
  /\ Adding(l) =>
       /\ l.list = Fleet /\ l.new \subseteq Fleet
       /\ \A c \in l.clusters : ~Attends(l, c) /\ Need(Port \ l.prior, c, 0)
       /\ \A c \in Cluster \ l.clusters :
            file[c] = "V6Destroyed" => Attends(l, c) \/ Registered(l, c)
  /\ l.pc = "monitor" => /\ Need(Port \ l.prior, l.cluster, Quorum(l))
                         /\ \A s \in l.new \ l.ports : watches[s][l.cluster] # 0
  /\ l.pc = "set_quorum" => /\ Need(Port \ l.ports, l.cluster, Quorum(l))
                            /\ \A s \in l.new : watches[s][l.cluster] # 0
  /\ Removing(l) => \A c \in Cluster : Need(Port \ l.list, c, 0)
  /\ l.pc = "create_list" => Need(Port, l.cluster, 0)
  /\ l.pc = "create_monitor" => Need(Port, l.cluster, Quorum(l))
  /\ Saving(l) /\ l.trigger = "AddV8Sentinels" =>
       \A c \in l.clusters : file[c] = "V6Destroyed" => Registered(l, c)
  /\ l.pc \in {"truncate", "write"} /\ l.save = "V8SentinelsAdded" =>
       Registered(l, l.cluster)

OperatorInv ==
  /\ Silent
  /\ WatchedExists
  /\ \A r \in Proc : /\ Shape(cmd[r])
                     /\ faults = 0 => Known(cmd[r])
                     /\ Undisturbed => Agreed(cmd[r])

----------------------------------------------------------------------------
(* Steps in general. *)

LEMMA OneGoes ==
  ASSUME OneOperator, TypeOK, NEW r \in Proc, NEW l, Goto(r, l)
  PROVE  \A q \in Proc : cmd'[q] = l
BY DEF OneOperator, TypeOK, Goto

\* A step of the command that goes on with the locals l.
LEMMA StepTo ==
  ASSUME OneOperator, TypeOK, NEW r \in Proc, NEW l, Goto(r, l),
         Silent', WatchedExists', Shape(l),
         faults' = 0 => Known(l)', Undisturbed' => Agreed(l)'
  PROVE  OperatorInv'
<1>1. \A q \in Proc : cmd'[q] = l
  BY OneGoes
<1>2. ASSUME NEW q \in Proc
      PROVE  Shape(cmd[q])' /\ (faults' = 0 => Known(cmd[q])')
             /\ (Undisturbed' => Agreed(cmd[q])')
  <2>1. cmd'[q] = l
    BY <1>1
  <2>2. Shape(cmd[q])'
    BY <2>1 DEF Shape
  <2>3. faults' = 0 => Known(cmd[q])'
    BY <2>1 DEF Known
  <2>4. Undisturbed' => Agreed(cmd[q])'
    BY <2>1 DEF Agreed, Attends, Adding, Removing, Saving, Quorum, Registered
  <2> QED BY <2>2, <2>3, <2>4
<1> QED BY <1>2 DEF OperatorInv

\* A step that leaves sentinels, clusters and files alone.
LEMMA LocalStep ==
  ASSUME OneOperator, TypeOK, OperatorInv, NEW r \in Proc, NEW l, Goto(r, l),
         UNCHANGED <<sentinel, watches, exists, file>>, faults' = 0 => faults = 0,
         Shape(l), faults' = 0 => Known(l), Undisturbed' => Agreed(l)
  PROVE  OperatorInv'
<1>1. Silent' /\ WatchedExists'
  BY DEF OperatorInv, Silent, WatchedExists
<1>2. faults' = 0 => Known(l)'
  BY DEF Known, NoV6Sentinel
<1>3. Undisturbed' => Agreed(l)'
  BY DEF Agreed, Agree, Attends, Adding, Removing, Saving, Quorum, Registered, Need, Fleet
<1> QED BY <1>1, <1>2, <1>3, StepTo

\* As long as no call has failed none does.
LEMMA CallAnswered ==
  ASSUME TypeOK, NEW lost \in BOOLEAN, Call(lost)
  PROVE  faults' = 0 => faults = 0 /\ ~lost
BY DEF TypeOK, Call

\* What holds of the command that takes the step.
LEMMA Current ==
  ASSUME TypeOK, OperatorInv, NEW r \in Proc
  PROVE  /\ cmd[r] \in Command /\ Shape(cmd[r]) /\ Silent /\ WatchedExists
         /\ faults = 0 => Known(cmd[r])
         /\ Undisturbed => Agreed(cmd[r])
BY DEF TypeOK, OperatorInv

LEMMA IdleFits ==
  /\ Idle.pc = "idle" /\ Shape(Idle) /\ Known(Idle)
  /\ (\A c \in Cluster : Agree(c)) => Agreed(Idle)
BY DEF Idle, Shape, Known, Agreed, Adding, Removing, Saving

\* A command that attends to no cluster finds all quorums agreed, and may end.
LEMMA EndStep ==
  ASSUME OneOperator, TypeOK, OperatorInv, NEW r \in Proc, Goto(r, Idle),
         UNCHANGED <<sentinel, watches, exists, file>>, faults' = 0 => faults = 0,
         cmd[r].pc \notin {"monitor", "set_quorum"} \/ ~Undisturbed',
         interrupted => interrupted'
  PROVE  OperatorInv'
<1>1. Undisturbed' => \A c \in Cluster : Agree(c)
  BY Current DEF Agreed, Attends, Undisturbed
<1> QED BY <1>1, IdleFits, LocalStep

\* No monitoring is added where there was none.
LEMMA NoNewWatch ==
  ASSUME Silent, WatchedExists, UNCHANGED <<sentinel, exists>>, faults' = 0 => faults = 0,
         \A x \in Port : \A d \in Cluster : watches[x][d] = 0 => watches'[x][d] = 0
  PROVE  Silent' /\ WatchedExists'
BY DEF Silent, WatchedExists

LEMMA QuorumPositive ==
  ASSUME NEW S \in SUBSET Port
  PROVE  Majority(Cardinality(S)) # 0
<1>1. Cardinality(S) \in Nat
  BY PortsAreNumbers, FS_Subset, FS_CardinalityType
<1> QED BY <1>1 DEF Majority

\* Sentinels that all need the same agree.
LEMMA NeedAgrees ==
  ASSUME NEW c, NEW n, Need(Port, c, n)
  PROVE  Agree(c)
BY DEF Need, Agree

----------------------------------------------------------------------------
(* advanceClustersInState *)

LEMMA AdvanceOperator ==
  ASSUME OneOperator, TypeOK, OperatorInv, NEW r \in Proc,
         AdvanceDone(r) \/ Truncate(r) \/ Write(r) \/ \E c \in Cluster : AdvanceCluster(r, c)
  PROVE  OperatorInv'
<1>0. /\ cmd[r] \in Command /\ Shape(cmd[r]) /\ Silent /\ WatchedExists
      /\ faults = 0 => Known(cmd[r])
      /\ Undisturbed => Agreed(cmd[r])
  BY Current
<1>1. CASE AdvanceDone(r)
  BY <1>1, EndStep DEF AdvanceDone, At
<1>2. ASSUME NEW c \in Cluster, AdvanceCluster(r, c)
      PROVE  OperatorInv'
  <2>1. PICK k : k = [cmd[r] EXCEPT !.clusters = @ \ {c}]
    OBVIOUS
  <2>2. /\ k.pc = "advance" /\ k.prior = cmd[r].prior /\ k.new = cmd[r].new
        /\ k.trigger = cmd[r].trigger /\ k.last = cmd[r].last
        /\ k.clusters = cmd[r].clusters \ {c} /\ k \in Command /\ cmd[r].pc = "advance"
    BY <1>0, <1>2, <2>1 DEF AdvanceCluster, At, Command
  <2>3. PICK l : l = IF CanFire(file[c], k.trigger)
                     THEN [k EXCEPT !.pc = "truncate", !.cluster = c, !.save = To[k.trigger]]
                     ELSE k
    OBVIOUS
  <2>4. Goto(r, l) /\ UNCHANGED <<sentinel, watches, exists, file, faults, interrupted>>
    BY <1>2, <2>1, <2>3 DEF AdvanceCluster
  <2>5. /\ l.pc \in {"advance", "truncate"} /\ l.prior = cmd[r].prior /\ l.new = cmd[r].new
        /\ l.trigger = cmd[r].trigger /\ l.last = cmd[r].last
        /\ l.clusters = cmd[r].clusters \ {c}
        /\ l.pc = "truncate" =>
             l.cluster = c /\ l.save = To[l.trigger] /\ file[c] = From[l.trigger]
    BY <2>2, <2>3 DEF Command, CanFire
  <2>6. Shape(l)
    BY <1>0, <2>5 DEF Shape, To
  <2>7. faults = 0 => Known(l)
    BY <1>0, <2>5 DEF Known
  <2>8. Undisturbed => Agreed(l)
    <3> SUFFICES ASSUME Undisturbed PROVE Agreed(l)
      OBVIOUS
    <3>1. \A d \in Cluster : Registered(cmd[r], d) => Registered(l, d)
      BY <2>5 DEF Registered
    <3>2. l.pc = "truncate" /\ l.save = "V8SentinelsAdded" =>
            l.trigger = "AddV8Sentinels" /\ file[c] = "V6Destroyed"
      BY <1>0, <2>5 DEF Shape, To, From
    <3>3. c \in cmd[r].clusters
      BY <1>2 DEF AdvanceCluster
    <3>4. cmd[r].clusters \subseteq Cluster
      BY <1>0 DEF Command
    <3> QED
      BY <1>0, <2>2, <2>5, <3>1, <3>2, <3>3, <3>4
      DEF Agreed, Attends, Adding, Removing, Saving
  <2> QED BY <2>4, <2>6, <2>7, <2>8, LocalStep DEF Undisturbed
<1>3. CASE Truncate(r)
  <2>1. PICK lost \in BOOLEAN :
          /\ Call(lost)
          /\ IF lost
             THEN /\ Goto(r, Saved(cmd[r]))
                  /\ UNCHANGED file
             ELSE /\ Goto(r, [cmd[r] EXCEPT !.pc = "write"])
                  /\ file' = [file EXCEPT ![cmd[r].cluster] = Torn]
    BY <1>3 DEF Truncate
  <2>2. /\ faults' = 0 => faults = 0 /\ ~lost
        /\ UNCHANGED <<sentinel, watches, exists, interrupted>>
        /\ cmd[r].pc = "truncate"
    BY <1>3, <2>1, CallAnswered DEF Truncate, At
  <2>3. PICK l : l = IF lost THEN Saved(cmd[r]) ELSE [cmd[r] EXCEPT !.pc = "write"]
    OBVIOUS
  <2>4. Goto(r, l)
    BY <2>1, <2>3
  <2>5. /\ l.pc \in {"advance", "write"} /\ l.trigger = cmd[r].trigger
        /\ l.pc = "write" => l.save = cmd[r].save
        /\ ~lost => /\ l.pc = "write" /\ l.prior = cmd[r].prior /\ l.new = cmd[r].new
                    /\ l.last = cmd[r].last /\ l.clusters = cmd[r].clusters
                    /\ l.cluster = cmd[r].cluster
    BY <1>0, <2>3 DEF Saved, Command
  <2>6. Shape(l)
    BY <1>0, <2>2, <2>5 DEF Shape
  <2>7. Silent' /\ WatchedExists'
    BY <1>0, <2>2 DEF Silent, WatchedExists
  <2>8. faults' = 0 => Known(l)'
    BY <1>0, <2>2, <2>5 DEF Known, NoV6Sentinel
  <2>9. Undisturbed' => Agreed(l)'
    <3> SUFFICES ASSUME Undisturbed' PROVE Agreed(l)'
      OBVIOUS
    <3>1. ~lost /\ Agreed(cmd[r])
      BY <1>0, <2>2 DEF Undisturbed
    <3>2. \A d : Registered(cmd[r], d) => Registered(l, d)'
      BY <2>2, <2>5, <3>1 DEF Registered, Need, Fleet
    <3>3. \A d \in Cluster : file'[d] = "V6Destroyed" => file[d] = "V6Destroyed"
      BY <2>1, <3>1 DEF TypeOK, Torn
    <3>4. \A d \in Cluster : Agree(d)'
      BY <2>2, <3>1 DEF Agreed, Attends, Agree
    <3>5. cmd[r].clusters \subseteq Cluster
      BY <1>0 DEF Command
    <3> QED
      BY <2>2, <2>5, <3>1, <3>2, <3>3, <3>4, <3>5
      DEF Agreed, Attends, Adding, Removing, Saving
  <2> QED BY <2>4, <2>6, <2>7, <2>8, <2>9, StepTo
<1>4. CASE Write(r)
  <2>1. PICK l : l = Saved(cmd[r])
    OBVIOUS
  <2>2. /\ Goto(r, l) /\ file' = [file EXCEPT ![cmd[r].cluster] = cmd[r].save]
        /\ UNCHANGED <<sentinel, watches, exists, faults, interrupted>>
        /\ cmd[r].pc = "write"
    BY <1>4, <2>1 DEF Write, At
  <2>3. /\ l.pc = "advance" /\ l.trigger = cmd[r].trigger /\ l.prior = cmd[r].prior
        /\ l.new = cmd[r].new /\ l.last = cmd[r].last /\ l.clusters = cmd[r].clusters
    BY <1>0, <2>1 DEF Saved, Command
  <2>4. Shape(l)
    BY <1>0, <2>3 DEF Shape
  <2>5. Silent' /\ WatchedExists'
    BY <1>0, <2>2 DEF Silent, WatchedExists
  <2>6. faults' = 0 => Known(l)'
    BY <1>0, <2>2, <2>3 DEF Known, NoV6Sentinel
  <2>7. Undisturbed' => Agreed(l)'
    <3> SUFFICES ASSUME Undisturbed' PROVE Agreed(l)'
      OBVIOUS
    <3>1. Agreed(cmd[r])
      BY <1>0, <2>2 DEF Undisturbed
    <3>2. \A d : Registered(cmd[r], d) => Registered(l, d)'
      BY <2>2, <2>3 DEF Registered, Need, Fleet
    <3>3. \A d \in Cluster : file'[d] = "V6Destroyed" => file[d] = "V6Destroyed"
      BY <1>0, <2>2 DEF TypeOK, Shape
    <3>4. \A d \in Cluster : Agree(d)'
      BY <2>2, <3>1 DEF Agreed, Attends, Agree
    <3>5. cmd[r].clusters \subseteq Cluster
      BY <1>0 DEF Command
    <3> QED
      BY <2>2, <2>3, <3>1, <3>2, <3>3, <3>4, <3>5
      DEF Agreed, Attends, Adding, Removing, Saving
  <2> QED BY <2>2, <2>4, <2>5, <2>6, <2>7, StepTo
<1> QED BY <1>1, <1>2, <1>3, <1>4

----------------------------------------------------------------------------
(* sentinel add *)

LEMMA AddOperator ==
  ASSUME OneOperator, TypeOK, OperatorInv, NEW r \in Proc,
         \/ \E v \in {6, 8}, n \in 1 .. MaxCount : SentinelAdd(r, v, n)
         \/ \E p \in Port : AddStart(r, p)
         \/ AddStarted(r)
  PROVE  OperatorInv'
<1>0. /\ cmd[r] \in Command /\ Shape(cmd[r]) /\ Silent /\ WatchedExists
      /\ faults = 0 => Known(cmd[r])
      /\ Undisturbed => Agreed(cmd[r])
  BY Current
<1>1. ASSUME NEW v \in {6, 8}, NEW n \in 1 .. MaxCount, SentinelAdd(r, v, n)
      PROVE  OperatorInv'
  <2>1. PICK lost \in BOOLEAN :
          /\ Call(lost)
          /\ Goto(r, [Idle EXCEPT !.pc = "add_start", !.version = v, !.count = n,
                                  !.prior = IF lost THEN {} ELSE Fleet])
    BY <1>1 DEF SentinelAdd
  <2>2. /\ faults' = 0 => faults = 0 /\ ~lost
        /\ UNCHANGED <<sentinel, watches, exists, file, interrupted>>
        /\ cmd[r].pc = "idle"
    BY <1>1, <2>1, CallAnswered DEF SentinelAdd, At
  <2>3. PICK l : l = [Idle EXCEPT !.pc = "add_start", !.version = v, !.count = n,
                                  !.prior = IF lost THEN {} ELSE Fleet]
    OBVIOUS
  <2>4. /\ l.pc = "add_start" /\ l.version = v /\ l.count = n /\ ~l.last /\ l.new = {}
        /\ l.trigger = "AddV8Sentinels" /\ (~lost => l.prior = Fleet)
    BY <2>3 DEF Idle
  <2>5. Shape(l) /\ Known(l)
    BY <2>4 DEF Shape, Known
  <2>6. Undisturbed' => Agreed(l)
    <3> SUFFICES ASSUME Undisturbed' PROVE Agreed(l)
      OBVIOUS
    <3>1. \A c \in Cluster : Agree(c)
      BY <1>0, <2>2 DEF Undisturbed, Agreed, Attends
    <3>2. \A c \in Cluster : Need(Port \ l.prior, c, 0)
      BY <1>0, <2>2, <2>4 DEF Undisturbed, Silent, Need, Fleet
    <3> QED BY <2>4, <3>1, <3>2 DEF Agreed, Attends, Adding, Removing, Saving
  <2> QED BY <2>1, <2>2, <2>3, <2>5, <2>6, LocalStep
<1>2. ASSUME NEW p \in Port, AddStart(r, p)
      PROVE  OperatorInv'
  <2>1. PICK l : l = [cmd[r] EXCEPT !.count = @ - 1, !.new = @ \cup {p}]
    OBVIOUS
  <2>2. /\ Goto(r, l) /\ UNCHANGED <<watches, exists, file, faults, interrupted>>
        /\ sentinel' = [sentinel EXCEPT ![p] = cmd[r].version]
        /\ sentinel[p] = 0 /\ cmd[r].pc = "add_start"
    BY <1>2, <2>1 DEF AddStart, At
  <2>3. /\ l.pc = "add_start" /\ l.version = cmd[r].version /\ l.last = cmd[r].last
        /\ l.trigger = cmd[r].trigger /\ l.prior = cmd[r].prior
        /\ l.new = cmd[r].new \cup {p}
    BY <1>0, <2>1, <2>2 DEF Command
  <2>4. Shape(l)
    BY <1>0, <2>2, <2>3 DEF Shape
  <2>5. Silent' /\ WatchedExists'
    BY <1>0, <2>2 DEF Silent, WatchedExists, TypeOK
  <2>6. Known(l)'
    BY <2>3, <2>4 DEF Known, Shape
  <2>7. Undisturbed' => Agreed(l)'
    <3> SUFFICES ASSUME Undisturbed' PROVE Agreed(l)'
      OBVIOUS
    <3>1. Agreed(cmd[r])
      BY <1>0, <2>2 DEF Undisturbed
    <3>2. \A c \in Cluster : Agree(c)' /\ Need(Port \ l.prior, c, 0)'
      BY <2>2, <2>3, <3>1 DEF Agreed, Attends, Agree, Need
    <3>3. l.new \subseteq Fleet'
      BY <1>0, <2>2, <2>3, <3>1 DEF Agreed, Fleet, TypeOK, Shape
    <3> QED BY <2>3, <3>2, <3>3 DEF Agreed, Attends, Adding, Removing, Saving
  <2> QED BY <2>2, <2>4, <2>5, <2>6, <2>7, StepTo
<1>3. CASE AddStarted(r)
  <2>1. PICK lost \in BOOLEAN :
          /\ Call(lost)
          /\ LET l == [cmd[r] EXCEPT !.list = IF lost THEN {} ELSE Fleet] IN
               Goto(r, IF l.version # 8 THEN Idle
                       ELSE IF l.prior = {} THEN Advancing(l, "AddV8Sentinels")
                       ELSE [l EXCEPT !.pc = "register", !.clusters = Files])
    BY <1>3 DEF AddStarted
  <2>2. /\ faults' = 0 => faults = 0 /\ ~lost
        /\ UNCHANGED <<sentinel, watches, exists, file, interrupted>>
        /\ cmd[r].pc = "add_start" /\ cmd[r].count = 0
    BY <1>3, <2>1, CallAnswered DEF AddStarted, At
  <2>3. PICK k : k = [cmd[r] EXCEPT !.list = IF lost THEN {} ELSE Fleet]
    OBVIOUS
  <2>4. /\ k.version = cmd[r].version /\ k.prior = cmd[r].prior /\ k.new = cmd[r].new
        /\ k.last = cmd[r].last /\ k.trigger = cmd[r].trigger
        /\ k.list = IF lost THEN {} ELSE Fleet
        /\ k \in Command
    BY <1>0, <2>3 DEF Command, Fleet
  <2>5. /\ k.new # {} /\ ~k.last /\ k.trigger = "AddV8Sentinels"
    BY <1>0, <2>2, <2>4 DEF Shape
  <2>6. CASE k.version # 8
    <3>1. Goto(r, Idle)
      BY <2>1, <2>3, <2>6
    <3> QED BY <2>2, <3>1, EndStep
  <2>7. CASE k.version = 8 /\ k.prior = {}
    <3>1. PICK l : l = Advancing(k, "AddV8Sentinels")
      OBVIOUS
    <3>2. Goto(r, l)
      BY <2>1, <2>3, <2>7, <3>1
    <3>3. /\ l.pc = "advance" /\ l.prior = {} /\ l.trigger = "AddV8Sentinels" /\ ~l.last
      BY <2>7, <3>1 DEF Advancing, Idle
    <3>4. Shape(l) /\ Known(l)
      BY <3>3 DEF Shape, Known
    <3>5. Undisturbed' => Agreed(l)
      BY <1>0, <2>2, <3>3
      DEF Undisturbed, Agreed, Attends, Adding, Removing, Saving, Registered
    <3> QED BY <2>2, <3>2, <3>4, <3>5, LocalStep
  <2>8. CASE k.version = 8 /\ k.prior # {}
    <3>1. PICK l : l = [k EXCEPT !.pc = "register", !.clusters = Files]
      OBVIOUS
    <3>2. Goto(r, l)
      BY <2>1, <2>3, <2>8, <3>1
    <3>3. /\ l.pc = "register" /\ l.prior = k.prior /\ l.trigger = k.trigger
          /\ l.new = k.new /\ l.list = k.list /\ l.last = k.last /\ l.clusters = Files
      BY <2>4, <3>1 DEF Command
    <3>4. Shape(l) /\ Known(l)
      BY <2>5, <3>3 DEF Shape, Known
    <3>5. Undisturbed' => Agreed(l)
      <4> SUFFICES ASSUME Undisturbed' PROVE Agreed(l)
        OBVIOUS
      <4>1. Agreed(cmd[r]) /\ ~lost
        BY <1>0, <2>2 DEF Undisturbed
      <4>2. \A c \in Cluster : Agree(c) /\ Need(Port \ l.prior, c, 0)
        BY <2>2, <2>4, <3>3, <4>1 DEF Agreed, Attends
      <4>3. l.list = Fleet /\ l.new \subseteq Fleet
        BY <2>2, <2>4, <3>3, <4>1 DEF Agreed
      <4>4. Files \subseteq Cluster /\ \A c \in Cluster \ Files : file[c] # "V6Destroyed"
        BY DEF Files, Missing
      <4> QED
        BY <3>3, <4>2, <4>3, <4>4 DEF Agreed, Attends, Adding, Removing, Saving
    <3> QED BY <2>2, <3>2, <3>4, <3>5, LocalStep
  <2> QED BY <2>6, <2>7, <2>8
<1> QED BY <1>1, <1>2, <1>3

\* While it registers, sentinel add has set all quorums of the clusters it has
\* left behind, and none on its new sentinels of those it has still to do.
LEMMA RegisterOperator ==
  ASSUME OneOperator, TypeOK, OperatorInv, NEW r \in Proc,
         RegisterDone(r) \/ Monitor(r) \/ \E c \in Cluster : RegisterCluster(r, c)
  PROVE  OperatorInv'
<1>0. /\ cmd[r] \in Command /\ Shape(cmd[r]) /\ Silent /\ WatchedExists
      /\ faults = 0 => Known(cmd[r])
      /\ Undisturbed => Agreed(cmd[r])
  BY Current
<1>1. ASSUME NEW c \in Cluster, RegisterCluster(r, c)
      PROVE  OperatorInv'
  <2>1. PICK k : k = [cmd[r] EXCEPT !.clusters = @ \ {c}]
    OBVIOUS
  <2>2. /\ cmd[r].pc = "register" /\ c \in cmd[r].clusters
        /\ UNCHANGED <<sentinel, watches, exists, file, interrupted>>
    BY <1>1 DEF RegisterCluster, At
  <2>3. /\ k.pc = "register" /\ k.prior = cmd[r].prior /\ k.new = cmd[r].new
        /\ k.list = cmd[r].list /\ k.last = cmd[r].last /\ k.trigger = cmd[r].trigger
        /\ k.clusters = cmd[r].clusters \ {c} /\ k \in Command
    BY <1>0, <2>1, <2>2 DEF Command
  <2>4. PICK lost \in BOOLEAN :
          /\ Call(lost)
          /\ Goto(r, IF file[c] = "V6Destroyed" /\ ~lost /\ \E s \in k.prior : watches[s][c] # 0
                     THEN [k EXCEPT !.pc = "monitor", !.cluster = c, !.ports = k.new]
                     ELSE k)
    BY <1>1, <2>1 DEF RegisterCluster
  <2>5. faults' = 0 => faults = 0 /\ ~lost
    BY <2>4, CallAnswered
  <2>6. ASSUME NEW l, l.new = cmd[r].new, l.prior = cmd[r].prior
        PROVE  \A d : Registered(cmd[r], d) => Registered(l, d)
    BY <2>6 DEF Registered
  <2>7. cmd[r].clusters \subseteq Cluster /\ cmd[r].prior \subseteq Port
    BY <1>0 DEF Command
  <2>8. CASE file[c] = "V6Destroyed" /\ ~lost /\ \E s \in k.prior : watches[s][c] # 0
    <3>1. PICK l : l = [k EXCEPT !.pc = "monitor", !.cluster = c, !.ports = k.new]
      OBVIOUS
    <3>2. Goto(r, l)
      BY <2>4, <2>8, <3>1
    <3>3. /\ l.pc = "monitor" /\ l.prior = cmd[r].prior /\ l.new = cmd[r].new
          /\ l.list = cmd[r].list /\ l.last = cmd[r].last /\ l.trigger = cmd[r].trigger
          /\ l.clusters = cmd[r].clusters \ {c} /\ l.cluster = c /\ l.ports = cmd[r].new
      BY <2>3, <3>1 DEF Command
    <3>4. Shape(l)
      BY <1>0, <2>2, <3>3 DEF Shape
    <3>5. faults' = 0 => Known(l)
      <4>1. faults = 0 => exists[c]
        BY <1>0, <2>3, <2>7, <2>8 DEF WatchedExists
      <4> QED BY <1>0, <2>5, <3>3, <4>1 DEF Known
    <3>6. Undisturbed' => Agreed(l)
      <4> SUFFICES ASSUME Undisturbed' PROVE Agreed(l)
        OBVIOUS
      <4>1. Agreed(cmd[r])
        BY <1>0, <2>2, <2>5 DEF Undisturbed
      <4>2. Need(Port \ l.prior, c, Quorum(l))
        BY <2>2, <3>3, <4>1 DEF Agreed, Adding, Need
      <4>3. \A d \in Cluster \ l.clusters :
              file[d] = "V6Destroyed" => Attends(l, d) \/ Registered(l, d)
        BY <2>2, <2>6, <3>3, <4>1 DEF Agreed, Adding, Attends
      <4>4. \A d \in l.clusters : ~Attends(l, d) /\ Need(Port \ l.prior, d, 0)
        BY <2>2, <3>3, <4>1 DEF Agreed, Adding, Attends
      <4>5. \A d \in Cluster : Agree(d)
        BY <2>2, <4>1 DEF Agreed, Attends
      <4> QED
        BY <2>2, <3>3, <4>1, <4>2, <4>3, <4>4, <4>5 DEF Agreed, Adding, Removing, Saving
    <3> QED BY <2>2, <2>5, <3>2, <3>4, <3>5, <3>6, LocalStep
  <2>9. CASE ~(file[c] = "V6Destroyed" /\ ~lost /\ \E s \in k.prior : watches[s][c] # 0)
    <3>1. Goto(r, k)
      BY <2>4, <2>9
    <3>2. Shape(k)
      BY <1>0, <2>2, <2>3 DEF Shape
    <3>3. faults' = 0 => Known(k)
      BY <1>0, <2>3, <2>5 DEF Known
    <3>4. Undisturbed' => Agreed(k)
      <4> SUFFICES ASSUME Undisturbed' PROVE Agreed(k)
        OBVIOUS
      <4>1. Agreed(cmd[r]) /\ ~lost
        BY <1>0, <2>2, <2>5 DEF Undisturbed
      <4>2. file[c] = "V6Destroyed" => Registered(k, c)
        BY <2>9, <4>1 DEF Registered
      <4>3. \A d \in Cluster \ k.clusters : file[d] = "V6Destroyed" => Registered(k, d)
        BY <2>2, <2>3, <2>6, <4>1, <4>2 DEF Agreed, Adding, Attends
      <4>4. \A d \in k.clusters : Need(Port \ k.prior, d, 0)
        BY <2>2, <2>3, <4>1 DEF Agreed, Adding
      <4>5. \A d \in Cluster : Agree(d)
        BY <2>2, <4>1 DEF Agreed, Attends
      <4> QED
        BY <2>2, <2>3, <4>1, <4>3, <4>4, <4>5 DEF Agreed, Adding, Attends, Removing, Saving
    <3> QED BY <2>2, <2>5, <3>1, <3>2, <3>3, <3>4, LocalStep
  <2> QED BY <2>8, <2>9
<1>2. CASE RegisterDone(r)
  <2>1. PICK l : l = Advancing(cmd[r], "AddV8Sentinels")
    OBVIOUS
  <2>2. /\ Goto(r, l) /\ UNCHANGED <<sentinel, watches, exists, file, faults, interrupted>>
        /\ cmd[r].pc = "register" /\ cmd[r].clusters = {}
    BY <1>2, <2>1 DEF RegisterDone, At
  <2>3. /\ l.pc = "advance" /\ l.prior = cmd[r].prior /\ l.new = cmd[r].new
        /\ l.trigger = "AddV8Sentinels" /\ ~l.last /\ l.clusters = Files
    BY <2>1 DEF Advancing, Idle
  <2>4. Shape(l) /\ Known(l)
    BY <2>3 DEF Shape, Known
  <2>5. Undisturbed => Agreed(l)
    <3> SUFFICES ASSUME Undisturbed PROVE Agreed(l)
      OBVIOUS
    <3>1. \A d \in Cluster : file[d] = "V6Destroyed" => Registered(cmd[r], d)
      BY <1>0, <2>2 DEF Agreed, Adding, Attends
    <3>2. \A d \in Cluster : file[d] = "V6Destroyed" => Registered(l, d)
      BY <2>3, <3>1 DEF Registered
    <3>3. Files \subseteq Cluster
      BY DEF Files
    <3>4. \A d \in Cluster : Agree(d)
      BY <1>0, <2>2 DEF Agreed, Attends
    <3> QED BY <2>3, <3>2, <3>3, <3>4 DEF Agreed, Adding, Attends, Removing, Saving
  <2> QED BY <2>2, <2>4, <2>5, LocalStep DEF Undisturbed
<1>3. CASE Monitor(r)
  <2>1. PICK s : s = Min(cmd[r].ports)
    OBVIOUS
  <2>2. PICK c : c = cmd[r].cluster
    OBVIOUS
  <2>3. PICK n : n = Quorum(cmd[r])
    OBVIOUS
  <2>4. PICK l : l = IF cmd[r].ports \ {s} = {}
                     THEN [cmd[r] EXCEPT !.pc = "set_quorum", !.ports = cmd[r].prior]
                     ELSE [cmd[r] EXCEPT !.ports = cmd[r].ports \ {s}]
    OBVIOUS
  <2>5. PICK lost \in BOOLEAN :
          /\ Call(lost)
          /\ IF lost THEN UNCHANGED watches ELSE MonitorOn(s, c, n)
    BY <1>3, <2>1, <2>2, <2>3 DEF Monitor, Quorum
  <2>6. /\ cmd[r].pc = "monitor" /\ Goto(r, l)
        /\ UNCHANGED <<sentinel, exists, file, interrupted>>
    BY <1>3, <2>1, <2>4 DEF Monitor, At
  <2>7. faults' = 0 => faults = 0 /\ ~lost
    BY <2>5, CallAnswered
  <2>8. /\ l.pc = IF cmd[r].ports \ {s} = {} THEN "set_quorum" ELSE "monitor"
        /\ l.prior = cmd[r].prior /\ l.new = cmd[r].new /\ l.list = cmd[r].list
        /\ l.last = cmd[r].last /\ l.trigger = cmd[r].trigger
        /\ l.clusters = cmd[r].clusters /\ l.cluster = c
        /\ l.ports = IF cmd[r].ports \ {s} = {} THEN cmd[r].prior ELSE cmd[r].ports \ {s}
    BY <1>0, <2>2, <2>4, <2>6 DEF Command
  <2>9. c \in Cluster /\ cmd[r].new # {} /\ n # 0
    <3>1. cmd[r].list \in SUBSET Port
      BY <1>0 DEF Command
    <3> QED BY <1>0, <2>2, <2>3, <2>6, <3>1, QuorumPositive DEF Shape, Quorum
  <2>10. \A x \in Port : \A d \in Cluster :
           watches'[x][d] = IF ~lost /\ x = s /\ d = c /\ sentinel[s] # 0 /\ watches[s][c] = 0
                            THEN n ELSE watches[x][d]
    <3>1. CASE lost \/ ~(sentinel[s] # 0 /\ watches[s][c] = 0)
      BY <2>5, <3>1 DEF MonitorOn
    <3>2. CASE ~lost /\ sentinel[s] # 0 /\ watches[s][c] = 0
      <4>1. watches' = [watches EXCEPT ![s][c] = n]
        BY <2>5, <3>2 DEF MonitorOn
      <4>2. \A x \in Port : \A d \in Cluster :
              watches'[x][d] = IF x = s /\ d = c THEN n ELSE watches[x][d]
        BY <4>1, SMT DEF TypeOK
      <4>3. \A x \in Port : \A d \in Cluster :
              (~lost /\ x = s /\ d = c /\ sentinel[s] # 0 /\ watches[s][c] = 0)
                <=> (x = s /\ d = c)
        BY <3>2, Zenon
      <4> QED BY <4>2, <4>3, Zenon
    <3> QED BY <3>1, <3>2
  <2>11. Shape(l)
    BY <1>0, <2>8, <2>9 DEF Shape
  <2>12. Silent'
    BY <1>0, <2>6, <2>10 DEF Silent
  <2>13. WatchedExists'
    BY <1>0, <2>2, <2>6, <2>7, <2>10 DEF WatchedExists, Known
  <2>14. faults' = 0 => Known(l)'
    BY <1>0, <2>2, <2>6, <2>7, <2>8 DEF Known, NoV6Sentinel
  <2>15. Undisturbed' => Agreed(l)'
    <3> SUFFICES ASSUME Undisturbed' PROVE Agreed(l)'
      OBVIOUS
    <3>1. Agreed(cmd[r]) /\ ~lost
      BY <1>0, <2>6, <2>7 DEF Undisturbed
    <3>2. /\ cmd[r].new \subseteq Fleet /\ Fleet \subseteq Port /\ Fleet' = Fleet
          /\ cmd[r].list = Fleet /\ cmd[r].clusters \subseteq Cluster
          /\ cmd[r].prior \subseteq Port
      BY <1>0, <2>6, <3>1 DEF Agreed, Adding, Fleet, Command
    <3>3. Quorum(l)' = n
      BY <2>3, <2>8 DEF Quorum
    <3>4. \A d \in Cluster \ {c} :
            /\ Agree(d)' /\ Attends(l, d) = FALSE
            /\ Need(Port \ l.prior, d, 0) => Need(Port \ l.prior, d, 0)'
            /\ Registered(cmd[r], d) => Registered(l, d)'
      <4> TAKE d \in Cluster \ {c}
      <4>1. \A x \in Port : watches'[x][d] = watches[x][d]
        BY <2>10
      <4>2. Agree(d)' /\ Attends(l, d) = FALSE
        BY <2>2, <2>8, <3>1, <4>1 DEF Agreed, Attends, Agree
      <4>3. Need(Port \ l.prior, d, 0) => Need(Port \ l.prior, d, 0)'
        BY <4>1 DEF Need
      <4>4. Registered(cmd[r], d) => Registered(l, d)'
        BY <2>8, <3>2, <4>1 DEF Registered, Need
      <4> QED BY <4>2, <4>3, <4>4
    <3>5. Attends(l, c)
      BY <2>8 DEF Attends
    <3>6. Need(Port \ l.prior, c, n)'
      BY <2>2, <2>3, <2>6, <2>8, <2>9, <2>10, <3>1 DEF Agreed, Need
    <3>7. \A x \in l.new : x \notin cmd[r].ports \ {s} => watches'[x][c] # 0
      BY <2>2, <2>6, <2>8, <2>9, <2>10, <3>1, <3>2 DEF Agreed, Fleet
    <3>8. Adding(l) /\ ~Removing(l) /\ ~Saving(l)
      BY <2>8, <2>9 DEF Adding, Removing, Saving
    <3>9. \A d \in l.clusters : ~Attends(l, d)' /\ Need(Port \ l.prior, d, 0)'
      <4>1. c \notin cmd[r].clusters
        BY <2>2, <2>6, <3>1 DEF Agreed, Adding, Attends
      <4> QED BY <2>6, <2>8, <3>1, <3>2, <3>4, <4>1 DEF Agreed, Adding, Attends
    <3>10. \A d \in Cluster \ l.clusters :
             file[d] = "V6Destroyed" => Attends(l, d) \/ Registered(l, d)'
      BY <2>2, <2>6, <2>8, <3>1, <3>4, <3>5 DEF Agreed, Adding, Attends
    <3>11. l.pc = "set_quorum" => Need(Port \ l.ports, c, n)'
      BY <2>8, <3>6
    <3> QED
      BY <2>6, <2>8, <3>2, <3>3, <3>4, <3>5, <3>6, <3>7, <3>8, <3>9, <3>10, <3>11
      DEF Agreed, Attends, Adding, Removing, Saving
  <2> QED BY <2>6, <2>11, <2>12, <2>13, <2>14, <2>15, StepTo
<1> QED BY <1>1, <1>2, <1>3

----------------------------------------------------------------------------
(* The quorum, in sentinel add and sentinel rm *)

LEMMA SetQuorumOperator ==
  ASSUME OneOperator, TypeOK, OperatorInv, NEW r \in Proc, SetQuorum(r)
  PROVE  OperatorInv'
<1>0. /\ cmd[r] \in Command /\ Shape(cmd[r]) /\ Silent /\ WatchedExists
      /\ faults = 0 => Known(cmd[r])
      /\ Undisturbed => Agreed(cmd[r])
  BY Current
<1>1. PICK s : s = Min(cmd[r].ports)
  OBVIOUS
<1>2. PICK c : c = cmd[r].cluster
  OBVIOUS
<1>3. PICK n : n = Quorum(cmd[r])
  OBVIOUS
<1>4. PICK rest : rest = cmd[r].ports \ {s}
  OBVIOUS
<1>5. PICK lost \in BOOLEAN :
        /\ Call(lost)
        /\ watches' = IF ~lost /\ watches[s][c] # 0
                      THEN [watches EXCEPT ![s][c] = n] ELSE watches
  BY <1>1, <1>2, <1>3 DEF SetQuorum, Quorum
<1>6. PICK l : l = [cmd[r] EXCEPT !.ports = rest,
                      !.pc = IF rest # {} THEN "set_quorum"
                             ELSE IF cmd[r].new # {} THEN "register" ELSE "requorum"]
  OBVIOUS
<1>7. /\ cmd[r].pc = "set_quorum" /\ Goto(r, l)
      /\ UNCHANGED <<sentinel, exists, file, interrupted>>
  BY <1>1, <1>4, <1>6 DEF SetQuorum, At
<1>8. faults' = 0 => faults = 0 /\ ~lost
  BY <1>5, CallAnswered
<1>9. /\ l.pc = IF rest # {} THEN "set_quorum"
                ELSE IF cmd[r].new # {} THEN "register" ELSE "requorum"
      /\ l.prior = cmd[r].prior /\ l.new = cmd[r].new /\ l.list = cmd[r].list
      /\ l.last = cmd[r].last /\ l.trigger = cmd[r].trigger
      /\ l.clusters = cmd[r].clusters /\ l.cluster = c /\ l.ports = rest
  BY <1>0, <1>2, <1>6 DEF Command
<1>10. c \in Cluster /\ n # 0
  <2>1. cmd[r].list \in SUBSET Port
    BY <1>0 DEF Command
  <2> QED BY <1>0, <1>2, <1>3, <1>7, <2>1, QuorumPositive DEF Shape, Quorum
<1>11. \A x \in Port : \A d \in Cluster :
         /\ watches'[x][d] # 0 <=> watches[x][d] # 0
         /\ d # c \/ x # s => watches'[x][d] = watches[x][d]
  BY <1>5, <1>10 DEF TypeOK
<1>12. s \in Port /\ ~lost => watches'[s][c] \in {0, n}
  BY <1>5, <1>10 DEF TypeOK
<1>13. Shape(l)
  BY <1>0, <1>2, <1>7, <1>9 DEF Shape
<1>14. Silent' /\ WatchedExists'
  BY <1>0, <1>7, <1>8, <1>11, NoNewWatch
<1>15. faults' = 0 => Known(l)'
  BY <1>0, <1>7, <1>8, <1>9 DEF Known, NoV6Sentinel
<1>16. ASSUME Undisturbed'
       PROVE  Agreed(l)'
  <2>1. Agreed(cmd[r]) /\ ~lost
    BY <1>0, <1>7, <1>8, <1>16 DEF Undisturbed
  <2>2. \A d \in Cluster \ {c} :
          /\ Agree(d)' /\ Attends(cmd[r], d) = FALSE
          /\ Registered(l, d)' <=> Registered(cmd[r], d)
    <3> TAKE d \in Cluster \ {c}
    <3>1. \A x \in Port : watches'[x][d] = watches[x][d]
      BY <1>11
    <3>2. Agree(d)' /\ Attends(cmd[r], d) = FALSE
      BY <1>2, <2>1, <3>1 DEF Agreed, Attends, Agree
    <3>3. cmd[r].new \subseteq Port /\ cmd[r].prior \subseteq Port
      BY <1>0 DEF Command
    <3>4. Registered(l, d)' <=> Registered(cmd[r], d)
      BY <1>7, <1>9, <3>1, <3>3 DEF Registered, Need, Fleet
    <3> QED BY <3>2, <3>4
  <2>3. Attends(cmd[r], c) /\ (Adding(l)' <=> Adding(cmd[r]))
    BY <1>2, <1>7, <1>9 DEF Attends, Adding
  <2>4. Need(Port \ rest, c, n)'
    <3>1. Need(Port \ cmd[r].ports, c, n)
      BY <1>2, <1>3, <1>7, <2>1 DEF Agreed
    <3> QED BY <1>4, <1>10, <1>11, <1>12, <2>1, <3>1 DEF Need
  <2>5. rest = {} => Agree(c)'
    <3>1. Need(Port \ {}, c, n)' => Agree(c)'
      BY DEF Need, Agree
    <3> QED BY <2>4, <3>1
  <2>6. \A x \in l.new : watches'[x][c] # 0
    <3>1. cmd[r].new \subseteq Port
      BY <1>0 DEF Command
    <3> QED BY <1>2, <1>7, <1>9, <1>10, <1>11, <2>1, <3>1 DEF Agreed
  <2>7. Adding(cmd[r]) => l.list = Fleet' /\ l.new \subseteq Fleet'
    BY <1>7, <1>9, <2>1 DEF Agreed, Fleet
  <2>8. rest = {} /\ Adding(cmd[r]) => Registered(l, c)'
    <3>1. rest = {} => Need(Port \ {}, c, n)'
      BY <2>4
    <3>2. Adding(cmd[r]) => n = Majority(Cardinality(Fleet))'
      BY <1>3, <1>9, <2>7 DEF Quorum
    <3> QED BY <2>6, <3>1, <3>2 DEF Registered, Need, Fleet
  <2>9. \A S : \A d \in Cluster : Need(Port \ S, d, 0) => Need(Port \ S, d, 0)'
    BY <1>11 DEF Need
  <2>10. cmd[r].list \subseteq Port /\ cmd[r].prior \subseteq Port
         /\ cmd[r].clusters \subseteq Cluster
    BY <1>0 DEF Command
  <2>11. Adding(l)' =>
           \A d \in l.clusters : ~Attends(l, d)' /\ Need(Port \ l.prior, d, 0)'
    <3>1. Adding(cmd[r]) =>
            \A d \in cmd[r].clusters :
              ~Attends(cmd[r], d) /\ Need(Port \ cmd[r].prior, d, 0)
      BY <2>1 DEF Agreed
    <3>2. \A d \in Cluster : Attends(l, d)' => d = c
      BY <1>9 DEF Attends
    <3> QED BY <1>9, <2>3, <2>9, <2>10, <3>1, <3>2
  <2>12. Adding(l)' =>
           \A d \in Cluster \ l.clusters :
             file'[d] = "V6Destroyed" => Attends(l, d)' \/ Registered(l, d)'
    <3>1. Adding(cmd[r]) =>
            \A d \in Cluster \ cmd[r].clusters :
              file[d] = "V6Destroyed" => Attends(cmd[r], d) \/ Registered(cmd[r], d)
      BY <2>1 DEF Agreed
    <3>2. rest # {} => Attends(l, c)'
      BY <1>9 DEF Attends
    <3> QED BY <1>7, <1>9, <2>2, <2>3, <2>8, <3>1, <3>2
  <2>13. Removing(l)' => \A d \in Cluster : Need(Port \ l.list, d, 0)'
    <3>1. Removing(l)' => Removing(cmd[r])
      BY <1>7, <1>9, <1>0 DEF Removing, Shape
    <3>2. Removing(cmd[r]) => \A d \in Cluster : Need(Port \ cmd[r].list, d, 0)
      BY <2>1 DEF Agreed
    <3> QED BY <1>9, <2>9, <3>1, <3>2
  <2>14. \A d \in Cluster : Attends(l, d)' \/ Agree(d)'
    BY <1>9, <2>2, <2>5 DEF Attends
  <2>15. Quorum(l)' = n /\ ~Saving(l)'
    BY <1>3, <1>9 DEF Quorum, Saving
  <2> QED
    BY <1>9, <2>3, <2>4, <2>6, <2>7, <2>11, <2>12, <2>13, <2>14, <2>15 DEF Agreed
<1> QED BY <1>7, <1>13, <1>14, <1>15, <1>16, StepTo

----------------------------------------------------------------------------
(* sentinel rm *)

LEMMA RmOperator ==
  ASSUME OneOperator, TypeOK, OperatorInv, NEW r \in Proc,
         \/ \E p \in Port : SentinelRm(r, p)
         \/ \E c \in Cluster : RmUnmonitor(r, c)
         \/ RmStop(r) \/ RmList(r)
  PROVE  OperatorInv'
<1>0. /\ cmd[r] \in Command /\ Shape(cmd[r]) /\ Silent /\ WatchedExists
      /\ faults = 0 => Known(cmd[r])
      /\ Undisturbed => Agreed(cmd[r])
  BY Current
<1>1. ASSUME NEW p \in Port, SentinelRm(r, p)
      PROVE  OperatorInv'
  <2>1. PICK lost \in BOOLEAN :
          /\ Call(lost)
          /\ Goto(r, [Idle EXCEPT !.pc = "rm_unmonitor", !.target = p,
                                  !.version = sentinel[p],
                                  !.clusters = IF lost THEN {} ELSE Watched(p)])
    BY <1>1 DEF SentinelRm
  <2>2. /\ faults' = 0 => faults = 0
        /\ UNCHANGED <<sentinel, watches, exists, file, interrupted>>
        /\ cmd[r].pc = "idle"
    BY <1>1, <2>1, CallAnswered DEF SentinelRm, At
  <2>3. PICK l : l = [Idle EXCEPT !.pc = "rm_unmonitor", !.target = p,
                                  !.version = sentinel[p],
                                  !.clusters = IF lost THEN {} ELSE Watched(p)]
    OBVIOUS
  <2>4. l.pc = "rm_unmonitor" /\ l.new = {} /\ ~l.last /\ l.trigger = "AddV8Sentinels"
    BY <2>3 DEF Idle
  <2>5. Shape(l) /\ Known(l)
    BY <2>4 DEF Shape, Known
  <2>6. Undisturbed' => Agreed(l)
    BY <1>0, <2>2, <2>4 DEF Undisturbed, Agreed, Attends, Adding, Removing, Saving
  <2> QED BY <2>1, <2>2, <2>3, <2>5, <2>6, LocalStep
<1>2. ASSUME NEW c \in Cluster, RmUnmonitor(r, c)
      PROVE  OperatorInv'
  <2>1. PICK lost \in BOOLEAN :
          /\ Call(lost)
          /\ watches' = IF lost THEN watches ELSE [watches EXCEPT ![cmd[r].target][c] = 0]
    BY <1>2 DEF RmUnmonitor
  <2>2. PICK l : l = [cmd[r] EXCEPT !.clusters = @ \ {c}]
    OBVIOUS
  <2>3. /\ faults' = 0 => faults = 0
        /\ UNCHANGED <<sentinel, exists, file, interrupted>>
        /\ cmd[r].pc = "rm_unmonitor" /\ Goto(r, l)
    BY <1>2, <2>1, <2>2, CallAnswered DEF RmUnmonitor, At
  <2>4. /\ l.pc = "rm_unmonitor" /\ l.new = cmd[r].new /\ l.last = cmd[r].last
        /\ l.trigger = cmd[r].trigger
    BY <1>0, <2>2, <2>3 DEF Command
  <2>5. \A x \in Port : \A d \in Cluster : watches'[x][d] \in {0, watches[x][d]}
    BY <2>1 DEF TypeOK
  <2>6. Shape(l)
    BY <1>0, <2>3, <2>4 DEF Shape
  <2>7. Silent' /\ WatchedExists'
    BY <1>0, <2>3, <2>5, NoNewWatch
  <2>8. faults' = 0 => Known(l)'
    BY <1>0, <2>3, <2>4 DEF Known, NoV6Sentinel
  <2>9. ASSUME Undisturbed'
        PROVE  Agreed(l)'
    <3>1. \A d \in Cluster : Agree(d)
      BY <1>0, <2>3, <2>9 DEF Undisturbed, Agreed, Attends
    <3>2. \A d \in Cluster : Agree(d)'
      BY <2>5, <3>1 DEF Agree
    <3> QED BY <2>4, <3>2 DEF Agreed, Attends, Adding, Removing, Saving
  <2> QED BY <2>3, <2>6, <2>7, <2>8, <2>9, StepTo
<1>3. CASE RmStop(r)
  <2>1. PICK p : p = cmd[r].target
    OBVIOUS
  <2>2. PICK l : l = [cmd[r] EXCEPT !.pc = "rm_list"]
    OBVIOUS
  <2>3. /\ UNCHANGED <<exists, file, faults, interrupted>>
        /\ cmd[r].pc = "rm_unmonitor" /\ Goto(r, l)
        /\ sentinel' = [sentinel EXCEPT ![p] = 0]
        /\ watches' = [watches EXCEPT ![p] = Unwatching]
    BY <1>3, <2>1, <2>2 DEF RmStop, At
  <2>4. /\ l.pc = "rm_list" /\ l.new = cmd[r].new /\ l.last = cmd[r].last
        /\ l.trigger = cmd[r].trigger
    BY <1>0, <2>2, <2>3 DEF Command
  <2>5. \A x \in Port : \A d \in Cluster :
          watches'[x][d] = IF x = p THEN 0 ELSE watches[x][d]
    BY <2>3 DEF TypeOK, Unwatching
  <2>6. \A x \in Port : sentinel'[x] = IF x = p THEN 0 ELSE sentinel[x]
    BY <2>3 DEF TypeOK
  <2>7. Shape(l)
    BY <1>0, <2>3, <2>4 DEF Shape
  <2>8. Silent' /\ WatchedExists'
    BY <1>0, <2>3, <2>5, <2>6 DEF Silent, WatchedExists
  <2>9. faults' = 0 => Known(l)'
    BY <1>0, <2>3, <2>4, <2>6 DEF Known, NoV6Sentinel
  <2>10. ASSUME Undisturbed'
         PROVE  Agreed(l)'
    <3>1. \A d \in Cluster : Agree(d)
      BY <1>0, <2>3, <2>10 DEF Undisturbed, Agreed, Attends
    <3>2. \A d \in Cluster : Agree(d)'
      BY <2>5, <3>1 DEF Agree
    <3> QED BY <2>4, <3>2 DEF Agreed, Attends, Adding, Removing, Saving
  <2> QED BY <2>3, <2>7, <2>8, <2>9, <2>10, StepTo
<1>4. CASE RmList(r)
  <2>1. PICK lost, mute \in BOOLEAN :
          /\ Call(lost \/ mute)
          /\ LET left == IF lost THEN {} ELSE Fleet IN
               Goto(r, [cmd[r] EXCEPT !.pc = "requorum", !.list = left,
                         !.clusters = IF mute \/ left = {} THEN {} ELSE Watched(Min(left)),
                         !.last = cmd[r].version = 6 /\ \A s \in left : sentinel[s] # 6])
    BY <1>4 DEF RmList
  <2>2. /\ faults' = 0 => faults = 0 /\ ~lost
        /\ UNCHANGED <<sentinel, watches, exists, file, interrupted>>
        /\ cmd[r].pc = "rm_list"
    BY <1>4, <2>1, CallAnswered DEF RmList, At
  <2>3. PICK left : left = IF lost THEN {} ELSE Fleet
    OBVIOUS
  <2>4. PICK l : l = [cmd[r] EXCEPT !.pc = "requorum", !.list = left,
                        !.clusters = IF mute \/ left = {} THEN {} ELSE Watched(Min(left)),
                        !.last = cmd[r].version = 6 /\ \A s \in left : sentinel[s] # 6]
    OBVIOUS
  <2>5. Goto(r, l)
    BY <2>1, <2>3, <2>4
  <2>6. /\ l.pc = "requorum" /\ l.list = left /\ l.new = cmd[r].new
        /\ l.trigger = cmd[r].trigger
        /\ l.last => \A s \in left : sentinel[s] # 6
    BY <1>0, <2>4 DEF Command
  <2>7. Shape(l)
    BY <1>0, <2>2, <2>6 DEF Shape
  <2>8. ~lost /\ l.last => NoV6Sentinel
    BY <2>3, <2>6 DEF NoV6Sentinel, Fleet
  <2>9. faults' = 0 => Known(l)
    BY <1>0, <2>2, <2>6, <2>8 DEF Known
  <2>10. ASSUME Undisturbed'
         PROVE  Agreed(l)
    <3>1. Agreed(cmd[r]) /\ ~lost
      BY <1>0, <2>2, <2>10 DEF Undisturbed
    <3>2. \A d \in Cluster : Agree(d) /\ Need(Port \ l.list, d, 0)
      BY <1>0, <2>2, <2>3, <2>6, <3>1 DEF Agreed, Attends, Need, Silent, Fleet
    <3> QED
      BY <1>0, <2>2, <2>6, <3>2 DEF Agreed, Attends, Adding, Removing, Saving, Shape
  <2> QED BY <2>2, <2>5, <2>7, <2>9, <2>10, LocalStep
<1> QED BY <1>1, <1>2, <1>3, <1>4

\* It sets the quorums after it has listed what is left of the fleet.
LEMMA RequorumOperator ==
  ASSUME OneOperator, TypeOK, OperatorInv, NEW r \in Proc,
         RequorumDone(r) \/ \E c \in Cluster : Requorum(r, c)
  PROVE  OperatorInv'
<1>0. /\ cmd[r] \in Command /\ Shape(cmd[r]) /\ Silent /\ WatchedExists
      /\ faults = 0 => Known(cmd[r])
      /\ Undisturbed => Agreed(cmd[r])
  BY Current
<1>1. ASSUME NEW c \in Cluster, Requorum(r, c)
      PROVE  OperatorInv'
  <2>1. PICK l : l = [cmd[r] EXCEPT !.pc = "set_quorum", !.cluster = c,
                                    !.clusters = @ \ {c}, !.ports = cmd[r].list]
    OBVIOUS
  <2>2. /\ UNCHANGED <<sentinel, watches, exists, file, faults, interrupted>>
        /\ cmd[r].pc = "requorum" /\ Goto(r, l)
    BY <1>1, <2>1 DEF Requorum, At
  <2>3. /\ l.pc = "set_quorum" /\ l.cluster = c /\ l.ports = cmd[r].list
        /\ l.list = cmd[r].list /\ l.new = cmd[r].new /\ l.last = cmd[r].last
        /\ l.trigger = cmd[r].trigger
    BY <1>0, <2>1 DEF Command
  <2>4. Shape(l) /\ l.new = {}
    BY <1>0, <2>2, <2>3 DEF Shape
  <2>5. faults = 0 => Known(l)
    BY <1>0, <2>3 DEF Known
  <2>6. ASSUME Undisturbed
        PROVE  Agreed(l)
    <3>1. \A d \in Cluster : Agree(d) /\ Need(Port \ l.list, d, 0)
      BY <1>0, <2>2, <2>3, <2>6 DEF Agreed, Attends, Removing
    <3>2. Need(Port \ l.ports, l.cluster, Quorum(l))
      BY <2>3, <3>1 DEF Need
    <3> QED BY <2>3, <2>4, <3>1, <3>2 DEF Agreed, Attends, Adding, Removing, Saving
  <2> QED BY <2>2, <2>4, <2>5, <2>6, LocalStep DEF Undisturbed
<1>2. CASE RequorumDone(r) /\ ~cmd[r].last
  BY <1>2, EndStep DEF RequorumDone, At
<1>3. CASE RequorumDone(r) /\ cmd[r].last
  <2>1. PICK l : l = Advancing(cmd[r], "RemoveV6Sentinels")
    OBVIOUS
  <2>2. /\ UNCHANGED <<sentinel, watches, exists, file, faults, interrupted>>
        /\ cmd[r].pc = "requorum" /\ Goto(r, l)
    BY <1>3, <2>1 DEF RequorumDone, At
  <2>3. l.pc = "advance" /\ l.trigger = "RemoveV6Sentinels"
    BY <2>1 DEF Advancing, Idle
  <2>4. Shape(l)
    BY <2>3 DEF Shape
  <2>5. faults = 0 => Known(l)
    BY <1>0, <1>3, <2>3 DEF Known
  <2>6. Undisturbed => Agreed(l)
    BY <1>0, <2>2, <2>3 DEF Agreed, Attends, Adding, Removing, Saving
  <2> QED BY <2>2, <2>4, <2>5, <2>6, LocalStep DEF Undisturbed
<1> QED BY <1>1, <1>2, <1>3

----------------------------------------------------------------------------
(* cluster create, cluster rm and the commands of module Upgrade *)

LEMMA CreateOperator ==
  ASSUME OneOperator, TypeOK, OperatorInv, NEW r \in Proc,
         \/ \E c \in Cluster, v \in {6, 8} : CreateCluster(r, c, v)
         \/ CreateList(r) \/ CreateMonitor(r) \/ CreateSave(r)
  PROVE  OperatorInv'
<1>0. /\ cmd[r] \in Command /\ Shape(cmd[r]) /\ Silent /\ WatchedExists
      /\ faults = 0 => Known(cmd[r])
      /\ Undisturbed => Agreed(cmd[r])
  BY Current
<1>1. ASSUME NEW c \in Cluster, NEW v \in {6, 8}, CreateCluster(r, c, v)
      PROVE  OperatorInv'
  <2>1. PICK l : l = [Idle EXCEPT !.pc = "create_list", !.cluster = c, !.version = v,
                                  !.save = IF v = 6 THEN InitialStage ELSE "Done"]
    OBVIOUS
  <2>2. /\ UNCHANGED <<sentinel, watches, file, faults, interrupted>>
        /\ cmd[r].pc = "idle" /\ ~exists[c] /\ Goto(r, l)
        /\ exists' = [exists EXCEPT ![c] = TRUE]
    BY <1>1, <2>1 DEF CreateCluster, At
  <2>3. /\ l.pc = "create_list" /\ l.cluster = c /\ l.save \in {InitialStage, "Done"}
        /\ l.new = {} /\ l.trigger = "AddV8Sentinels" /\ ~l.last
    BY <2>1 DEF Idle
  <2>4. \A d \in Cluster : exists'[d] <=> (d = c \/ exists[d])
    BY <2>2 DEF TypeOK
  <2>5. Shape(l)
    BY <2>3 DEF Shape
  <2>6. Silent' /\ WatchedExists' /\ Known(l)'
    BY <1>0, <2>2, <2>3, <2>4 DEF Silent, WatchedExists, Known
  <2>7. ASSUME Undisturbed'
        PROVE  Agreed(l)'
    <3>1. \A d \in Cluster : Agree(d)'
      BY <1>0, <2>2, <2>7 DEF Undisturbed, Agreed, Attends, Agree
    <3>2. Need(Port, c, 0)'
      BY <1>0, <2>2, <2>7 DEF Undisturbed, WatchedExists, Need
    <3> QED BY <2>3, <3>1, <3>2 DEF Agreed, Attends, Adding, Removing, Saving
  <2> QED BY <2>2, <2>5, <2>6, <2>7, StepTo
<1>2. CASE CreateList(r)
  <2>1. PICK l : l = [cmd[r] EXCEPT !.pc = "create_monitor", !.list = Fleet, !.ports = Fleet]
    OBVIOUS
  <2>2. /\ UNCHANGED <<sentinel, watches, exists, file, faults, interrupted>>
        /\ cmd[r].pc = "create_list" /\ Goto(r, l)
    BY <1>2, <2>1 DEF CreateList, At
  <2>3. /\ l.pc = "create_monitor" /\ l.cluster = cmd[r].cluster /\ l.save = cmd[r].save
        /\ l.trigger = cmd[r].trigger /\ l.last = cmd[r].last
    BY <1>0, <2>1 DEF Command
  <2>4. Shape(l)
    BY <1>0, <2>2, <2>3 DEF Shape
  <2>5. faults = 0 => Known(l)
    BY <1>0, <2>2, <2>3 DEF Known
  <2>6. ASSUME Undisturbed
        PROVE  Agreed(l)
    <3>1. Need(Port, l.cluster, Quorum(l)) /\ \A d \in Cluster : Agree(d)
      BY <1>0, <2>2, <2>3, <2>6 DEF Agreed, Attends, Need
    <3> QED BY <2>3, <3>1 DEF Agreed, Adding, Removing, Saving
  <2> QED BY <2>2, <2>4, <2>5, <2>6, LocalStep DEF Undisturbed
<1>3. CASE CreateMonitor(r)
  <2>1. PICK s : s = Min(cmd[r].ports)
    OBVIOUS
  <2>2. PICK c : c = cmd[r].cluster
    OBVIOUS
  <2>3. PICK n : n = Quorum(cmd[r])
    OBVIOUS
  <2>4. PICK l : l = [cmd[r] EXCEPT !.ports = @ \ {s}]
    OBVIOUS
  <2>5. /\ UNCHANGED <<sentinel, exists, file, faults, interrupted>>
        /\ cmd[r].pc = "create_monitor" /\ Goto(r, l)
        /\ sentinel[s] # 0
        /\ watches' = [watches EXCEPT ![s][c] = n]
    BY <1>3, <2>1, <2>2, <2>3, <2>4 DEF CreateMonitor, MonitorOn, At, Quorum
  <2>6. /\ l.pc = "create_monitor" /\ l.cluster = c /\ l.save = cmd[r].save
        /\ l.trigger = cmd[r].trigger /\ l.last = cmd[r].last /\ l.list = cmd[r].list
    BY <1>0, <2>2, <2>4, <2>5 DEF Command
  <2>7. c \in Cluster
    BY <1>0, <2>2, <2>5 DEF Shape
  <2>8. \A x \in Port : \A d \in Cluster :
          watches'[x][d] = IF x = s /\ d = c THEN n ELSE watches[x][d]
    BY <2>5 DEF TypeOK
  <2>9. Shape(l)
    BY <1>0, <2>2, <2>5, <2>6 DEF Shape
  <2>10. Silent'
    BY <1>0, <2>5, <2>8 DEF Silent
  <2>11. WatchedExists'
    BY <1>0, <2>2, <2>5, <2>8 DEF WatchedExists, Known
  <2>12. faults' = 0 => Known(l)'
    BY <1>0, <2>2, <2>5, <2>6 DEF Known, NoV6Sentinel
  <2>13. ASSUME Undisturbed'
         PROVE  Agreed(l)'
    <3>1. Agreed(cmd[r])
      BY <1>0, <2>5, <2>13 DEF Undisturbed
    <3>2. Need(Port, c, n)'
      BY <2>2, <2>3, <2>5, <2>7, <2>8, <3>1 DEF Agreed, Need
    <3>3. Agree(c)'
      BY <3>2 DEF Need, Agree
    <3>4. \A d \in Cluster \ {c} : Agree(d)'
      BY <2>5, <2>8, <3>1 DEF Agreed, Attends, Agree
    <3>5. Quorum(l)' = n
      BY <2>3, <2>6 DEF Quorum
    <3> QED BY <2>6, <3>2, <3>3, <3>4, <3>5 DEF Agreed, Adding, Removing, Saving
  <2> QED BY <2>5, <2>9, <2>10, <2>11, <2>12, <2>13, StepTo
<1>4. CASE CreateSave(r)
  <2>1. PICK l : l = [Idle EXCEPT !.pc = "truncate", !.cluster = cmd[r].cluster,
                                  !.save = cmd[r].save]
    OBVIOUS
  <2>2. /\ UNCHANGED <<sentinel, watches, exists, file, faults, interrupted>>
        /\ cmd[r].pc = "create_monitor" /\ Goto(r, l)
    BY <1>4, <2>1 DEF CreateSave, At
  <2>3. /\ l.pc = "truncate" /\ l.cluster = cmd[r].cluster /\ l.save = cmd[r].save
        /\ l.clusters = {} /\ l.trigger = "AddV8Sentinels" /\ ~l.last
    BY <2>1 DEF Idle
  <2>4. l.save \in {InitialStage, "Done"}
    BY <1>0, <2>2, <2>3 DEF Shape
  <2>5. Shape(l) /\ Known(l)
    BY <2>3, <2>4 DEF Shape, Known, InitialStage
  <2>6. Undisturbed => Agreed(l)
    BY <1>0, <2>2, <2>3, <2>4
    DEF Agreed, Attends, Adding, Removing, Saving, InitialStage
  <2> QED BY <2>2, <2>5, <2>6, LocalStep DEF Undisturbed
<1> QED BY <1>1, <1>2, <1>3, <1>4

LEMMA RmClusterOperator ==
  ASSUME OneOperator, TypeOK, OperatorInv, NEW r \in Proc,
         \/ \E c \in Cluster : RmCluster(r, c)
         \/ Unwatch(r) \/ RmContainers(r) \/ RmFile(r)
  PROVE  OperatorInv'
<1>0. /\ cmd[r] \in Command /\ Shape(cmd[r]) /\ Silent /\ WatchedExists
      /\ faults = 0 => Known(cmd[r])
      /\ Undisturbed => Agreed(cmd[r])
  BY Current
<1>1. ASSUME NEW c \in Cluster, RmCluster(r, c)
      PROVE  OperatorInv'
  <2>1. PICK lost \in BOOLEAN :
          /\ Call(lost)
          /\ Goto(r, [Idle EXCEPT !.pc = "unwatch", !.cluster = c,
                                  !.ports = IF lost THEN {} ELSE Fleet])
    BY <1>1 DEF RmCluster
  <2>2. /\ faults' = 0 => faults = 0 /\ ~lost
        /\ UNCHANGED <<sentinel, watches, exists, file, interrupted>>
        /\ cmd[r].pc = "idle"
    BY <1>1, <2>1, CallAnswered DEF RmCluster, At
  <2>3. PICK l : l = [Idle EXCEPT !.pc = "unwatch", !.cluster = c,
                                  !.ports = IF lost THEN {} ELSE Fleet]
    OBVIOUS
  <2>4. /\ l.pc = "unwatch" /\ l.cluster = c /\ l.ports = IF lost THEN {} ELSE Fleet
        /\ l.new = {} /\ l.trigger = "AddV8Sentinels" /\ ~l.last
    BY <2>3 DEF Idle
  <2>5. Shape(l)
    BY <2>4 DEF Shape
  <2>6. faults' = 0 => Known(l)
    BY <1>0, <2>2, <2>4 DEF Known, Silent, Fleet
  <2>7. Undisturbed' => Agreed(l)
    BY <1>0, <2>2, <2>4 DEF Undisturbed, Agreed, Attends, Adding, Removing, Saving
  <2> QED BY <2>1, <2>2, <2>3, <2>5, <2>6, <2>7, LocalStep
<1>2. CASE Unwatch(r)
  <2>1. PICK s : s = Min(cmd[r].ports)
    OBVIOUS
  <2>2. PICK c : c = cmd[r].cluster
    OBVIOUS
  <2>3. PICK lost \in BOOLEAN :
          /\ Call(lost)
          /\ watches' = IF lost THEN watches ELSE [watches EXCEPT ![s][c] = 0]
    BY <1>2, <2>1, <2>2 DEF Unwatch
  <2>4. PICK l : l = [cmd[r] EXCEPT !.ports = @ \ {s}]
    OBVIOUS
  <2>5. /\ faults' = 0 => faults = 0 /\ ~lost
        /\ UNCHANGED <<sentinel, exists, file, interrupted>>
        /\ cmd[r].pc = "unwatch" /\ Goto(r, l)
    BY <1>2, <2>1, <2>3, <2>4, CallAnswered DEF Unwatch, At
  <2>6. /\ l.pc = "unwatch" /\ l.cluster = c /\ l.ports = cmd[r].ports \ {s}
        /\ l.last = cmd[r].last /\ l.trigger = cmd[r].trigger
    BY <1>0, <2>2, <2>4, <2>5 DEF Command
  <2>7. c \in Cluster
    BY <1>0, <2>2, <2>5 DEF Shape
  <2>8. \A x \in Port : \A d \in Cluster : watches'[x][d] \in {0, watches[x][d]}
    BY <2>3 DEF TypeOK
  <2>9. ~lost /\ s \in Port => watches'[s][c] = 0
    BY <2>3, <2>7 DEF TypeOK
  <2>10. Shape(l)
    BY <1>0, <2>2, <2>5, <2>6 DEF Shape
  <2>11. Silent' /\ WatchedExists'
    BY <1>0, <2>5, <2>8, NoNewWatch
  <2>12. ASSUME faults' = 0
         PROVE  Known(l)'
    <3>1. \A x \in Port \ l.ports : watches'[x][c] = 0
      BY <1>0, <2>2, <2>5, <2>6, <2>7, <2>8, <2>9, <2>12 DEF Known
    <3>2. l.last \/ l.trigger = "RemoveV6Sentinels" => NoV6Sentinel'
      BY <1>0, <2>5, <2>6, <2>12 DEF Known, NoV6Sentinel
    <3> QED BY <2>6, <3>1, <3>2 DEF Known
  <2>13. ASSUME Undisturbed'
         PROVE  Agreed(l)'
    <3>1. \A d \in Cluster : Agree(d)
      BY <1>0, <2>5, <2>13 DEF Undisturbed, Agreed, Attends
    <3>2. \A d \in Cluster : Agree(d)'
      BY <2>8, <3>1 DEF Agree
    <3> QED BY <2>6, <3>2 DEF Agreed, Adding, Removing, Saving
  <2> QED BY <2>5, <2>10, <2>11, <2>12, <2>13, StepTo
<1>3. CASE RmContainers(r)
  <2>1. PICK lost \in BOOLEAN :
          Call(lost) /\ exists' = [exists EXCEPT ![cmd[r].cluster] = lost]
    BY <1>3 DEF RmContainers
  <2>2. PICK l : l = [cmd[r] EXCEPT !.pc = "rm_file"]
    OBVIOUS
  <2>3. /\ faults' = 0 => faults = 0 /\ ~lost
        /\ UNCHANGED <<sentinel, watches, file, interrupted>>
        /\ cmd[r].pc = "unwatch" /\ cmd[r].ports = {} /\ Goto(r, l)
    BY <1>3, <2>1, <2>2, CallAnswered DEF RmContainers, At
  <2>4. l.pc = "rm_file" /\ l.last = cmd[r].last /\ l.trigger = cmd[r].trigger
    BY <1>0, <2>2 DEF Command
  <2>5. Shape(l)
    BY <1>0, <2>4 DEF Shape
  <2>6. Silent'
    BY <1>0, <2>3 DEF Silent
  <2>7. ASSUME faults' = 0
        PROVE  /\ \A p \in Port : \A d \in Cluster : watches'[p][d] # 0 => exists'[d]
               /\ Known(l)'
    <3>1. \A p \in Port : watches[p][cmd[r].cluster] = 0
      BY <1>0, <2>3, <2>7 DEF Known
    <3>2. \A d \in Cluster : d # cmd[r].cluster => (exists'[d] <=> exists[d])
      BY <2>1 DEF TypeOK
    <3>3. \A p \in Port : \A d \in Cluster : watches'[p][d] # 0 => exists'[d]
      BY <1>0, <2>3, <2>7, <3>1, <3>2 DEF WatchedExists
    <3> QED BY <1>0, <2>3, <2>4, <2>7, <3>3 DEF Known, NoV6Sentinel
  <2>8. WatchedExists'
    BY <2>7 DEF WatchedExists
  <2>9. Undisturbed' => Agreed(l)'
    BY <1>0, <2>3, <2>4 DEF Undisturbed, Agreed, Attends, Agree, Adding, Removing, Saving
  <2> QED BY <2>3, <2>5, <2>6, <2>7, <2>8, <2>9, StepTo
<1>4. CASE RmFile(r)
  <2>1. /\ faults' = 0 => faults = 0
        /\ UNCHANGED <<sentinel, watches, exists, interrupted>>
        /\ cmd[r].pc = "rm_file" /\ Goto(r, Idle)
    BY <1>4, CallAnswered DEF RmFile, At
  <2>2. PICK l : l = Idle
    OBVIOUS
  <2>3. /\ l.pc = "idle" /\ Shape(l) /\ ~l.last /\ l.trigger = "AddV8Sentinels"
        /\ Goto(r, l)
    BY <2>1, <2>2, IdleFits DEF Idle
  <2>4. Silent' /\ WatchedExists' /\ Known(l)'
    BY <1>0, <2>1, <2>3 DEF Silent, WatchedExists, Known
  <2>5. Undisturbed' => Agreed(l)'
    BY <1>0, <2>1, <2>3 DEF Undisturbed, Agreed, Attends, Agree, Adding, Removing, Saving
  <2> QED BY <2>3, <2>4, <2>5, StepTo
<1> QED BY <1>1, <1>2, <1>3, <1>4

LEMMA CommandOperator ==
  ASSUME OneOperator, TypeOK, OperatorInv, NEW r \in Proc, NEW c \in Cluster,
         NEW t \in Trigger, ClusterCommand(r, c, t)
  PROVE  OperatorInv'
<1>0. /\ cmd[r] \in Command /\ Shape(cmd[r]) /\ Silent /\ WatchedExists
      /\ faults = 0 => Known(cmd[r])
      /\ Undisturbed => Agreed(cmd[r])
  BY Current
<1>1. PICK l : l = cmd[r]
  OBVIOUS
<1>2. /\ UNCHANGED <<sentinel, watches, exists, cmd, faults, interrupted>>
      /\ l.pc = "idle"
  BY <1>1 DEF ClusterCommand, At
<1>3. Goto(r, l)
  BY <1>1, <1>2 DEF Goto, TypeOK
<1>4. Silent' /\ WatchedExists'
  BY <1>0, <1>2 DEF Silent, WatchedExists
<1>5. faults' = 0 => Known(l)'
  BY <1>0, <1>1, <1>2 DEF Known, NoV6Sentinel
<1>6. Undisturbed' => Agreed(l)'
  BY <1>0, <1>1, <1>2 DEF Undisturbed, Agreed, Attends, Agree, Adding, Removing, Saving
<1> QED BY <1>0, <1>1, <1>3, <1>4, <1>5, <1>6, StepTo

----------------------------------------------------------------------------
(* The invariant *)

LEMMA AbortOperator ==
  ASSUME OneOperator, TypeOK, OperatorInv, NEW r \in Proc, Abort(r)
  PROVE  OperatorInv'
<1>1. /\ Goto(r, Idle) /\ interrupted' = TRUE
      /\ UNCHANGED <<sentinel, watches, exists, file, faults>>
  BY DEF Abort
<1> QED BY <1>1, EndStep DEF Undisturbed

LEMMA StillOperator ==
  ASSUME OperatorInv, UNCHANGED vars
  PROVE  OperatorInv'
BY DEF OperatorInv, vars, Silent, WatchedExists, Shape, Known, NoV6Sentinel, Undisturbed,
       Agreed, Agree, Need, Attends, Adding, Removing, Saving, Quorum, Registered, Fleet

LEMMA InitOperator ==
  ASSUME Init
  PROVE  OperatorInv
<1>1. Silent /\ WatchedExists /\ \A c \in Cluster : Agree(c)
  BY DEF Init, Silent, WatchedExists, Agree, Unwatching
<1>2. \A r \in Proc : cmd[r] = Idle
  BY DEF Init
<1> QED BY <1>1, <1>2, IdleFits DEF OperatorInv

LEMMA NextOperator ==
  ASSUME OneOperator, TypeOK, OperatorInv, Next
  PROVE  OperatorInv'
<1>1. PICK r \in Proc : \/ Step(r)
                        \/ \E c \in Cluster : ClusterStep(r, c)
                        \/ \E p \in Port : PortStep(r, p)
  BY DEF Next
<1>2. CASE Step(r)
  BY <1>2, AdvanceOperator, AddOperator, RegisterOperator, SetQuorumOperator, RmOperator,
     RequorumOperator, CreateOperator, RmClusterOperator, AbortOperator
  DEF Step
<1>3. ASSUME NEW c \in Cluster, ClusterStep(r, c)
      PROVE  OperatorInv'
  BY <1>3, AdvanceOperator, RegisterOperator, RmOperator, RequorumOperator,
     CreateOperator, RmClusterOperator, CommandOperator
  DEF ClusterStep
<1>4. ASSUME NEW p \in Port, PortStep(r, p)
      PROVE  OperatorInv'
  BY <1>4, AddOperator, RmOperator DEF PortStep
<1> QED BY <1>1, <1>2, <1>3, <1>4

\* Through every command and every interruption of one, only running sentinels
\* monitor, the locals of a command fit where it is, and as long as no call has
\* failed the command knows what it relies on (runSentinelBootstrap,
\* runSentinelRm, runClusterCreate, runClusterRm).
THEOREM OperatorInvariant ==
  ASSUME OneOperator
  PROVE  Spec => []OperatorInv
<1>1. Init => OperatorInv
  BY InitOperator
<1>2. TypeOK /\ OperatorInv /\ [Next]_vars => OperatorInv'
  BY NextOperator, StillOperator
<1> QED BY <1>1, <1>2, FleetTypeCorrect, PTL DEF Spec

----------------------------------------------------------------------------
(* What it promises *)

\* When no command runs and none failed or was cut short, the sentinels that
\* monitor a cluster hold the same quorum for it: sentinel add, sentinel rm and
\* cluster create set it on all of them or on none, whatever the fleet was
\* before (sentinel.go 225-238, 247-262).
THEOREM OneQuorum ==
  ASSUME OneOperator
  PROVE  Spec => []QuorumAgrees
<1>1. OperatorInv => QuorumAgrees
  <2> SUFFICES ASSUME OperatorInv, Undisturbed, \A r \in Proc : At(r, "idle"),
                      NEW c \in Cluster
               PROVE  Agree(c)
    BY DEF QuorumAgrees, Agree, Fleet
  <2>1. PICK r : Proc = {r}
    BY DEF OneOperator
  <2>2. r \in Proc
    BY <2>1
  <2>3. Agreed(cmd[r]) /\ cmd[r].pc = "idle"
    BY <2>2 DEF OperatorInv, At
  <2> QED BY <2>3 DEF Agreed, Attends
<1> QED BY <1>1, OperatorInvariant, PTL

\* No sentinel monitors a cluster that has no containers, when Docker and the
\* sentinels answer: cluster create starts them before it registers, and
\* cluster rm unregisters on the whole fleet before it removes them
\* (cluster.go 370-390), even if either is cut short.
THEOREM MonitoredExists ==
  ASSUME OneOperator
  PROVE  Spec => []WatchedExists
<1>1. OperatorInv => WatchedExists
  BY DEF OperatorInv
<1> QED BY <1>1, OperatorInvariant, PTL

\* The save of V8SentinelsAdded comes after the new sentinels have been told of
\* the cluster and the quorum has been raised on the prior ones
\* (README.md 286-288): what the loop of sentinel add did for a cluster holds
\* until the loop that saves its stage gets to it.
THEOREM AddedMeansRegistered ==
  ASSUME OneOperator
  PROVE  Spec => RegisteredWhenAdded
<1>1. OperatorInv =>
        \A r \in Proc : LET c == cmd[r].cluster IN
          /\ Undisturbed /\ Write(r) /\ cmd[r].save = "V8SentinelsAdded"
          /\ \E s \in cmd[r].prior : watches[s][c] # 0
          => /\ \A s \in cmd[r].new : watches[s][c] # 0
             /\ \A s \in Fleet : watches[s][c] \in {0, Majority(Cardinality(Fleet))}
  <2> SUFFICES ASSUME OperatorInv, NEW r \in Proc, Undisturbed, Write(r),
                      cmd[r].save = "V8SentinelsAdded"
               PROVE  Registered(cmd[r], cmd[r].cluster)
    BY DEF Registered, Need
  <2>1. Agreed(cmd[r]) /\ cmd[r].pc = "write"
    BY DEF OperatorInv, Write, At
  <2> QED BY <2>1 DEF Agreed
<1>2. []OperatorInv => RegisteredWhenAdded
  BY <1>1, PTL DEF RegisteredWhenAdded
<1> QED BY <1>2, OperatorInvariant, PTL

\* When sentinel rm records Done, the last v6 sentinel is gone: the listing that
\* found none still holds at the save (sentinel.go 404-416).
THEOREM DoneMeansNoV6 ==
  ASSUME OneOperator
  PROVE  Spec => NoV6SentinelWhenDone
<1>1. OperatorInv =>
        \A r \in Proc :
          faults = 0 /\ Write(r) /\ cmd[r].trigger = "RemoveV6Sentinels" =>
            \A p \in Fleet : sentinel[p] # 6
  BY DEF OperatorInv, Known, NoV6Sentinel, Fleet
<1>2. []OperatorInv => NoV6SentinelWhenDone
  BY <1>1, PTL DEF NoV6SentinelWhenDone
<1> QED BY <1>2, OperatorInvariant, PTL
=============================================================================
