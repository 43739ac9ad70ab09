--------------------------- MODULE ContainersProofs ---------------------------
(***************************************************************************)
(* Theorems about Containers, for every set of clusters, ports, processes  *)
(* and commands and any number of faults.                                  *)
(***************************************************************************)
EXTENDS Containers, FiniteSetTheorems, WellFoundedInduction, TLAPS

Fields == {"cmd", "todo", "step", "volume", "name", "clean", "alone", "steady",
           "seen", "claims"}

\* The volume of an instance is named after it.
OwnVolume(n, v) == v # NoVolume => /\ n = Redis(n.cluster, n.port)
                                   /\ v = RedisDataVolumeName(n.cluster, n.port)

\* A container labelled master is an instance of a cluster.
MasterName(n, role) == role = "master" => n.kind = "redis" /\ n.cluster \in Cluster

TaskShape(t) ==
  /\ "do" \in DOMAIN t
  /\ t.do = "start" => /\ t.name.port \in Nat
                       /\ OwnVolume(t.name, t.volume)
                       /\ MasterName(t.name, t.role)
  /\ t.do \in {"cluster create", "allocate"} => t.cluster \in Cluster /\ t.count \in Nat \ {0}
  /\ t.do = "allocate" => /\ t.ports \in Seq(Nat \ {0})
                          /\ \A i, j \in 1..Len(t.ports) : i < j => t.ports[i] < t.ports[j]
  /\ t.do = "register" => \A s \in t.names : s.kind = "sentinel"
  /\ t.do \in {"ensure", "restart"} => t.name.port = 0 /\ t.name.kind # "master"

IsSeq(s) == \E S : s \in Seq(S)

CommandShape(p) ==
  /\ DOMAIN op[p] = Fields
  /\ IsSeq(op[p].todo)
  /\ op[p].cmd = Task("none") => op[p].todo = <<>>
  /\ \A i \in 1..Len(op[p].todo) : TaskShape(op[p].todo[i])

ContainerShape(n) ==
  /\ DOMAIN ct[n] = {"role", "running", "volume", "maker"}
  /\ n.port \in Nat
  /\ OwnVolume(n, ct[n].volume)
  /\ MasterName(n, ct[n].role)

Shapes ==
  /\ DOMAIN op = Proc
  /\ \A p \in Proc : CommandShape(p)
  /\ IsFiniteSet(DOMAIN ct)
  /\ \A n \in DOMAIN ct : ContainerShape(n)

-------------------------------------------------------------------------------
\* A command that has created a container and not yet started it: a container
\* of its own by that name is the one it made.
MadeByPlan ==
  \A p \in Proc :
    At(p, "start", "start") /\ Now(p).name \in DOMAIN ct /\ ct[Now(p).name].maker = p
    => ct[Now(p).name].volume = Now(p).volume

\* A volume that was written to is some container's, or its removal is going
\* on or has failed.
UsedKept ==
  \A v \in used : v # NoVolume /\ (InUse(ct, v) \/ Removing(v) \/ v \in leaked)

VolumesInv == NoVolume \notin vols /\ VolumesOwned /\ MadeByPlan /\ UsedKept

-------------------------------------------------------------------------------
\* What a container holds that no other may hold: a port, and the role of
\* master of a cluster.  What a task has claimed for a container to come.
Held(n, role) == ({n.port} \ {0}) \cup (IF role = "master" THEN {n.cluster} ELSE {})

Holds(t) == IF t.do = "start" THEN Held(t.name, t.role)
            ELSE IF t.do = "allocate" THEN {t.cluster} \cup {t.ports[i] : i \in 1..Len(t.ports)}
            ELSE {}

\* The tasks that claim something, or lead to one that does.
Claimers == {"cluster create", "allocate", "instance add", "sentinel add", "start sentinel"}

\* Nothing claimed waits behind a task that claims.
Ordered(s) == \A i, j \in 1..Len(s) : i < j /\ s[i].do \in Claimers => Holds(s[j]) = {}
Apart(s)   == \A i, j \in 1..Len(s) : i # j => Holds(s[i]) \cap Holds(s[j]) = {}

ClaimsKept ==
  \A p \in Proc :
    /\ Ordered(op[p].todo) /\ Apart(op[p].todo)
    /\ \A i \in 1..Len(op[p].todo) : Holds(op[p].todo[i]) \subseteq op[p].claims
    /\ \A q \in Proc \ {p} : op[p].claims \cap op[q].claims \subseteq raced

\* No container has what a task has claimed, but the one the task has created.
ClaimsFree ==
  \A p \in Proc : \A i \in 1..Len(op[p].todo), n \in DOMAIN ct :
    \/ Holds(op[p].todo[i]) \cap Held(n, ct[n].role) \subseteq raced
    \/ i = 1 /\ At(p, "start", "start") /\ n = Now(p).name

HeldOnce ==
  \A n, m \in DOMAIN ct : n # m => Held(n, ct[n].role) \cap Held(m, ct[m].role) \subseteq raced

-------------------------------------------------------------------------------
(* Sequences of tasks. *)

LEMMA NoTasks ==
  ASSUME NEW t, t = <<>>
  PROVE  IsSeq(t) /\ Len(t) = 0
<1>1. t \in Seq({})
  OBVIOUS
<1>2. IsSeq(t)
  BY <1>1 DEF IsSeq
<1>3. Len(t) = 0
  OBVIOUS
<1>4. QED
  BY <1>2, <1>3

LEMMA SeqFacts ==
  ASSUME NEW s, IsSeq(s)
  PROVE  /\ Len(s) \in Nat /\ DOMAIN s = 1..Len(s)
         /\ s # <<>> => Len(s) > 0 /\ Head(s) = s[1]
BY DEF IsSeq

\* The head of s is replaced by the tasks of T.
LEMMA Replace ==
  ASSUME NEW s, IsSeq(s), s # <<>>, NEW T, IsSeq(T)
  PROVE  LET u == T \o Tail(s)
         IN /\ IsSeq(u)
            /\ Len(u) = Len(T) + Len(s) - 1
            /\ \A i \in 1..Len(u) :
                  u[i] = IF i <= Len(T) THEN T[i] ELSE s[i - Len(T) + 1]
<1>1. PICK A : s \in Seq(A)  BY DEF IsSeq
<1>2. PICK B : T \in Seq(B)  BY DEF IsSeq
<1>3. s \in Seq(A \cup B) /\ T \in Seq(A \cup B)  BY <1>1, <1>2
<1>4. /\ Tail(s) \in Seq(A \cup B) /\ Len(Tail(s)) = Len(s) - 1 /\ Len(s) \in Nat \ {0}
      /\ \A i \in 1..Len(Tail(s)) : Tail(s)[i] = s[i + 1]
  BY <1>3
<1>5. T \o Tail(s) \in Seq(A \cup B) /\ Len(T \o Tail(s)) = Len(T) + Len(s) - 1
  BY <1>3, <1>4
<1>6. ASSUME NEW i \in 1..Len(T \o Tail(s))
      PROVE  (T \o Tail(s))[i] = IF i <= Len(T) THEN T[i] ELSE s[i - Len(T) + 1]
  BY <1>3, <1>4, <1>5
<1>. QED  BY <1>5, <1>6 DEF IsSeq

LEMMA OneTask == ASSUME NEW a PROVE IsSeq(<<a>>) /\ Len(<<a>>) = 1 /\ <<a>>[1] = a
<1>1. <<a>> \in Seq({a})  OBVIOUS
<1>. QED  BY <1>1 DEF IsSeq

LEMMA TwoTasks ==
  ASSUME NEW a, NEW b
  PROVE  IsSeq(<<a, b>>) /\ Len(<<a, b>>) = 2 /\ <<a, b>>[1] = a /\ <<a, b>>[2] = b
<1>1. <<a, b>> \in Seq({a, b})  OBVIOUS
<1>. QED  BY <1>1 DEF IsSeq

LEMMA ThreeTasks ==
  ASSUME NEW a, NEW b, NEW c
  PROVE  LET s == <<a, b, c>>
         IN IsSeq(s) /\ Len(s) = 3 /\ s[1] = a /\ s[2] = b /\ s[3] = c
<1>1. <<a, b, c>> \in Seq({a, b, c})  OBVIOUS
<1>. QED  BY <1>1 DEF IsSeq

LEMMA FunctionSeq ==
  ASSUME NEW n \in Nat, NEW f, DOMAIN f = 1..n, f = [i \in 1..n |-> f[i]]
  PROVE  IsSeq(f) /\ Len(f) = n
<1>. DEFINE S == {f[i] : i \in 1..n}
<1>1. f \in [1..n -> S]  OBVIOUS
<1>. HIDE DEF S
<1>2. f \in Seq(S) /\ Len(f) = n  BY <1>1
<1>. QED  BY <1>2 DEF IsSeq

LEMMA Joined ==
  ASSUME NEW s, IsSeq(s), NEW T, IsSeq(T)
  PROVE  LET u == s \o T
         IN /\ IsSeq(u)
            /\ Len(u) = Len(s) + Len(T)
            /\ \A i \in 1..Len(u) : u[i] = IF i <= Len(s) THEN s[i] ELSE T[i - Len(s)]
<1>1. PICK A : s \in Seq(A)  BY DEF IsSeq
<1>2. PICK B : T \in Seq(B)  BY DEF IsSeq
<1>3. s \in Seq(A \cup B) /\ T \in Seq(A \cup B)  BY <1>1, <1>2
<1>. QED  BY <1>3 DEF IsSeq

LEMMA OrderOfSet ==
  ASSUME NEW S, IsFiniteSet(S)
  PROVE  /\ Cardinality(S) \in Nat
         /\ SetToSeq(S) \in [1..Cardinality(S) -> S]
<1>1. Cardinality(S) \in Nat /\ ExistsBijection(1..Cardinality(S), S)
  BY FS_CardinalityType
<1>2. \E f \in [1..Cardinality(S) -> S] : IsInjective(f)
  BY <1>1 DEF ExistsBijection, Bijection, Injection
<1>. QED  BY <1>1, <1>2 DEF SetToSeq

-------------------------------------------------------------------------------
(* What a step does to the commands. *)

\* Process p goes on with tasks s at step st; the others keep what they have.
Untouched(q) ==
  /\ DOMAIN op'[q] = Fields
  /\ op'[q].cmd = op[q].cmd
  /\ op'[q].todo = op[q].todo
  /\ op'[q].step = op[q].step
  /\ op'[q].volume = op[q].volume
  /\ op'[q].claims = op[q].claims

Moves(p, s, st, v, claims) ==
  /\ DOMAIN op' = Proc
  /\ \A q \in Proc \ {p} : Untouched(q)
  /\ DOMAIN op'[p] = Fields
  /\ op'[p].cmd = op[p].cmd
  /\ op'[p].todo = s
  /\ op'[p].step = st
  /\ op'[p].volume = v
  /\ op'[p].claims = claims

GoesOn(p, T) == Moves(p, T \o Tail(op[p].todo), "begin", NoVolume, op[p].claims)

LEMMA StepMoves ==
  ASSUME Shapes, NEW p \in Proc, NEW st, op' = Step(p, st)
  PROVE  Moves(p, op[p].todo, st, op[p].volume, op[p].claims)
BY DEF Shapes, CommandShape, Fields, Step, Untouched, Moves

LEMMA ThenMoves ==
  ASSUME Shapes, NEW p \in Proc, NEW T, op' = Then(p, T)
  PROVE  GoesOn(p, T)
BY DEF Shapes, CommandShape, Fields, Then, Untouched, Moves, GoesOn

LEMMA GoOnMoves ==
  ASSUME Shapes, NEW p \in Proc, NEW T, op' = [Then(p, T) EXCEPT ![p].clean = FALSE]
  PROVE  GoesOn(p, T)
BY DEF Shapes, CommandShape, Fields, Then, Untouched, Moves, GoesOn

LEMMA SeenMoves ==
  ASSUME Shapes, NEW p \in Proc, NEW T, NEW S, op' = [Then(p, T) EXCEPT ![p].seen = S]
  PROVE  GoesOn(p, T)
BY DEF Shapes, CommandShape, Fields, Then, Untouched, Moves, GoesOn

LEMMA ClaimMoves ==
  ASSUME Shapes, NEW p \in Proc, NEW T, NEW C, op' = [Then(p, T) EXCEPT ![p].claims = @ \cup C]
  PROVE  Moves(p, T \o Tail(op[p].todo), "begin", NoVolume, op[p].claims \cup C)
BY DEF Shapes, CommandShape, Fields, Then, Untouched, Moves

LEMMA InspectMoves ==
  ASSUME Shapes, NEW p \in Proc, NEW n, NEW v,
         \/ op' = [op EXCEPT ![p].step = "stop", ![p].name = n, ![p].volume = v]
         \/ op' = [op EXCEPT ![p].step = "stop", ![p].name = n, ![p].volume = v, ![p].clean = FALSE]
  PROVE  Moves(p, op[p].todo, "stop", v, op[p].claims)
BY DEF Shapes, CommandShape, Fields, Untouched, Moves

Dies(p) == /\ DOMAIN op' = Proc
           /\ \A q \in Proc \ {p} : Untouched(q)
           /\ op'[p] = Idle

LEMMA DieMoves ==
  ASSUME Shapes, NEW p \in Proc, op' = Die(p)
  PROVE  Dies(p)
BY DEF Shapes, CommandShape, Die, Untouched, Dies

LEMMA RemovedIsThen ==
  ASSUME NEW p \in Proc
  PROVE  \/ Removed(p) = Then(p, <<>>)
         \/ Removed(p) = Then(p, <<[Now(p) EXCEPT !.names = @ \ {op[p].name}]>>)
BY DEF Removed, NextTask, Then

-------------------------------------------------------------------------------
(* Tasks that claim nothing and hold nothing. *)

Quiet(t) == TaskShape(t) /\ Holds(t) = {} /\ t.do \notin Claimers

QuietTasks(T) == IsSeq(T) /\ \A i \in 1..Len(T) : Quiet(T[i])

\* What these tasks do never is to start or to claim.
LEMMA QuietTask ==
  ASSUME NEW t, "do" \in DOMAIN t,
         t.do \notin Claimers \cup {"start", "ensure", "restart", "register"}
  PROVE  Quiet(t)
BY DEF Quiet, TaskShape, Holds, Claimers

LEMMA QuietEnsure ==
  ASSUME NEW n, n.port = 0, n.kind # "master"
  PROVE  Quiet(Ensure(n)) /\ Quiet(Restart(n)) /\ Quiet(Start(n, n.kind, NoVolume))
BY DEF Quiet, TaskShape, Holds, Held, Claimers, Ensure, Restart, Start, OwnVolume, MasterName

LEMMA QuietRegister ==
  ASSUME NEW c, NEW x, NEW S, \A s \in S : s.kind = "sentinel"
  PROVE  Quiet(Register(c, x, S))
BY DEF Quiet, TaskShape, Holds, Claimers, Register

LEMMA NowShape ==
  ASSUME Shapes, NEW p \in Proc, Running(p)
  PROVE  /\ IsSeq(op[p].todo) /\ op[p].todo # <<>> /\ 1 \in 1..Len(op[p].todo)
         /\ Now(p) = op[p].todo[1]
         /\ TaskShape(Now(p))
         /\ op[p].cmd # Task("none")
BY SeqFacts DEF Shapes, CommandShape, Running, Now

LEMMA QuietNone == QuietTasks(<<>>)
BY NoTasks DEF QuietTasks

LEMMA QuietOne == ASSUME NEW t, Quiet(t) PROVE QuietTasks(<<t>>)
BY OneTask DEF QuietTasks

LEMMA QuietTwo == ASSUME NEW t, NEW u, Quiet(t), Quiet(u) PROVE QuietTasks(<<t, u>>)
BY TwoTasks DEF QuietTasks

LEMMA QuietThree ==
  ASSUME NEW t, NEW u, NEW v, Quiet(t), Quiet(u), Quiet(v)
  PROVE  QuietTasks(<<t, u, v>>)
BY ThreeTasks DEF QuietTasks

LEMMA QuietJoined ==
  ASSUME NEW T, NEW U, QuietTasks(T), QuietTasks(U)
  PROVE  QuietTasks(T \o U)
<1>1. /\ IsSeq(T \o U) /\ Len(T \o U) = Len(T) + Len(U) /\ Len(T) \in Nat /\ Len(U) \in Nat
      /\ \A i \in 1..Len(T \o U) : (T \o U)[i] = IF i <= Len(T) THEN T[i] ELSE U[i - Len(T)]
  BY Joined, SeqFacts DEF QuietTasks
<1>2. ASSUME NEW i \in 1..Len(T \o U) PROVE Quiet((T \o U)[i])
  <2>1. CASE i <= Len(T)
    BY <1>1, <2>1 DEF QuietTasks
  <2>2. CASE ~(i <= Len(T))
    <3>1. i - Len(T) \in 1..Len(U) /\ (T \o U)[i] = U[i - Len(T)]
      BY <1>1, <2>2
    <3>. QED  BY <3>1 DEF QuietTasks
  <2>. QED  BY <2>1, <2>2
<1>. QED  BY <1>1, <1>2 DEF QuietTasks

LEMMA RemovedQuiet ==
  ASSUME Shapes, NEW p \in Proc, Running(p), Now(p).do = "remove"
  PROVE  \E T : QuietTasks(T) /\ Removed(p) = Then(p, T)
<1>. DEFINE t == [Now(p) EXCEPT !.names = @ \ {op[p].name}]
<1>1. "do" \in DOMAIN t /\ t.do = "remove"
  BY NowShape DEF TaskShape
<1>2. QuietTasks(<<t>>)
  <2>. HIDE DEF t
  <2>. QED  BY <1>1, QuietTask, QuietOne DEF Claimers
<1>. QED  BY <1>2, QuietNone, RemovedIsThen

LEMMA FailsSteps ==
  ASSUME Shapes, NEW p \in Proc, Running(p), Fails(p)
  PROVE  \/ Abort(p)
         \/ At(p, "remove", "begin") /\ InspectFails(p)
         \/ \E T : QuietTasks(T) /\ GoOn(p, Then(p, T))
<1>. DEFINE Goal == \E T : QuietTasks(T) /\ GoOn(p, Then(p, T))
<1>1. CASE Now(p).do = "remove"
  BY <1>1, RemovedQuiet DEF Fails, At
<1>2. CASE Now(p).do \in {"ensure", "restart"}
  <2>1. GoOn(p, Then(p, <<Start(Now(p).name, Now(p).name.kind, NoVolume)>>))
    BY <1>2 DEF Fails
  <2>2. QuietTasks(<<Start(Now(p).name, Now(p).name.kind, NoVolume)>>)
    BY <1>2, NowShape, QuietEnsure, QuietOne DEF TaskShape
  <2>. QED  BY <2>1, <2>2
<1>3. CASE Now(p).do = "drop"
  <2>. DEFINE t == DropVolumes(Now(p).volumes \ {FirstVolume(Now(p).volumes)})
  <2>1. GoOn(p, Then(p, <<t>>))
    BY <1>3 DEF Fails
  <2>2. QuietTasks(<<t>>)
    BY QuietTask, QuietOne DEF DropVolumes, Claimers
  <2>. QED  BY <2>1, <2>2
<1>4. CASE Now(p).do = "forget"
  <2>. DEFINE t == Forget(Now(p).pairs \ {FirstPair(Now(p).pairs)})
  <2>1. GoOn(p, Then(p, <<t>>))
    BY <1>4 DEF Fails
  <2>2. QuietTasks(<<t>>)
    BY QuietTask, QuietOne DEF Forget, Claimers
  <2>. QED  BY <2>1, <2>2
<1>5. CASE Now(p).do \in {"unwatch", "save", "advance", "delete", "legacy", "sweep",
                           "drop network"}
  BY <1>5, QuietNone DEF Fails, NextTask
<1>6. CASE Now(p).do \notin {"remove", "ensure", "restart", "drop", "forget", "unwatch", "save",
                              "advance", "delete", "legacy", "sweep", "drop network"}
  BY <1>6 DEF Fails
<1>. QED  BY <1>1, <1>2, <1>3, <1>4, <1>5, <1>6

-------------------------------------------------------------------------------
(* The kinds of steps there are, as far as ports and masters are concerned. *)

\* Containers may go, or stop and start; none changes otherwise.
Keeps ==
  /\ raced' = raced
  /\ DOMAIN ct' \subseteq DOMAIN ct
  /\ \A n \in DOMAIN ct' : /\ DOMAIN ct'[n] = {"role", "running", "volume", "maker"}
                           /\ ct'[n].role = ct[n].role
                           /\ ct'[n].volume = ct[n].volume
                           /\ ct'[n].maker = ct[n].maker

\* A container exits; the command ends; goes on to its next tasks; is at its next
\* call.
Exits    == Keeps /\ DOMAIN op' = Proc /\ \A q \in Proc : Untouched(q)
Ends(p)  == Keeps /\ Dies(p)
Goes(p)  == Keeps /\ Running(p) /\ \E T : QuietTasks(T) /\ GoesOn(p, T)
Stays(p) == /\ Keeps /\ Running(p) /\ ~At(p, "start", "start")
            /\ \E st, v : /\ Moves(p, op[p].todo, st, v, op[p].claims)
                          /\ st # "start"

Creates(p) ==
  /\ At(p, "start", "create")
  /\ CanCreate(ct, Now(p).name)
  /\ ct' = With(ct, Now(p).name, Now(p).role, Now(p).volume, p)
  /\ Moves(p, op[p].todo, "start", op[p].volume, op[p].claims)
  /\ raced' = raced

\* Tasks that hold what is claimed, and what no container has.
ClaimTasks(p, T, C) ==
  /\ IsSeq(T) /\ Ordered(T) /\ Apart(T)
  /\ \A i \in 1..Len(T) :
       /\ TaskShape(T[i])
       /\ Holds(T[i]) \subseteq op[p].claims \cup C
       /\ \A n \in DOMAIN ct : Holds(T[i]) \cap Held(n, ct[n].role) \subseteq raced

Claims(p) ==
  /\ ct' = ct
  /\ Running(p) /\ Now(p).do \in Claimers
  /\ \E T, C : /\ ClaimTasks(p, T, C)
               /\ Moves(p, T \o Tail(op[p].todo), "begin", NoVolume, op[p].claims \cup C)
               /\ raced' = raced \cup (C \cap UNION {op[q].claims : q \in Proc \ {p}})

Begins(p) ==
  /\ ct' = ct /\ raced' = raced
  /\ op[p].cmd = Task("none")
  /\ DOMAIN op' = Proc /\ DOMAIN op'[p] = Fields
  /\ \A q \in Proc \ {p} : Untouched(q)
  /\ op'[p].cmd # Task("none") /\ op'[p].claims = {} /\ op'[p].step = "begin"
  /\ IsSeq(op'[p].todo)
  /\ \A i \in 1..Len(op'[p].todo) : TaskShape(op'[p].todo[i]) /\ Holds(op'[p].todo[i]) = {}

LEMMA HostKept ==
  ASSUME Shapes, UNCHANGED <<ct, raced>>
  PROVE  Keeps
BY DEF Shapes, ContainerShape, Keeps

LEMMA AbortEnds ==
  ASSUME Shapes, NEW p \in Proc, Abort(p)
  PROVE  Ends(p)
BY HostKept, DieMoves DEF Abort, Ends, host

LEMMA ThenGoes ==
  ASSUME Shapes, Keeps, NEW p \in Proc, Running(p), NEW T, QuietTasks(T),
         \/ op' = Then(p, T)
         \/ op' = [Then(p, T) EXCEPT ![p].clean = FALSE]
         \/ \E S : op' = [Then(p, T) EXCEPT ![p].seen = S]
  PROVE  Goes(p)
BY ThenMoves, GoOnMoves, SeenMoves DEF Goes

LEMMA FailsKind ==
  ASSUME Shapes, NEW p \in Proc, Running(p), Fails(p)
  PROVE  Ends(p) \/ Stays(p) \/ Goes(p)
<1>1. CASE Abort(p)
  BY <1>1, AbortEnds
<1>2. CASE At(p, "remove", "begin") /\ InspectFails(p)
  <2>1. Keeps
    BY <1>2, HostKept DEF InspectFails, host, hist
  <2>2. Moves(p, op[p].todo, "stop", NoVolume, op[p].claims)
    BY <1>2, InspectMoves DEF InspectFails
  <2>. QED  BY <1>2, <2>1, <2>2 DEF Stays, At
<1>3. CASE \E T : QuietTasks(T) /\ GoOn(p, Then(p, T))
  <2>1. Keeps
    BY <1>3, HostKept DEF GoOn, host
  <2>. QED  BY <1>3, <2>1, ThenGoes DEF GoOn
<1>. QED  BY <1>1, <1>2, <1>3, FailsSteps

LEMMA ProceedKind ==
  ASSUME Shapes, NEW p \in Proc, Running(p), NEW ok, NEW T, QuietTasks(T), Proceed(p, ok, T)
  PROVE  Ends(p) \/ Goes(p)
<1>1. CASE Abort(p)
  BY <1>1, AbortEnds
<1>2. CASE op' = Then(p, T) /\ UNCHANGED <<host, given, hist>>
  <2>1. Keeps
    BY <1>2, HostKept DEF host, hist
  <2>. QED  BY <1>2, <2>1, ThenGoes
<1>. QED  BY <1>1, <1>2 DEF Proceed

Kinds(p) == Ends(p) \/ Goes(p) \/ Stays(p) \/ Creates(p) \/ Claims(p) \/ Begins(p)

LEMMA NextGoes ==
  ASSUME Shapes, Keeps, NEW p \in Proc, Running(p), op' = NextTask(p)
  PROVE  Goes(p)
BY QuietNone, ThenGoes DEF NextTask

LEMMA RemovedGoes ==
  ASSUME Shapes, Keeps, NEW p \in Proc, Running(p), Now(p).do = "remove", op' = Removed(p)
  PROVE  Goes(p)
BY RemovedQuiet, ThenGoes

LEMMA StepStays ==
  ASSUME Shapes, Keeps, NEW p \in Proc, Running(p), ~At(p, "start", "start"),
         NEW st, st # "start", op' = Step(p, st)
  PROVE  Stays(p)
BY StepMoves DEF Stays

\* The containers after a removal, or after one is started or stopped.
LEMMA RunningKept ==
  ASSUME Shapes, UNCHANGED raced, NEW n \in DOMAIN ct, NEW b,
         ct' = [ct EXCEPT ![n].running = b]
  PROVE  Keeps
BY DEF Shapes, ContainerShape, Keeps

LEMMA WithoutKept ==
  ASSUME Shapes, UNCHANGED raced, NEW n, ct' = Without(ct, n)
  PROVE  Keeps
BY DEF Shapes, ContainerShape, Keeps, Without, Restrict

LEMMA CallKinds ==
  ASSUME Shapes, NEW p \in Proc, Call(p)
  PROVE  Kinds(p)
<1>1. CASE EnsureNetwork(p)
  BY <1>1, HostKept, NextGoes DEF EnsureNetwork, At, Kinds, hist
<1>2. CASE EnsureVolume(p)
  BY <1>2, HostKept, StepStays DEF EnsureVolume, At, Kinds, hist
<1>3. CASE CreateContainer(p)
  BY <1>3, FailsKind, StepMoves DEF CreateContainer, At, Kinds, Creates, hist
<1>4. CASE StartContainer(p)
  <2>1. CASE Fails(p)
    BY <1>4, <2>1, FailsKind DEF StartContainer, At, Kinds
  <2>2. CASE ~Fails(p)
    BY <1>4, <2>2, RunningKept, NextGoes DEF StartContainer, CanStart, At, Kinds
  <2>. QED  BY <2>1, <2>2
<1>5. CASE Inspect(p)
  <2>1. Keeps /\ Running(p) /\ ~At(p, "start", "start")
    BY <1>5, HostKept DEF Inspect, At, host, hist
  <2>2. CASE op' = NextTask(p)
    BY <2>1, <2>2, NextGoes DEF Kinds
  <2>3. CASE \E n, v : op' = [op EXCEPT ![p].step = "stop", ![p].name = n, ![p].volume = v]
    <3>1. PICK n, v : op' = [op EXCEPT ![p].step = "stop", ![p].name = n, ![p].volume = v]
      BY <2>3
    <3>2. Moves(p, op[p].todo, "stop", v, op[p].claims)
      BY <3>1, InspectMoves
    <3>. QED  BY <2>1, <3>2 DEF Kinds, Stays
  <2>. QED  BY <1>5, <2>2, <2>3 DEF Inspect
<1>6. CASE StopContainer(p)
  <2>1. CASE Fails(p)
    BY <1>6, <2>1, FailsKind DEF StopContainer, At, Kinds
  <2>2. CASE ~Fails(p)
    BY <1>6, <2>2, RunningKept, StepStays DEF StopContainer, At, Kinds, hist
  <2>. QED  BY <2>1, <2>2
<1>7. CASE RemoveContainer(p)
  <2>1. CASE Fails(p)
    BY <1>7, <2>1, FailsKind DEF RemoveContainer, At, Kinds
  <2>2. CASE ~Fails(p)
    <3>1. Keeps
      BY <1>7, <2>2, WithoutKept DEF RemoveContainer
    <3>. QED  BY <1>7, <2>2, <3>1, RemovedGoes, StepStays DEF RemoveContainer, At, Kinds
  <2>. QED  BY <2>1, <2>2
<1>8. CASE RemoveDataVolume(p)
  <2>1. CASE Fails(p)
    BY <1>8, <2>1, FailsKind DEF RemoveDataVolume, At, Kinds
  <2>2. CASE ~Fails(p)
    <3>1. Keeps
      BY <1>8, <2>2, HostKept DEF RemoveDataVolume, RemoveVolume
    <3>. QED  BY <1>8, <2>2, <3>1, RemovedGoes DEF RemoveDataVolume, RemoveVolume, At, Kinds
  <2>. QED  BY <2>1, <2>2
<1>9. CASE RegisterCluster(p)
  <2>1. CASE Fails(p)
    BY <1>9, <2>1, FailsKind DEF RegisterCluster, At, Kinds
  <2>2. CASE ~Fails(p) /\ op' = NextTask(p)
    BY <1>9, <2>2, HostKept, NextGoes DEF RegisterCluster, At, Kinds, host, hist
  <2>3. CASE ~Fails(p) /\ op' # NextTask(p)
    <3>1. PICK s \in Foremost(Now(p).names) :
            op' = Then(p, <<Register(Now(p).cluster, Now(p).port, Now(p).names \ {s})>>)
      BY <1>9, <2>3 DEF RegisterCluster
    <3>. DEFINE t == Register(Now(p).cluster, Now(p).port, Now(p).names \ {s})
    <3>2. Keeps /\ Running(p) /\ Now(p).do = "register"
      BY <1>9, <2>3, HostKept DEF RegisterCluster, At, host, hist
    <3>3. \A x \in Now(p).names \ {s} : x.kind = "sentinel"
      BY <3>2, NowShape DEF TaskShape
    <3>4. Quiet(t)
      BY <3>3, QuietRegister
    <3>. HIDE DEF t
    <3>. QED  BY <3>1, <3>2, <3>4, QuietOne, ThenGoes DEF Kinds, t
  <2>. QED  BY <2>1, <2>2, <2>3
<1>10. CASE SaveState(p) \/ DeleteState(p)
  BY <1>10, HostKept, NextGoes DEF SaveState, DeleteState, At, Kinds, hist
<1>15. CASE ForgetCluster(p)
  <2>1. CASE Fails(p)
    BY <1>15, <2>1, FailsKind DEF ForgetCluster, At, Kinds
  <2>2. CASE ~Fails(p)
    <3>. DEFINE t == Forget(Now(p).pairs \ {FirstPair(Now(p).pairs)})
    <3>1. Keeps /\ Running(p)
      BY <1>15, <2>2, HostKept DEF ForgetCluster, At, host, hist
    <3>2. Quiet(t)
      BY QuietTask DEF Forget, Claimers
    <3>3. op' = NextTask(p) \/ op' = Then(p, <<t>>)
      BY <1>15, <2>2 DEF ForgetCluster
    <3>. HIDE DEF t
    <3>. QED  BY <3>1, <3>2, <3>3, QuietOne, NextGoes, ThenGoes DEF Kinds
  <2>. QED  BY <2>1, <2>2
<1>16. CASE AdvanceState(p)
  <2>1. Keeps /\ Running(p)
    BY <1>16, HostKept DEF AdvanceState, At, host, hist
  <2>2. Quiet(Save(Now(p).cluster))
    BY QuietTask DEF Save, Claimers
  <2>3. op' = NextTask(p) \/ op' = Then(p, <<Save(Now(p).cluster)>>)
    BY <1>16 DEF AdvanceState
  <2>. QED  BY <2>1, <2>2, <2>3, QuietOne, NextGoes, ThenGoes DEF Kinds
<1>11. CASE EnsureContainer(p)
  <2>1. Keeps /\ Running(p)
    BY <1>11, HostKept DEF EnsureContainer, At, host, hist
  <2>2. QuietTasks(<<Start(Now(p).name, Now(p).name.kind, NoVolume)>>)
    BY <1>11, NowShape, QuietEnsure, QuietOne DEF EnsureContainer, At, TaskShape
  <2>. QED  BY <1>11, <2>1, <2>2, NextGoes, ThenGoes DEF EnsureContainer, Kinds
<1>12. CASE RestartContainer(p)
  <2>. DEFINE remove == StopAndRemove({Now(p).name} \cap ListContainers(ct), TRUE)
              start  == Start(Now(p).name, Now(p).name.kind, NoVolume)
  <2>1. Keeps /\ Running(p)
    BY <1>12, HostKept DEF RestartContainer, At, host, hist
  <2>2. Quiet(start)
    BY <1>12, NowShape, QuietEnsure DEF RestartContainer, At, TaskShape
  <2>3. Quiet(remove)
    BY QuietTask DEF StopAndRemove, Claimers
  <2>4. op' = Then(p, <<remove, start>>)
    BY <1>12 DEF RestartContainer
  <2>. HIDE DEF remove, start
  <2>. QED  BY <2>1, <2>2, <2>3, <2>4, QuietTwo, ThenGoes DEF Kinds
<1>13. CASE DropVolume(p)
  <2>1. CASE Fails(p)
    BY <1>13, <2>1, FailsKind DEF DropVolume, At, Kinds
  <2>2. CASE ~Fails(p)
    <3>. DEFINE t == DropVolumes(Now(p).volumes \ {FirstVolume(Now(p).volumes)})
    <3>1. Keeps /\ Running(p)
      BY <1>13, <2>2, HostKept DEF DropVolume, RemoveVolume, At, host, hist
    <3>2. Quiet(t)
      BY QuietTask DEF DropVolumes, Claimers
    <3>3. op' = NextTask(p) \/ op' = Then(p, <<t>>)
      BY <1>13, <2>2 DEF DropVolume, RemoveVolume
    <3>. HIDE DEF t
    <3>. QED  BY <3>1, <3>2, <3>3, QuietOne, NextGoes, ThenGoes DEF Kinds
  <2>. QED  BY <2>1, <2>2
<1>14. CASE RemoveNetwork(p)
  BY <1>14, FailsKind, HostKept, NextGoes DEF RemoveNetwork, At, Kinds, hist
<1>. QED
  BY <1>1, <1>2, <1>3, <1>4, <1>5, <1>6, <1>7, <1>8, <1>9, <1>10, <1>11, <1>12, <1>13, <1>14,
     <1>15, <1>16 DEF Call

LEMMA QuietFive ==
  ASSUME NEW t, NEW u, NEW v, NEW w, NEW x, Quiet(t), Quiet(u), Quiet(v), Quiet(w), Quiet(x)
  PROVE  QuietTasks(<<t, u, v, w, x>>)
<1>1. <<t, u, v, w, x>> = <<t, u, v>> \o <<w, x>>
  OBVIOUS
<1>. QED  BY <1>1, QuietThree, QuietTwo, QuietJoined

LEMMA ClustersFinite ==
  ASSUME NEW S, IsFiniteSet(S)
  PROVE  IsFiniteSet({n.cluster : n \in S})
<1>. DEFINE T == {n.cluster : n \in S}
            f == [n \in S |-> n.cluster]
<1>1. f \in Surjection(S, T)
  BY DEF Surjection
<1>. HIDE DEF T, f
<1>2. IsFiniteSet(T)
  BY <1>1, FS_Surjection
<1>. QED  BY <1>2 DEF T

LEMMA QuietDeletes ==
  ASSUME NEW S, IsFiniteSet(S), NEW order, order = SetToSeq(S)
  PROVE  QuietTasks([i \in DOMAIN order |-> Delete(order[i])])
<1>. DEFINE f == [i \in DOMAIN order |-> Delete(order[i])]
<1>1. PICK n \in Nat : DOMAIN order = 1..n
  BY OrderOfSet
<1>2. DOMAIN f = 1..n /\ f = [i \in 1..n |-> f[i]]
  BY <1>1
<1>3. \A i \in 1..n : f[i] = Delete(order[i])
  BY <1>1
<1>. HIDE DEF f
<1>4. IsSeq(f) /\ Len(f) = n
  BY <1>2, FunctionSeq
<1>5. \A i \in 1..n : Quiet(Delete(order[i]))
  BY QuietTask DEF Delete, Claimers
<1>. QED  BY <1>3, <1>4, <1>5 DEF QuietTasks, f

\* The commands that claim nothing.
LEMMA QuietCommandKinds ==
  ASSUME Shapes, NEW p \in Proc,
         \/ ClusterRm(p) \/ InstanceRm(p) \/ SentinelRm(p) \/ ObsStart(p) \/ RemoveLegacy(p)
         \/ ObsStop(p) \/ WorkloadStart(p) \/ WorkloadStop(p) \/ Destroy(p) \/ Sweep(p)
         \/ MonitorMaster(p) \/ UnwatchCluster(p)
  PROVE  Kinds(p)
<1>1. Running(p)
  BY DEF ClusterRm, InstanceRm, SentinelRm, ObsStart, RemoveLegacy, ObsStop, WorkloadStart,
         WorkloadStop, Destroy, Sweep, MonitorMaster, UnwatchCluster, Runs, At
<1>2. \A S, must : Quiet(StopAndRemove(S, must))
  BY QuietTask DEF StopAndRemove, Claimers
<1>3. /\ \A c : Quiet(Unwatch(c)) /\ Quiet(Delete(c)) /\ Quiet(Advance(c))
      /\ \A P : Quiet(Forget(P))
  BY QuietTask DEF Unwatch, Delete, Advance, Forget, Claimers
<1>4. \A t \in {"network", "legacy", "sweep", "drop network"} : Quiet(Task(t))
  BY QuietTask DEF Task, Claimers
<1>5. CASE ClusterRm(p)
  <2>. DEFINE c == Now(p).cluster
              T == <<Unwatch(c), StopAndRemove(ListClusterContainers(ct, c), FALSE), Delete(c)>>
  <2>1. QuietTasks(T)
    BY <1>2, <1>3, QuietThree
  <2>2. Proceed(p, ListClusterContainers(ct, c) # {}, T)
    BY <1>5 DEF ClusterRm
  <2>. QED  BY <1>1, <2>1, <2>2, ProceedKind DEF Kinds
<1>6. CASE InstanceRm(p)
  <2>. DEFINE n == Now(p).name
              T == <<StopAndRemove({n}, TRUE), Advance(n.cluster)>>
              ok == /\ n \in ListContainers(ct)
                    /\ n.kind # "sentinel" /\ n.cluster # NoCluster
                    /\ n.port \notin ReportedMasters(n.cluster)
  <2>1. QuietTasks(T)
    BY <1>2, <1>3, QuietTwo
  <2>2. Proceed(p, ok, T)
    BY <1>6 DEF InstanceRm
  <2>. HIDE DEF T, ok
  <2>. QED  BY <1>1, <2>1, <2>2, ProceedKind DEF Kinds
<1>7. CASE SentinelRm(p)
  <2>. DEFINE s == Now(p).name
              T == <<Forget({s} \X {m[2] : m \in {x \in monitors : x[1] = s}}),
                     StopAndRemove({s}, TRUE)>>
  <2>1. QuietTasks(T)
    BY <1>2, <1>3, QuietTwo
  <2>2. Proceed(p, s \in ListContainers(ct) /\ s.kind = "sentinel", T)
    BY <1>7 DEF SentinelRm
  <2>. HIDE DEF T
  <2>. QED  BY <1>1, <2>1, <2>2, ProceedKind DEF Kinds
<1>8. CASE ObsStart(p)
  <2>. DEFINE T == <<Task("network"), Task("legacy"), Ensure(Exporter), Ensure(Prometheus),
                     Restart(Grafana)>>
  <2>1. Quiet(Ensure(Exporter)) /\ Quiet(Ensure(Prometheus)) /\ Quiet(Restart(Grafana))
    BY QuietEnsure DEF Exporter, Prometheus, Grafana, Service
  <2>2. QuietTasks(T)
    BY <1>4, <2>1, QuietFive
  <2>3. Proceed(p, TRUE, T)
    BY <1>8 DEF ObsStart
  <2>. QED  BY <1>1, <2>2, <2>3, ProceedKind DEF Kinds
<1>9. CASE RemoveLegacy(p)
  <2>. DEFINE T == <<StopAndRemove(ListExporters(ct) \ {Exporter}, FALSE)>>
  <2>1. QuietTasks(T)
    BY <1>2, QuietOne
  <2>2. Proceed(p, TRUE, T)
    BY <1>9 DEF RemoveLegacy
  <2>. QED  BY <1>1, <2>1, <2>2, ProceedKind DEF Kinds
<1>10. CASE ObsStop(p)
  <2>. DEFINE T == <<StopAndRemove({Grafana} \cap ListContainers(ct), FALSE),
                     StopAndRemove({Prometheus} \cap ListContainers(ct), FALSE),
                     StopAndRemove(ListExporters(ct), FALSE)>>
  <2>1. QuietTasks(T)
    BY <1>2, QuietThree
  <2>2. Proceed(p, TRUE, T)
    BY <1>10 DEF ObsStop
  <2>. QED  BY <1>1, <2>1, <2>2, ProceedKind DEF Kinds
<1>11. CASE WorkloadStart(p)
  <2>. DEFINE T == <<Restart(Workload(Now(p).cluster))>>
              ok == Existing(Now(p).cluster) # {} /\ ListSentinels(ct) # {}
  <2>1. QuietTasks(T)
    BY QuietEnsure, QuietOne DEF Workload
  <2>2. Proceed(p, ok, T)
    BY <1>11 DEF WorkloadStart
  <2>. HIDE DEF T, ok
  <2>. QED  BY <1>1, <2>1, <2>2, ProceedKind DEF Kinds
<1>12. CASE WorkloadStop(p)
  <2>. DEFINE c == Now(p).cluster
              T == <<StopAndRemove({n \in ListWorkloads(ct) : c \in {NoCluster, n.cluster}},
                                   FALSE)>>
  <2>1. QuietTasks(T)
    BY <1>2, QuietOne
  <2>2. Proceed(p, TRUE, T)
    BY <1>12 DEF WorkloadStop
  <2>. QED  BY <1>1, <2>1, <2>2, ProceedKind DEF Kinds
<1>13. CASE Sweep(p)
  <2>. DEFINE T == <<DropVolumes(vols \ bare)>>
  <2>1. QuietTasks(T)
    BY QuietTask, QuietOne DEF DropVolumes, Claimers
  <2>2. Proceed(p, TRUE, T)
    BY <1>13 DEF Sweep
  <2>. QED  BY <1>1, <2>1, <2>2, ProceedKind DEF Kinds
<1>14. CASE Destroy(p)
  <2>. DEFINE seen  == {n.cluster : n \in ListContainers(ct)} \ {NoCluster}
              order == SetToSeq(seen)
              D     == [i \in DOMAIN order |-> Delete(order[i])]
              T     == <<StopAndRemove(ListContainers(ct), FALSE), Task("sweep"),
                         Task("drop network")>>
              U     == T \o D
  <2>1. QuietTasks(T)
    BY <1>2, <1>4, QuietThree
  <2>2. QuietTasks(D)
    <3>1. IsFiniteSet({n.cluster : n \in ListContainers(ct)})
      BY ClustersFinite DEF Shapes, ListContainers
    <3>2. IsFiniteSet(seen)
      BY <3>1, FS_Subset
    <3>. HIDE DEF seen
    <3>. QED  BY <3>2, QuietDeletes
  <2>3. \/ \E S : op' = [NextTask(p) EXCEPT ![p].seen = S]
        \/ \E S : op' = [Then(p, U) EXCEPT ![p].seen = S]
    <3>1. \/ op' = [NextTask(p) EXCEPT ![p].seen = {NoCluster}]
          \/ op' = [Then(p, U) EXCEPT ![p].seen = seen]
      BY <1>14, Zenon DEF Destroy
    <3>. HIDE DEF U, seen
    <3>. QED  BY <3>1
  <2>4. Keeps
    BY <1>14, HostKept DEF Destroy, host, hist
  <2>5. QuietTasks(U)
    <3>. HIDE DEF T, D
    <3>. QED  BY <2>1, <2>2, QuietJoined
  <2>. HIDE DEF U
  <2>. QED  BY <1>1, <2>3, <2>4, <2>5, QuietNone, ThenGoes DEF Kinds, NextTask
<1>15. CASE MonitorMaster(p)
  <2>. DEFINE t == Now(p)
              n == Redis(t.cluster, t.port)
              T == <<Register(t.cluster, t.port, ListSentinels(ct))>>
  <2>1. QuietTasks(T)
    BY QuietRegister, QuietOne DEF ListSentinels
  <2>2. Proceed(p, n \in DOMAIN ct /\ ct[n].running, T)
    BY <1>15 DEF MonitorMaster
  <2>. HIDE DEF T
  <2>. QED  BY <1>1, <2>1, <2>2, ProceedKind DEF Kinds
<1>16. CASE UnwatchCluster(p)
  <2>. DEFINE T == <<Forget(ListSentinels(ct) \X {Now(p).cluster})>>
  <2>1. QuietTasks(T)
    BY <1>3, QuietOne
  <2>2. Proceed(p, TRUE, T)
    BY <1>16 DEF UnwatchCluster
  <2>. HIDE DEF T
  <2>. QED  BY <1>1, <2>1, <2>2, ProceedKind DEF Kinds
<1>. QED
  BY <1>5, <1>6, <1>7, <1>8, <1>9, <1>10, <1>11, <1>12, <1>13, <1>14, <1>15, <1>16

-------------------------------------------------------------------------------
(* Allocation. *)

LEMMA LowestPort ==
  ASSUME NEW F, F \subseteq Nat, F # {}
  PROVE  Lowest(F) \in F
<1>1. \E x \in F : \A y \in F : ~ (<<y, x>> \in OpToRel(<, Nat))
  BY NatLessThanWellFounded, WFMin
<1>2. \A x, y \in F : <<y, x>> \notin OpToRel(<, Nat) => x <= y
  BY DEF OpToRel
<1>. QED  BY <1>1, <1>2 DEF Lowest

\* A free port is a positive number that no container has.
LEMMA FreeIsFree ==
  ASSUME NEW range, range \in {RedisPort, SentinelPort}, NEW x \in FreePorts(ct, range)
  PROVE  /\ x \in Nat \ {0} /\ x \notin Cluster
         /\ \A n \in DOMAIN ct : n.port # x
BY PortAssumption, ClusterAssumption DEF FreePorts, UsedPorts, ListContainers

LEMMA OnePort ==
  ASSUME NEW range, range \in {RedisPort, SentinelPort}, FreePorts(ct, range) # {}
  PROVE  Lowest(FreePorts(ct, range)) \in FreePorts(ct, range)
BY LowestPort, PortAssumption DEF FreePorts

\* A port and a name of a cluster are different things.
LEMMA FreeNotHeld ==
  ASSUME Shapes, NEW range, range \in {RedisPort, SentinelPort}, NEW x \in FreePorts(ct, range),
         NEW n \in DOMAIN ct
  PROVE  x \notin Held(n, ct[n].role)
BY FreeIsFree DEF Shapes, ContainerShape, MasterName, Held

LEMMA ClaimKind ==
  ASSUME Shapes, NEW p \in Proc, Running(p), Now(p).do \in Claimers, NEW ok, NEW C, NEW T,
         Claim(p, ok, C, T), ok => ClaimTasks(p, T, C)
  PROVE  Kinds(p)
<1>1. CASE ok
  <2>1. Moves(p, T \o Tail(op[p].todo), "begin", NoVolume, op[p].claims \cup C)
    BY <1>1, ClaimMoves DEF Claim
  <2>2. ct' = ct /\ raced' = raced \cup (C \cap UNION {op[q].claims : q \in Proc \ {p}})
    BY <1>1 DEF Claim, host
  <2>. QED  BY <1>1, <2>1, <2>2 DEF Claims, Kinds
<1>2. CASE ~ok
  BY <1>2, AbortEnds DEF Claim, Kinds
<1>. QED  BY <1>1, <1>2

LEMMA ClusterCreateKind ==
  ASSUME Shapes, NEW p \in Proc, ClusterCreate(p)
  PROVE  Kinds(p)
<1>. DEFINE c == Now(p).cluster
            t == Allocate(c, Now(p).count, Now(p).persistence, <<>>)
            T == <<Task("network"), t>>
<1>1. Running(p) /\ Now(p).do = "cluster create"
  BY DEF ClusterCreate, Runs, At
<1>2. TaskShape(Now(p))
  BY <1>1, NowShape
<1>3. c \in Cluster /\ c \notin Nat
  BY <1>1, <1>2, ClusterAssumption DEF TaskShape
<1>4. TaskShape(t) /\ Holds(t) = {c}
  <2>1. /\ t.do = "allocate" /\ t.cluster = c /\ t.count \in Nat \ {0} /\ t.ports = <<>>
        /\ "do" \in DOMAIN t
    BY <1>1, <1>2 DEF TaskShape, Allocate
  <2>2. <<>> \in Seq(Nat \ {0}) /\ 1..Len(<<>>) = {}
    OBVIOUS
  <2>. HIDE DEF t
  <2>. QED  BY <1>3, <2>1, <2>2 DEF TaskShape, Holds
<1>5. Quiet(Task("network"))
  BY QuietTask DEF Task, Claimers
<1>. HIDE DEF t
<1>6. IsSeq(T) /\ Len(T) = 2 /\ T[1] = Task("network") /\ T[2] = t
  BY TwoTasks
<1>7. ASSUME Existing(c) = {}, NEW n \in DOMAIN ct PROVE c \notin Held(n, ct[n].role)
  <2>1. n.port \in Nat /\ (ct[n].role = "master" => n.kind = "redis")
    BY DEF Shapes, ContainerShape, MasterName
  <2>2. ~(n.kind = "redis" /\ n.cluster = c)
    BY <1>7 DEF Existing, ListClusterRedisInstances, ListClusterContainers, ListContainers
  <2>. QED  BY <1>3, <2>1, <2>2 DEF Held
<1>. HIDE DEF T
<1>8. Ordered(T) /\ Apart(T)
  <2>1. \A i \in 1..Len(T) : i = 1 \/ i = 2
    BY <1>6
  <2>. QED  BY <2>1, <1>4, <1>5, <1>6 DEF Ordered, Apart, Quiet
<1>9. Existing(c) = {} => ClaimTasks(p, T, {c})
  <2>1. \A i \in 1..Len(T) : i = 1 \/ i = 2
    BY <1>6
  <2>. QED  BY <1>4, <1>5, <1>6, <1>7, <1>8, <2>1 DEF ClaimTasks, Quiet
<1>10. Claim(p, Existing(c) = {}, {c}, T)
  BY DEF ClusterCreate, T, t
<1>. HIDE DEF c
<1>. QED  BY <1>1, <1>9, <1>10, ClaimKind DEF Claimers

\* A container on a free port that is no master.
LEMMA StartHolds ==
  ASSUME Shapes, NEW range, range \in {RedisPort, SentinelPort}, NEW x \in FreePorts(ct, range),
         NEW n, n.port = x, NEW role, role # "master", NEW v, OwnVolume(n, v)
  PROVE  LET t == Start(n, role, v)
         IN /\ TaskShape(t) /\ Holds(t) = {x} /\ t.do \notin Claimers
            /\ \A m \in DOMAIN ct : Holds(t) \cap Held(m, ct[m].role) = {}
BY FreeIsFree, FreeNotHeld DEF Start, TaskShape, Holds, Held, MasterName, Claimers

LEMMA InstanceAddKind ==
  ASSUME Shapes, NEW p \in Proc, InstanceAdd(p)
  PROVE  Kinds(p)
<1>. DEFINE t    == Now(p)
            free == FreePorts(ct, RedisPort)
            port == Lowest(free)
            n    == Redis(t.cluster, port)
            s    == Start(n, "replica", VolumeFor(t, port))
            T    == <<s, Advance(t.cluster)>>
            ok   == /\ \E m \in FirstReported(t.cluster) :
                         Redis(t.cluster, m) \in Existing(t.cluster)
                    /\ free # {}
<1>1. Running(p) /\ Now(p).do = "instance add"
  BY DEF InstanceAdd, Runs, At
<1>2. Claim(p, ok, {port}, T)
  BY DEF InstanceAdd
<1>3. OwnVolume(n, VolumeFor(t, port)) /\ n.port = port
  BY DEF OwnVolume, VolumeFor, Redis
<1>4. ASSUME ok PROVE ClaimTasks(p, T, {port})
  <2>1. port \in free
    BY <1>4, OnePort
  <2>. HIDE DEF port, n
  <2>2. /\ TaskShape(s) /\ Holds(s) = {port} /\ s.do \notin Claimers
        /\ \A m \in DOMAIN ct : Holds(s) \cap Held(m, ct[m].role) = {}
    BY <1>3, <2>1, StartHolds
  <2>3. Quiet(Advance(t.cluster))
    BY QuietTask DEF Advance, Claimers
  <2>. HIDE DEF s
  <2>4. /\ IsSeq(T) /\ T[1] = s /\ T[2] = Advance(t.cluster)
        /\ \A i \in 1..Len(T) : i = 1 \/ i = 2
    BY TwoTasks
  <2>. HIDE DEF T
  <2>5. Ordered(T) /\ Apart(T)
    BY <2>2, <2>3, <2>4 DEF Ordered, Apart, Quiet
  <2>. QED  BY <2>2, <2>3, <2>4, <2>5 DEF ClaimTasks, Quiet
<1>. HIDE DEF ok, T, port
<1>. QED  BY <1>1, <1>2, <1>4, ClaimKind DEF Claimers

LEMMA StartSentinelKind ==
  ASSUME Shapes, NEW p \in Proc, StartSentinel(p)
  PROVE  Kinds(p)
<1>. DEFINE free == FreePorts(ct, SentinelPort)
            port == Lowest(free)
            left == Now(p).left - 1
            n    == Sentinel(port)
            s    == Start(n, "sentinel", NoVolume)
            more == IF left > 0 THEN <<StartSentinels(left)>> ELSE <<>>
            T    == <<s>> \o more
<1>1. Running(p) /\ Now(p).do = "start sentinel"
  BY DEF StartSentinel, Runs, At
<1>2. Claim(p, free # {}, {port}, T)
  BY DEF StartSentinel
<1>3. OwnVolume(n, NoVolume) /\ n.port = port
  BY DEF OwnVolume, Sentinel
<1>4. ASSUME free # {} PROVE ClaimTasks(p, T, {port})
  <2>1. port \in free
    BY <1>4, OnePort
  <2>. HIDE DEF port, n
  <2>2. /\ TaskShape(s) /\ Holds(s) = {port} /\ s.do \notin Claimers
        /\ \A m \in DOMAIN ct : Holds(s) \cap Held(m, ct[m].role) = {}
    BY <1>3, <2>1, StartHolds
  <2>3. /\ TaskShape(StartSentinels(left)) /\ Holds(StartSentinels(left)) = {}
    BY DEF StartSentinels, TaskShape, Holds
  <2>. HIDE DEF left
  <2>4. PICK u : u = StartSentinels(left)
    OBVIOUS
  <2>5. IsSeq(<<s>>) /\ Len(<<s>>) = 1 /\ <<s>>[1] = s
    BY OneTask
  <2>6. IsSeq(more) /\ (Len(more) = 0 \/ (Len(more) = 1 /\ more[1] = u))
    <3>1. more = <<u>> \/ more = <<>>
      BY <2>4, Zenon
    <3>. HIDE DEF more
    <3>. QED  BY <3>1, OneTask, NoTasks
  <2>7. PICK A : A = <<s>> /\ T = A \o more
    OBVIOUS
  <2>. HIDE DEF T, s, more
  <2>8. IsSeq(T) /\ T[1] = s /\ \A i \in 1..Len(T) : i = 1 \/ (i = 2 /\ T[2] = u)
    <3>1. IsSeq(A) /\ Len(A) = 1 /\ A[1] = s
      BY <2>5, <2>7
    <3>2. PICK U, V : U = more /\ V = T
      OBVIOUS
    <3>3. /\ IsSeq(V) /\ Len(V) = Len(A) + Len(U)
          /\ \A i \in 1..Len(V) : V[i] = IF i <= Len(A) THEN A[i] ELSE U[i - Len(A)]
      BY <2>6, <2>7, <3>1, <3>2, Joined
    <3>4. CASE Len(U) = 0
      <4>1. Len(V) = 1
        BY <3>1, <3>3, <3>4
      <4>2. V[1] = s
        BY <3>1, <3>3, <4>1
      <4>3. \A i \in 1..Len(V) : i = 1
        BY <4>1
      <4>. QED  BY <3>2, <3>3, <4>2, <4>3
    <3>5. CASE Len(U) = 1 /\ U[1] = u
      <4>1. Len(V) = 2
        BY <3>1, <3>3, <3>5
      <4>. QED  BY <3>1, <3>2, <3>3, <3>5, <4>1
    <3>. QED  BY <2>6, <3>2, <3>4, <3>5
  <2>9. Ordered(T) /\ Apart(T)
    BY <2>2, <2>3, <2>4, <2>8 DEF Ordered, Apart
  <2>. QED  BY <2>2, <2>3, <2>4, <2>8, <2>9 DEF ClaimTasks
<1>. HIDE DEF free, T, port
<1>. QED  BY <1>1, <1>2, <1>4, ClaimKind DEF Claimers

\* Tasks that claim nothing more, though they may hold what is claimed.
LEMMA KeptClaims ==
  ASSUME Shapes, NEW p \in Proc, Running(p), Now(p).do \in Claimers, NEW T,
         ClaimTasks(p, T, {}), Proceed(p, TRUE, T)
  PROVE  Kinds(p)
<1>1. GoesOn(p, T)
  BY ThenMoves DEF Proceed
<1>2. Moves(p, T \o Tail(op[p].todo), "begin", NoVolume, op[p].claims \cup {})
  BY <1>1 DEF GoesOn, Moves
<1>3. ct' = ct /\ raced' = raced \cup ({} \cap UNION {op[q].claims : q \in Proc \ {p}})
  BY DEF Proceed, host, hist
<1>. QED  BY <1>2, <1>3 DEF Claims, Kinds

LEMMA SentinelAddKind ==
  ASSUME Shapes, NEW p \in Proc, SentinelAdd(p)
  PROVE  Kinds(p)
<1>. DEFINE a == Task("network")
            b == StartSentinels(Now(p).count)
            T == <<a, b>>
<1>1. Running(p) /\ Now(p).do = "sentinel add"
  BY DEF SentinelAdd, Runs, At
<1>2. TaskShape(a) /\ Holds(a) = {} /\ TaskShape(b) /\ Holds(b) = {}
  BY DEF TaskShape, Holds, Task, StartSentinels
<1>3. Proceed(p, TRUE, T)
  BY DEF SentinelAdd
<1>. HIDE DEF a, b
<1>4. IsSeq(T) /\ \A i \in 1..Len(T) : TaskShape(T[i]) /\ Holds(T[i]) = {}
  BY <1>2, TwoTasks
<1>. HIDE DEF T
<1>5. ClaimTasks(p, T, {})
  BY <1>4 DEF ClaimTasks, Ordered, Apart
<1>. QED  BY <1>1, <1>3, <1>5, KeptClaims DEF Claimers

LEMMA Appended ==
  ASSUME NEW S, NEW s \in Seq(S), NEW x \in S, NEW u, u = Append(s, x)
  PROVE  /\ u \in Seq(S) /\ Len(u) = Len(s) + 1 /\ Len(s) \in Nat
         /\ \A i \in 1..Len(u) : u[i] = IF i = Len(s) + 1 THEN x ELSE s[i]
OBVIOUS

LEMMA Rising ==
  ASSUME NEW s \in Seq(Nat), NEW x \in Nat, \A i \in 1..Len(s) : s[i] < x,
         \A i, j \in 1..Len(s) : i < j => s[i] < s[j], NEW u, u = Append(s, x),
         NEW i \in 1..Len(u), NEW j \in 1..Len(u), i < j
  PROVE  u[i] < u[j]
<1>1. /\ Len(u) = Len(s) + 1 /\ Len(s) \in Nat
      /\ u[i] = IF i = Len(s) + 1 THEN x ELSE s[i]
      /\ u[j] = IF j = Len(s) + 1 THEN x ELSE s[j]
  BY Appended
<1>2. i \in 1..Len(s) /\ u[i] = s[i]
  BY <1>1
<1>3. CASE j = Len(s) + 1
  BY <1>1, <1>2, <1>3
<1>4. CASE j # Len(s) + 1
  BY <1>1, <1>2, <1>4
<1>. QED  BY <1>3, <1>4

\* The port is free; the cluster and the other ports are still those this
\* command has claimed.
LEMMA CreateAllocateKind ==
  ASSUME Shapes, ClaimsKept, ClaimsFree, NEW p \in Proc, CreateAllocate(p)
  PROVE  Kinds(p)
<1>. DEFINE t    == Now(p)
            free == {q \in FreePorts(ct, RedisPort) : \A i \in DOMAIN t.ports : t.ports[i] < q}
            x    == Lowest(free)
            u    == Allocate(t.cluster, t.count, t.persistence, Append(t.ports, x))
            T    == <<u>>
<1>1. Running(p) /\ t.do = "allocate"
  BY DEF CreateAllocate, Runs, At
<1>2. Claim(p, free # {}, {x}, T)
  BY DEF CreateAllocate
<1>3. /\ t.cluster \in Cluster /\ t.count \in Nat \ {0} /\ t.ports \in Seq(Nat \ {0})
      /\ \A i, j \in 1..Len(t.ports) : i < j => t.ports[i] < t.ports[j]
  BY <1>1, NowShape DEF TaskShape
<1>4. Holds(t) \subseteq op[p].claims
  BY <1>1, NowShape DEF ClaimsKept
<1>5. \A n \in DOMAIN ct : Holds(t) \cap Held(n, ct[n].role) \subseteq raced
  BY <1>1, NowShape DEF ClaimsFree, At
<1>6. ASSUME free # {} PROVE ClaimTasks(p, T, {x})
  <2>1. x \in FreePorts(ct, RedisPort) /\ \A i \in 1..Len(t.ports) : t.ports[i] < x
    <3>1. free \subseteq Nat
      BY PortAssumption DEF FreePorts
    <3>2. x \in free
      <4>. HIDE DEF free
      <4>. QED  BY <1>6, <3>1, LowestPort
    <3>3. DOMAIN t.ports = 1..Len(t.ports)
      BY <1>3
    <3>. HIDE DEF x
    <3>. QED  BY <3>2, <3>3
  <2>2. x \in Nat \ {0} /\ \A n \in DOMAIN ct : x \notin Held(n, ct[n].role)
    BY <2>1, FreeIsFree, FreeNotHeld
  <2>. HIDE DEF x, free
  <2>3. PICK P : P = t.ports
    OBVIOUS
  <2>4. PICK Q : Q = Append(P, x)
    OBVIOUS
  <2>5. /\ Q \in Seq(Nat \ {0}) /\ Len(Q) = Len(P) + 1 /\ Len(P) \in Nat
        /\ \A i \in 1..Len(Q) : Q[i] = IF i = Len(P) + 1 THEN x ELSE P[i]
    BY <1>3, <2>2, <2>3, <2>4, Appended
  <2>6. \A i, j \in 1..Len(Q) : i < j => Q[i] < Q[j]
    <3>1. P \in Seq(Nat) /\ x \in Nat
      BY <1>3, <2>2, <2>3
    <3>. QED  BY <1>3, <2>1, <2>3, <2>4, <3>1, Rising
  <2>7. \A i \in 1..Len(Q) : Q[i] = x \/ \E j \in 1..Len(P) : Q[i] = P[j]
    BY <2>5
  <2>8. /\ "do" \in DOMAIN u /\ u.do = "allocate" /\ u.cluster = t.cluster
        /\ u.count = t.count /\ u.ports = Q
    BY <2>3, <2>4 DEF Allocate
  <2>. HIDE DEF u
  <2>9. TaskShape(u)
    BY <1>3, <2>5, <2>6, <2>8 DEF TaskShape
  <2>10. Holds(u) \subseteq Holds(t) \cup {x}
    BY <1>1, <2>3, <2>7, <2>8 DEF Holds
  <2>11. /\ Holds(u) \subseteq op[p].claims \cup {x}
         /\ \A n \in DOMAIN ct : Holds(u) \cap Held(n, ct[n].role) \subseteq raced
    BY <1>4, <1>5, <2>2, <2>10
  <2>12. IsSeq(T) /\ T[1] = u /\ \A i \in 1..Len(T) : i = 1
    BY OneTask
  <2>. HIDE DEF T
  <2>. QED  BY <2>9, <2>11, <2>12 DEF ClaimTasks, Ordered, Apart
<1>. HIDE DEF free, T, x
<1>. QED  BY <1>1, <1>2, <1>6, ClaimKind DEF Claimers

\* The containers to come hold what the allocation did.
LEMMA CreatePlanKind ==
  ASSUME Shapes, ClaimsKept, ClaimsFree, NEW p \in Proc, CreatePlan(p)
  PROVE  Kinds(p)
<1>. DEFINE t     == Now(p)
            c     == t.cluster
            k     == t.count
            ports == t.ports
            role(i) == IF i = 1 THEN "master" ELSE "replica"
            start(i) == Start(Redis(c, ports[i]), role(i), VolumeFor(t, ports[i]))
            S     == [i \in 1..k |-> start(i)]
            M     == Monitor(c, ports[1])
            U     == <<M, Save(c)>>
            T     == S \o U
<1>1. Running(p) /\ t.do = "allocate" /\ Len(ports) = k
  BY DEF CreatePlan, Runs, At
<1>2. Proceed(p, TRUE, T)
  BY DEF CreatePlan
<1>3. /\ c \in Cluster /\ c \notin Nat /\ k \in Nat \ {0}
      /\ \A i \in 1..k : ports[i] \in Nat \ {0}
      /\ \A i, j \in 1..k : i # j => ports[i] # ports[j]
  <2>1. /\ c \in Cluster /\ k \in Nat \ {0} /\ ports \in Seq(Nat \ {0})
        /\ \A i, j \in 1..Len(ports) : i < j => ports[i] < ports[j]
    BY <1>1, NowShape DEF TaskShape
  <2>2. \A i \in 1..k : ports[i] \in Nat \ {0}
    BY <1>1, <2>1
  <2>3. \A i, j \in 1..k : i # j => ports[i] # ports[j]
    BY <1>1, <2>1, <2>2
  <2>. QED  BY <2>1, <2>2, <2>3, ClusterAssumption
<1>4. Holds(t) = {c} \cup {ports[i] : i \in 1..k} /\ Holds(t) \subseteq op[p].claims
  BY <1>1, NowShape DEF ClaimsKept, Holds
<1>5. \A n \in DOMAIN ct : Holds(t) \cap Held(n, ct[n].role) \subseteq raced
  BY <1>1, NowShape DEF ClaimsFree, At
<1>6. ClaimTasks(p, T, {})
  <2>2. ASSUME NEW i \in 1..k
        PROVE  /\ TaskShape(start(i)) /\ start(i).do = "start"
               /\ Holds(start(i)) = {ports[i]} \cup (IF i = 1 THEN {c} ELSE {})
    <3>1. ports[i] \in Nat \ {0}
      BY <1>3
    <3>. HIDE DEF ports, c
    <3>2. OwnVolume(Redis(c, ports[i]), VolumeFor(t, ports[i]))
      BY DEF OwnVolume, VolumeFor, Redis, c
    <3>3. MasterName(Redis(c, ports[i]), role(i))
      BY <1>3 DEF MasterName, Redis
    <3>4. Redis(c, ports[i]).port = ports[i] /\ Redis(c, ports[i]).cluster = c
      BY DEF Redis
    <3>. HIDE DEF role
    <3>5. /\ start(i).do = "start" /\ start(i).name = Redis(c, ports[i])
          /\ start(i).role = role(i) /\ start(i).volume = VolumeFor(t, ports[i])
          /\ "do" \in DOMAIN start(i)
      BY DEF Start
    <3>. HIDE DEF start
    <3>6. TaskShape(start(i))
      BY <3>1, <3>2, <3>3, <3>4, <3>5 DEF TaskShape
    <3>7. Holds(start(i)) = {ports[i]} \cup (IF i = 1 THEN {c} ELSE {})
      BY <3>1, <3>4, <3>5 DEF Holds, Held, role
    <3>. QED  BY <3>5, <3>6, <3>7
  <2>3. QuietTasks(U) /\ Len(U) = 2
    <3>1. Quiet(M) /\ Quiet(Save(c))
      BY QuietTask DEF Monitor, Save, Claimers
    <3>. HIDE DEF M
    <3>. QED  BY <3>1, QuietTwo, TwoTasks
  <2>. HIDE DEF start, U, ports
  <2>4. IsSeq(S) /\ Len(S) = k /\ \A i \in 1..k : S[i] = start(i)
    <3>1. DOMAIN S = 1..k /\ S = [i \in 1..k |-> S[i]] /\ \A i \in 1..k : S[i] = start(i)
      OBVIOUS
    <3>. HIDE DEF S, k
    <3>. QED  BY <1>3, <3>1, FunctionSeq
  <2>. HIDE DEF S, k
  <2>5. /\ IsSeq(T) /\ Len(T) = k + 2
        /\ \A i \in 1..Len(T) : T[i] = IF i <= k THEN S[i] ELSE U[i - k]
    <3>1. IsSeq(U)
      BY <2>3 DEF QuietTasks
    <3>2. /\ IsSeq(S \o U) /\ Len(S \o U) = Len(S) + Len(U)
          /\ \A i \in 1..Len(S \o U) :
               (S \o U)[i] = IF i <= Len(S) THEN S[i] ELSE U[i - Len(S)]
      BY <2>4, <3>1, Joined
    <3>. QED  BY <2>3, <2>4, <3>2
  <2>. HIDE DEF T
  <2>6. \A i \in 1..Len(T) : i <= k => i \in 1..k /\ T[i] = start(i)
    BY <1>3, <2>4, <2>5
  <2>7. \A i \in 1..Len(T) : ~(i <= k) => Quiet(T[i])
    <3>. SUFFICES ASSUME NEW i \in 1..Len(T), ~(i <= k) PROVE Quiet(T[i])
      OBVIOUS
    <3>1. i - k \in 1..2 /\ T[i] = U[i - k]
      BY <1>3, <2>5
    <3>. QED  BY <2>3, <3>1 DEF QuietTasks
  <2>8. Ordered(T)
    BY <2>2, <2>6, <2>7 DEF Ordered, Quiet, Claimers
  <2>9. \A i \in 1..k : ports[i] # c
    BY <1>3
  <2>10. Apart(T)
    <3>. SUFFICES ASSUME NEW i \in 1..Len(T), NEW j \in 1..Len(T), i # j
                  PROVE  Holds(T[i]) \cap Holds(T[j]) = {}
      BY DEF Apart
    <3>1. CASE i <= k /\ j <= k
      <4>1. /\ i \in 1..k /\ j \in 1..k
            /\ Holds(T[i]) = {ports[i]} \cup (IF i = 1 THEN {c} ELSE {})
            /\ Holds(T[j]) = {ports[j]} \cup (IF j = 1 THEN {c} ELSE {})
        BY <2>2, <2>6, <3>1
      <4>2. ports[i] # ports[j] /\ ports[i] # c /\ ports[j] # c
        BY <1>3, <2>9, <4>1
      <4>. QED  BY <4>1, <4>2
    <3>. QED  BY <2>7, <3>1 DEF Quiet
  <2>11. ASSUME NEW i \in 1..Len(T), i <= k
         PROVE  /\ TaskShape(T[i]) /\ Holds(T[i]) \subseteq op[p].claims \cup {}
                /\ \A n \in DOMAIN ct : Holds(T[i]) \cap Held(n, ct[n].role) \subseteq raced
    <3>1. /\ i \in 1..k /\ TaskShape(T[i])
          /\ Holds(T[i]) \subseteq {ports[i], c}
      BY <2>2, <2>6, <2>11
    <3>2. Holds(T[i]) \subseteq Holds(t)
      BY <1>4, <3>1
    <3>. QED  BY <1>4, <1>5, <3>1, <3>2
  <2>. QED  BY <2>5, <2>7, <2>8, <2>10, <2>11 DEF ClaimTasks, Quiet
<1>. HIDE DEF T
<1>. QED  BY <1>1, <1>2, <1>6, KeptClaims DEF Claimers

\* The commands and those of quickstart claim nothing before they are run.
LEMMA CommandTask ==
  ASSUME NEW cmd \in OperatorCommands
  PROVE  /\ TaskShape(cmd) /\ Holds(cmd) = {}
         /\ cmd # Task("none")
<1>. DEFINE Goal == TaskShape(cmd) /\ Holds(cmd) = {} /\ cmd.do # "none"
<1>1. ASSUME cmd \in [do : {"cluster create"}, cluster : Cluster, count : Nat \ {0},
                   persistence : BOOLEAN]
      PROVE  Goal
  BY <1>1 DEF TaskShape, Holds
<1>2. ASSUME cmd \in [do : {"quickstart"}, cluster : Cluster, sentinels : Nat \ {0},
                   count : Nat \ {0}, adds : Nat]
      PROVE  Goal
  BY <1>2 DEF TaskShape, Holds
<1>3. ASSUME cmd \in [do : {"cluster rm", "workload start"}, cluster : Cluster]
      PROVE  Goal
  BY <1>3 DEF TaskShape, Holds
<1>4. ASSUME cmd \in [do : {"instance add"}, cluster : Cluster, persistence : BOOLEAN]
      PROVE  Goal
  BY <1>4 DEF TaskShape, Holds
<1>5. ASSUME cmd \in [do : {"instance rm", "sentinel rm"},
                   name : [kind : STRING, cluster : Cluster \cup {NoCluster}, port : Nat]]
      PROVE  Goal
  BY <1>5 DEF TaskShape, Holds
<1>6. ASSUME cmd \in [do : {"obs start", "obs stop", "destroy"}]
      PROVE  Goal
  BY <1>6 DEF TaskShape, Holds
<1>7. Task("none").do = "none"
  BY DEF Task
<1>8. ASSUME cmd \in [do : {"sentinel add"}, count : Nat \ {0}]
      PROVE  Goal
  BY <1>8 DEF TaskShape, Holds
<1>9. ASSUME cmd \in [do : {"workload stop"}, cluster : Cluster \cup {NoCluster}]
      PROVE  Goal
  BY <1>9 DEF TaskShape, Holds
<1>. QED  BY <1>1, <1>2, <1>3, <1>4, <1>5, <1>6, <1>7, <1>8, <1>9 DEF OperatorCommands

LEMMA SeqElements ==
  ASSUME NEW X, NEW s \in Seq(X)
  PROVE  IsSeq(s) /\ \A i \in 1..Len(s) : s[i] \in X
BY DEF IsSeq

LEMMA QuickstartTasks ==
  ASSUME NEW cmd \in OperatorCommands, cmd.do = "quickstart"
  PROVE  /\ IsSeq(Quickstart(cmd))
         /\ \A i \in 1..Len(Quickstart(cmd)) :
              TaskShape(Quickstart(cmd)[i]) /\ Holds(Quickstart(cmd)[i]) = {}
<1>. DEFINE c == cmd.cluster
            t1 == Task("destroy")
            t2 == Task("obs start")
            t3 == [do |-> "sentinel add", count |-> cmd.sentinels]
            t4 == [do |-> "cluster create", cluster |-> c, count |-> cmd.count, persistence |-> TRUE]
            t5 == [do |-> "workload start", cluster |-> c]
            t6 == [do |-> "instance add", cluster |-> c, persistence |-> TRUE]
            first == <<t1, t2, t3, t4, t5>>
            adds  == [i \in 1..cmd.adds |-> t6]
            Plain(t) == TaskShape(t) /\ Holds(t) = {}
<1>1. Quickstart(cmd) = first \o adds
  BY DEF Quickstart
<1>2. cmd.cluster \in Cluster /\ cmd.count \in Nat \ {0} /\ cmd.adds \in Nat
  BY DEF OperatorCommands
<1>3. Plain(t1) /\ Plain(t2) /\ Plain(t3)
  BY DEF TaskShape, Holds, Task
<1>4. Plain(t4) /\ Plain(t5) /\ Plain(t6)
  BY <1>2 DEF TaskShape, Holds
<1>. HIDE DEF t1, t2, t3, t4, t5, t6
<1>5. PICK A : A = {t1, t2, t3, t4, t5, t6}
  OBVIOUS
<1>6. first \in Seq(A)
  BY <1>5
<1>7. adds \in Seq(A)
  <2>1. adds \in [1..cmd.adds -> A]
    BY <1>5
  <2>. HIDE DEF adds
  <2>. QED  BY <1>2, <2>1
<1>. HIDE DEF first, adds
<1>8. Quickstart(cmd) \in Seq(A)
  BY <1>1, <1>6, <1>7
<1>. QED  BY <1>3, <1>4, <1>5, <1>8, SeqElements

LEMMA BeginKind ==
  ASSUME Shapes, NEW p \in Proc, NEW cmd \in Commands[p], Begin(p, cmd)
  PROVE  Kinds(p)
<1>1. cmd \in OperatorCommands
  BY CommandAssumption
<1>. DEFINE todo == IF cmd.do = "quickstart" THEN Quickstart(cmd) ELSE <<cmd>>
<1>2. /\ DOMAIN op' = Proc
      /\ op'[p] = [Idle EXCEPT !.cmd = cmd, !.alone = (Others(p) = {}), !.todo = todo]
      /\ \A q \in Proc \ {p} : op'[q] = [op[q] EXCEPT !.alone = FALSE]
  BY DEF Begin
<1>3. /\ IsSeq(todo)
      /\ \A i \in 1..Len(todo) : TaskShape(todo[i]) /\ Holds(todo[i]) = {}
  BY <1>1, CommandTask, QuickstartTasks, OneTask
<1>. HIDE DEF todo
<1>4. /\ DOMAIN op'[p] = Fields /\ op'[p].cmd = cmd /\ op'[p].todo = todo
      /\ op'[p].claims = {} /\ op'[p].step = "begin"
  BY <1>2 DEF Idle, Fields
<1>5. \A q \in Proc \ {p} : Untouched(q)
  BY <1>2 DEF Shapes, CommandShape, Fields, Untouched
<1>. QED  BY <1>1, <1>2, <1>3, <1>4, <1>5, CommandTask DEF Begin, Begins, Kinds, host, hist

LEMMA ExitKind ==
  ASSUME Shapes, NEW n \in DOMAIN ct, Exit(n)
  PROVE  Exits
<1>1. Keeps
  BY RunningKept DEF Exit
<1>2. DOMAIN op' = Proc /\ \A q \in Proc : Untouched(q)
  BY DEF Exit, Shapes, CommandShape, Fields, Untouched
<1>. QED  BY <1>1, <1>2 DEF Exits

LEMMA StepKinds ==
  ASSUME Shapes, ClaimsKept, ClaimsFree, Next
  PROVE  Exits \/ \E p \in Proc : Kinds(p)
<1>1. CASE \E n \in DOMAIN ct : Exit(n)
  BY <1>1, ExitKind
<1>2. ASSUME NEW p \in Proc,
             \/ \E cmd \in Commands[p] : Begin(p, cmd)
             \/ Command(p) \/ Call(p) \/ Finish(p)
             \/ CallFails(p) \/ Interrupt(p)
      PROVE  Kinds(p)
  <2>1. CASE \E cmd \in Commands[p] : Begin(p, cmd)
    BY <2>1, BeginKind
  <2>2. CASE Command(p)
    BY <2>2, QuietCommandKinds, ClusterCreateKind, CreateAllocateKind, CreatePlanKind,
       InstanceAddKind, SentinelAddKind, StartSentinelKind DEF Command
  <2>3. CASE Call(p)
    BY <2>3, CallKinds
  <2>4. CASE Finish(p)
    BY <2>4, HostKept, DieMoves DEF Finish, Ends, Kinds, host, hist
  <2>5. CASE CallFails(p)
    BY <2>5, FailsKind DEF CallFails, Kinds
  <2>6. CASE Interrupt(p)
    BY <2>6, AbortEnds DEF Interrupt, Kinds
  <2>. QED  BY <1>2, <2>1, <2>2, <2>3, <2>4, <2>5, <2>6
<1>. QED  BY <1>1, <1>2 DEF Next

-------------------------------------------------------------------------------
(* Shapes is inductive. *)

LEMMA UntouchedShape ==
  ASSUME NEW q \in Proc, CommandShape(q), Untouched(q)
  PROVE  CommandShape(q)'
BY DEF CommandShape, Untouched

LEMMA KeepsShape ==
  ASSUME Shapes, Keeps
  PROVE  IsFiniteSet(DOMAIN ct') /\ \A n \in DOMAIN ct' : ContainerShape(n)'
<1>1. IsFiniteSet(DOMAIN ct')
  BY FS_Subset DEF Shapes, Keeps
<1>2. \A n \in DOMAIN ct' : ContainerShape(n)'
  BY DEF Shapes, Keeps, ContainerShape
<1>. QED  BY <1>1, <1>2

LEMMA ReplaceShape ==
  ASSUME NEW s, IsSeq(s), s # <<>>, \A i \in 1..Len(s) : TaskShape(s[i]),
         NEW T, IsSeq(T), \A i \in 1..Len(T) : TaskShape(T[i]),
         NEW u, u = T \o Tail(s)
  PROVE  IsSeq(u) /\ \A i \in 1..Len(u) : TaskShape(u[i])
<1>1. /\ IsSeq(u) /\ Len(u) = Len(T) + Len(s) - 1 /\ Len(T) \in Nat /\ Len(s) \in Nat
      /\ \A i \in 1..Len(u) : u[i] = IF i <= Len(T) THEN T[i] ELSE s[i - Len(T) + 1]
  BY Replace, SeqFacts
<1>2. ASSUME NEW i \in 1..Len(u) PROVE TaskShape(u[i])
  <2>1. CASE i <= Len(T)
    BY <1>1, <2>1
  <2>2. CASE ~(i <= Len(T))
    <3>1. i - Len(T) + 1 \in 1..Len(s) /\ u[i] = s[i - Len(T) + 1]
      BY <1>1, <2>2
    <3>. QED  BY <3>1
  <2>. QED  BY <2>1, <2>2
<1>. QED  BY <1>1, <1>2

LEMMA CreatedShape ==
  ASSUME Shapes, NEW p \in Proc, Creates(p), NEW n, n = Now(p).name
  PROVE  /\ DOMAIN ct' = DOMAIN ct \cup {n}
         /\ \A m \in DOMAIN ct : m # n /\ ct'[m] = ct[m]
         /\ DOMAIN ct'[n] = {"role", "running", "volume", "maker"}
         /\ ct'[n].role = Now(p).role
         /\ ct'[n].volume = Now(p).volume
         /\ ct'[n].maker = p
BY DEF Creates, With, CanCreate

LEMMA CreatedNames ==
  ASSUME Shapes, NEW p \in Proc, Creates(p)
  PROVE  /\ \A n \in DOMAIN ct : n \in DOMAIN ct' /\ ct'[n] = ct[n] /\ n # Now(p).name
         /\ \A n \in DOMAIN ct' : n \in DOMAIN ct \/ n = Now(p).name
<1>1. PICK n : n = Now(p).name
  OBVIOUS
<1>2. /\ DOMAIN ct' = DOMAIN ct \cup {n}
      /\ \A m \in DOMAIN ct : m # n /\ ct'[m] = ct[m]
  BY <1>1, CreatedShape
<1>. QED  BY <1>1, <1>2

LEMMA ShapesStep ==
  ASSUME Shapes, NEW p \in Proc, Kinds(p)
  PROVE  Shapes'
<1>. USE DEF Shapes
<1>1. /\ DOMAIN op' = Proc
      /\ \A q \in Proc \ {p} : Untouched(q)
  BY DEF Kinds, Ends, Dies, Goes, GoesOn, Stays, Creates, Claims, Begins, Moves
<1>2. \A q \in Proc \ {p} : CommandShape(q)'
  BY <1>1, UntouchedShape
<1>3. IsFiniteSet(DOMAIN ct') /\ \A n \in DOMAIN ct' : ContainerShape(n)'
  <2>1. CASE Ends(p) \/ Goes(p) \/ Stays(p)
    BY <2>1, KeepsShape DEF Ends, Goes, Stays
  <2>2. CASE Creates(p)
    <3>1. PICK n : n = Now(p).name
      OBVIOUS
    <3>2. /\ DOMAIN ct' = DOMAIN ct \cup {n}
          /\ \A m \in DOMAIN ct : m # n /\ ct'[m] = ct[m]
          /\ DOMAIN ct'[n] = {"role", "running", "volume", "maker"}
          /\ ct'[n].role = Now(p).role /\ ct'[n].volume = Now(p).volume
      BY <2>2, <3>1, CreatedShape
    <3>3. IsFiniteSet(DOMAIN ct')
      BY <3>2, FS_AddElement
    <3>4. TaskShape(Now(p)) /\ Now(p).do = "start"
      BY <2>2, NowShape DEF Creates, At
    <3>5. ContainerShape(n)'
      BY <3>1, <3>2, <3>4 DEF TaskShape, ContainerShape
    <3>6. \A m \in DOMAIN ct : ContainerShape(m)'
      BY <3>2 DEF ContainerShape
    <3>. QED  BY <3>2, <3>3, <3>5, <3>6
  <2>3. CASE Claims(p) \/ Begins(p)
    BY <2>3 DEF Claims, Begins, ContainerShape
  <2>. QED  BY <2>1, <2>2, <2>3 DEF Kinds
<1>4. CommandShape(p)'
  <2>1. CASE Ends(p)
    <3>1. /\ DOMAIN op'[p] = Fields /\ op'[p].todo = <<>>
      BY <2>1 DEF Ends, Dies, Idle, Fields
    <3>. QED  BY <3>1, NoTasks DEF CommandShape
  <2>2. CASE Goes(p)
    <3>1. PICK T : QuietTasks(T) /\ GoesOn(p, T)
      BY <2>2 DEF Goes
    <3>2. IsSeq(T) /\ \A i \in 1..Len(T) : TaskShape(T[i])
      BY <3>1 DEF QuietTasks, Quiet
    <3>3. IsSeq(op'[p].todo) /\ \A i \in 1..Len(op'[p].todo) : TaskShape(op'[p].todo[i])
      BY <2>2, <3>1, <3>2, NowShape, ReplaceShape DEF GoesOn, Moves, CommandShape, Goes
    <3>. QED  BY <2>2, <3>1, <3>3, NowShape DEF CommandShape, GoesOn, Moves, Goes
  <2>3. CASE Stays(p) \/ Creates(p)
    BY <2>3, NowShape DEF Stays, Creates, Moves, CommandShape
  <2>4. CASE Claims(p)
    <3>1. PICK T, C : /\ ClaimTasks(p, T, C)
                      /\ Moves(p, T \o Tail(op[p].todo), "begin", NoVolume, op[p].claims \cup C)
      BY <2>4 DEF Claims
    <3>2. IsSeq(T) /\ \A i \in 1..Len(T) : TaskShape(T[i])
      BY <3>1 DEF ClaimTasks
    <3>3. IsSeq(op'[p].todo) /\ \A i \in 1..Len(op'[p].todo) : TaskShape(op'[p].todo[i])
      BY <2>4, <3>1, <3>2, NowShape, ReplaceShape DEF Moves, CommandShape, Claims
    <3>. QED  BY <2>4, <3>1, <3>3, NowShape DEF CommandShape, Moves, Claims
  <2>5. CASE Begins(p)
    BY <2>5 DEF Begins, CommandShape
  <2>. QED  BY <2>1, <2>2, <2>3, <2>4, <2>5 DEF Kinds
<1>. QED  BY <1>1, <1>2, <1>3, <1>4

-------------------------------------------------------------------------------
(* What the tasks hold after the head was replaced. *)

\* Whatever tasks of u hold, tasks of s with an index in J held before.
HeldFrom(u, s, J) == \A i \in 1..Len(u) : Holds(u[i]) = {} \/ \E j \in J : u[i] = s[j]

LEMMA QuietReplace ==
  ASSUME NEW s, IsSeq(s), s # <<>>, Ordered(s), Apart(s), NEW T, QuietTasks(T),
         NEW u, u = T \o Tail(s)
  PROVE  Ordered(u) /\ Apart(u) /\ HeldFrom(u, s, 2..Len(s))
<1>. DEFINE was(i) == i - Len(T) + 1
<1>1. /\ Len(u) = Len(T) + Len(s) - 1 /\ Len(T) \in Nat /\ Len(s) \in Nat
      /\ \A i \in 1..Len(u) : u[i] = IF i <= Len(T) THEN T[i] ELSE s[i - Len(T) + 1]
  BY Replace, SeqFacts DEF QuietTasks
<1>2. ASSUME NEW i \in 1..Len(u), i <= Len(T)
      PROVE  Holds(u[i]) = {} /\ u[i].do \notin Claimers
  <2>1. i \in 1..Len(T) /\ u[i] = T[i]
    BY <1>1, <1>2
  <2>. QED  BY <2>1 DEF QuietTasks, Quiet
<1>3. ASSUME NEW i \in 1..Len(u), ~(i <= Len(T))
      PROVE  was(i) \in 2..Len(s) /\ u[i] = s[was(i)]
  BY <1>1, <1>3
<1>4. \A i, j \in 1..Len(u) : i < j /\ ~(i <= Len(T)) => ~(j <= Len(T)) /\ was(i) < was(j)
  BY <1>1
<1>5. \A i, j \in 1..Len(u) : i # j => was(i) # was(j)
  BY <1>1
<1>. HIDE DEF was
<1>6. \A i \in 2..Len(s) : i \in 1..Len(s)
  BY <1>1
<1>7. Ordered(u)
  <2>. SUFFICES ASSUME NEW i \in 1..Len(u), NEW j \in 1..Len(u), i < j, u[i].do \in Claimers
                PROVE  Holds(u[j]) = {}
    BY DEF Ordered
  <2>. QED  BY <1>2, <1>3, <1>4, <1>6 DEF Ordered
<1>8. Apart(u)
  <2>. SUFFICES ASSUME NEW i \in 1..Len(u), NEW j \in 1..Len(u), i # j
                PROVE  Holds(u[i]) \cap Holds(u[j]) = {}
    BY DEF Apart
  <2>. QED  BY <1>2, <1>3, <1>5, <1>6 DEF Apart
<1>. QED  BY <1>2, <1>3, <1>7, <1>8 DEF HeldFrom

LEMMA ClaimReplace ==
  ASSUME NEW s, IsSeq(s), s # <<>>, Ordered(s), s[1].do \in Claimers,
         NEW T, IsSeq(T), Ordered(T), Apart(T), NEW u, u = T \o Tail(s)
  PROVE  Ordered(u) /\ Apart(u) /\ HeldFrom(u, T, 1..Len(T))
<1>1. /\ Len(u) = Len(T) + Len(s) - 1 /\ Len(T) \in Nat /\ Len(s) \in Nat /\ 1 \in 1..Len(s)
      /\ \A i \in 1..Len(u) : u[i] = IF i <= Len(T) THEN T[i] ELSE s[i - Len(T) + 1]
  BY Replace, SeqFacts
<1>2. ASSUME NEW i \in 1..Len(u), ~(i <= Len(T))
      PROVE  Holds(u[i]) = {}
  <2>1. /\ i - Len(T) + 1 \in 1..Len(s) /\ 1 < i - Len(T) + 1
        /\ u[i] = s[i - Len(T) + 1]
    BY <1>1, <1>2
  <2>. QED  BY <1>1, <2>1 DEF Ordered
<1>3. \A i \in 1..Len(u) : i <= Len(T) => i \in 1..Len(T) /\ u[i] = T[i]
  BY <1>1
<1>4. Ordered(u)
  <2>. SUFFICES ASSUME NEW i \in 1..Len(u), NEW j \in 1..Len(u), i < j, u[i].do \in Claimers
                PROVE  Holds(u[j]) = {}
    BY DEF Ordered
  <2>1. CASE j <= Len(T)
    <3>1. i <= Len(T)
      BY <1>1, <2>1
    <3>. QED  BY <1>3, <2>1, <3>1 DEF Ordered
  <2>. QED  BY <1>2, <2>1
<1>5. Apart(u)
  <2>. SUFFICES ASSUME NEW i \in 1..Len(u), NEW j \in 1..Len(u), i # j
                PROVE  Holds(u[i]) \cap Holds(u[j]) = {}
    BY DEF Apart
  <2>. QED  BY <1>2, <1>3 DEF Apart
<1>. QED  BY <1>2, <1>3, <1>4, <1>5 DEF HeldFrom

\* What the tasks of p hold after any step: what one of them held before, or
\* what it claims in the step.
LEMMA TasksStep ==
  ASSUME Shapes, ClaimsKept, NEW p \in Proc, Kinds(p)
  PROVE  /\ Ordered(op'[p].todo) /\ Apart(op'[p].todo)
         /\ \A i \in 1..Len(op'[p].todo) : Holds(op'[p].todo[i]) \subseteq op'[p].claims
<1>. PICK s : s = op[p].todo
  OBVIOUS
<1>. PICK u : u = op'[p].todo
  OBVIOUS
<1>1. /\ IsSeq(s) /\ Ordered(s) /\ Apart(s)
      /\ \A i \in 1..Len(s) : Holds(s[i]) \subseteq op[p].claims
  BY DEF Shapes, CommandShape, ClaimsKept
<1>2. CASE Ends(p)
  <2>1. u = <<>>
    BY <1>2 DEF Ends, Dies, Idle
  <2>2. Len(u) = 0
    BY <2>1, NoTasks
  <2>. QED  BY <2>2 DEF Ordered, Apart
<1>3. CASE Goes(p)
  <2>1. PICK T : QuietTasks(T) /\ GoesOn(p, T)
    BY <1>3 DEF Goes
  <2>2. u = T \o Tail(s) /\ op'[p].claims = op[p].claims /\ s # <<>>
    BY <1>3, <2>1 DEF GoesOn, Moves, Goes, Running
  <2>3. Len(s) \in Nat /\ \A j \in 2..Len(s) : j \in 1..Len(s)
    BY <1>1, SeqFacts
  <2>4. Ordered(u) /\ Apart(u) /\ HeldFrom(u, s, 2..Len(s))
    <3>1. T \o Tail(s) = u /\ s # <<>> /\ QuietTasks(T)
      BY <2>1, <2>2
    <3>. QED  BY <1>1, <3>1, QuietReplace, Zenon
  <2>5. \A i \in 1..Len(u) : Holds(u[i]) \subseteq op'[p].claims
    BY <1>1, <2>2, <2>3, <2>4 DEF HeldFrom
  <2>. QED  BY <2>4, <2>5
<1>4. CASE Stays(p) \/ Creates(p)
  BY <1>1, <1>4 DEF Stays, Creates, Moves
<1>5. CASE Claims(p)
  <2>1. PICK T, C : /\ ClaimTasks(p, T, C)
                    /\ Moves(p, T \o Tail(op[p].todo), "begin", NoVolume, op[p].claims \cup C)
    BY <1>5 DEF Claims
  <2>2. /\ u = T \o Tail(s) /\ op'[p].claims = op[p].claims \cup C
        /\ s # <<>> /\ s[1].do \in Claimers
    BY <1>5, <2>1, NowShape DEF Moves, Claims
  <2>3. Ordered(u) /\ Apart(u) /\ HeldFrom(u, T, 1..Len(T))
    <3>1. /\ T \o Tail(s) = u /\ s # <<>> /\ s[1].do \in Claimers
          /\ IsSeq(T) /\ Ordered(T) /\ Apart(T)
      BY <2>1, <2>2 DEF ClaimTasks
    <3>. QED  BY <1>1, <3>1, ClaimReplace, Zenon
  <2>4. \A i \in 1..Len(u) : Holds(u[i]) \subseteq op'[p].claims
    BY <2>1, <2>2, <2>3 DEF ClaimTasks, HeldFrom
  <2>. QED  BY <2>3, <2>4
<1>6. CASE Begins(p)
  BY <1>6 DEF Begins, Ordered, Apart
<1>. QED  BY <1>2, <1>3, <1>4, <1>5, <1>6 DEF Kinds

\* Two commands that claim the same thing are in the history.
LEMMA ClaimsApart ==
  ASSUME Shapes, ClaimsKept, NEW p \in Proc, Kinds(p), NEW q \in Proc, NEW r \in Proc, q # r
  PROVE  op'[q].claims \cap op'[r].claims \subseteq raced'
<1>1. op[q].claims \cap op[r].claims \subseteq raced
  BY DEF ClaimsKept
<1>2. \A x \in Proc \ {p} : op'[x].claims = op[x].claims
  BY DEF Kinds, Ends, Dies, Goes, GoesOn, Stays, Creates, Claims, Begins, Moves, Untouched
<1>3. CASE Ends(p) \/ Begins(p)
  <2>1. op'[p].claims = {} /\ raced' = raced
    BY <1>3 DEF Ends, Dies, Idle, Begins, Keeps
  <2>. QED  BY <1>1, <1>2, <2>1
<1>4. CASE Goes(p) \/ Stays(p) \/ Creates(p)
  <2>1. op'[p].claims = op[p].claims /\ raced' = raced
    BY <1>4 DEF Goes, GoesOn, Stays, Creates, Moves, Keeps
  <2>. QED  BY <1>1, <1>2, <2>1
<1>5. CASE Claims(p)
  <2>1. PICK C : /\ op'[p].claims = op[p].claims \cup C
                 /\ raced' = raced \cup (C \cap UNION {op[x].claims : x \in Proc \ {p}})
    BY <1>5 DEF Claims, Moves
  <2>2. \A x \in Proc \ {p} : C \cap op[x].claims \subseteq raced'
    BY <2>1
  <2>3. raced \subseteq raced'
    BY <2>1
  <2>. QED  BY <1>1, <1>2, <2>1, <2>2, <2>3
<1>. QED  BY <1>3, <1>4, <1>5 DEF Kinds

LEMMA ClaimsKeptStep ==
  ASSUME Shapes, ClaimsKept, NEW p \in Proc, Kinds(p)
  PROVE  ClaimsKept'
<1>1. \A q \in Proc \ {p} : Untouched(q)
  BY DEF Kinds, Ends, Dies, Goes, GoesOn, Stays, Creates, Claims, Begins, Moves
<1>2. \A q \in Proc : /\ Ordered(op'[q].todo) /\ Apart(op'[q].todo)
                      /\ \A i \in 1..Len(op'[q].todo) : Holds(op'[q].todo[i]) \subseteq op'[q].claims
  BY <1>1, TasksStep DEF ClaimsKept, Untouched
<1>. QED  BY <1>2, ClaimsApart DEF ClaimsKept

\* No step lets a container have more than it had, but the creation of one.
LEMMA ContainersStep ==
  ASSUME Shapes, NEW p \in Proc, Kinds(p), ~Creates(p)
  PROVE  /\ raced \subseteq raced'
         /\ \A n \in DOMAIN ct' : n \in DOMAIN ct /\ ct'[n].role = ct[n].role
BY DEF Kinds, Ends, Goes, Stays, Claims, Begins, Keeps

\* The new container has what its task held.
LEMMA CreatedHolds ==
  ASSUME Shapes, ClaimsKept, ClaimsFree, NEW p \in Proc, Creates(p), NEW n, n = Now(p).name
  PROVE  /\ Held(n, ct'[n].role) = Holds(op[p].todo[1])
         /\ \A m \in DOMAIN ct : Holds(op[p].todo[1]) \cap Held(m, ct[m].role) \subseteq raced
<1>1. /\ Now(p) = op[p].todo[1] /\ Now(p).do = "start" /\ op[p].step = "create"
      /\ 1 \in 1..Len(op[p].todo)
  BY NowShape DEF Creates, At
<1>2. ct'[n].role = Now(p).role
  BY CreatedShape
<1>3. Held(n, ct'[n].role) = Holds(op[p].todo[1])
  BY <1>1, <1>2 DEF Holds
<1>. QED  BY <1>1, <1>3 DEF ClaimsFree, At

\* The tasks of a process that does nothing in the step.
LEMMA OthersFree ==
  ASSUME Shapes, ClaimsKept, ClaimsFree, NEW p \in Proc, Kinds(p),
         NEW q \in Proc, q # p, NEW i \in 1..Len(op'[q].todo), NEW n \in DOMAIN ct'
  PROVE  \/ Holds(op'[q].todo[i]) \cap Held(n, ct'[n].role) \subseteq raced'
         \/ i = 1 /\ At(q, "start", "start")' /\ n = Now(q)'.name
<1>1. op'[q].todo = op[q].todo /\ op'[q].step = op[q].step
  BY DEF Kinds, Ends, Dies, Goes, GoesOn, Stays, Creates, Claims, Begins, Moves, Untouched
<1>2. /\ At(q, "start", "start")' <=> At(q, "start", "start")
      /\ Now(q)' = Now(q)
  BY <1>1 DEF At, Now, Running
<1>3. CASE n \in DOMAIN ct /\ ct'[n].role = ct[n].role /\ raced \subseteq raced'
  BY <1>1, <1>2, <1>3 DEF ClaimsFree
<1>4. CASE Creates(p)
  <2>1. raced' = raced
    BY <1>4 DEF Creates
  <2>2. CASE n \in DOMAIN ct
    BY <1>3, <1>4, <2>1, <2>2, CreatedNames
  <2>3. CASE n \notin DOMAIN ct
    <3>1. n = Now(p).name
      BY <1>4, <2>3, CreatedNames
    <3>2. 1 \in 1..Len(op[p].todo)
      BY <1>4, NowShape DEF Creates, At
    <3>3. Held(n, ct'[n].role) \subseteq op[p].claims
      BY <1>4, <3>1, <3>2, CreatedHolds DEF ClaimsKept
    <3>4. Holds(op'[q].todo[i]) \subseteq op[q].claims
      BY <1>1 DEF ClaimsKept
    <3>5. op[p].claims \cap op[q].claims \subseteq raced
      BY DEF ClaimsKept
    <3>. QED  BY <2>1, <3>3, <3>4, <3>5
  <2>. QED  BY <2>2, <2>3
<1>. QED  BY <1>3, <1>4, ContainersStep

LEMMA OwnFree ==
  ASSUME Shapes, ClaimsKept, ClaimsFree, NEW p \in Proc, Kinds(p),
         NEW i \in 1..Len(op'[p].todo), NEW n \in DOMAIN ct'
  PROVE  \/ Holds(op'[p].todo[i]) \cap Held(n, ct'[n].role) \subseteq raced'
         \/ i = 1 /\ At(p, "start", "start")' /\ n = Now(p)'.name
<1>. PICK s : s = op[p].todo
  OBVIOUS
<1>. PICK u : u = op'[p].todo
  OBVIOUS
<1>1. IsSeq(s) /\ Ordered(s) /\ Apart(s)
  BY DEF Shapes, CommandShape, ClaimsKept
<1>2. CASE Ends(p)
  <2>1. u = <<>>
    BY <1>2 DEF Ends, Dies, Idle
  <2>2. Len(u) = 0
    BY <2>1, NoTasks
  <2>. QED  BY <2>2
<1>3. CASE Goes(p)
  <2>1. PICK T : QuietTasks(T) /\ GoesOn(p, T)
    BY <1>3 DEF Goes
  <2>2. T \o Tail(s) = u /\ s # <<>>
    BY <1>3, <2>1 DEF GoesOn, Moves, Goes, Running
  <2>3. HeldFrom(u, s, 2..Len(s))
    BY <1>1, <2>1, <2>2, QuietReplace, Zenon
  <2>4. n \in DOMAIN ct /\ ct'[n].role = ct[n].role /\ raced' = raced
    BY <1>3 DEF Goes, Keeps
  <2>5. CASE Holds(u[i]) = {}
    BY <2>5
  <2>6. CASE \E j \in 2..Len(s) : u[i] = s[j]
    <3>1. PICK j \in 2..Len(s) : u[i] = s[j]
      BY <2>6
    <3>2. j \in 1..Len(s) /\ j # 1
      BY <1>1, SeqFacts
    <3>. QED  BY <2>4, <3>1, <3>2 DEF ClaimsFree
  <2>. QED  BY <2>3, <2>5, <2>6 DEF HeldFrom
<1>4. CASE Stays(p)
  <2>1. op'[p].todo = op[p].todo /\ ~At(p, "start", "start")
    BY <1>4 DEF Stays, Moves
  <2>2. n \in DOMAIN ct /\ ct'[n].role = ct[n].role /\ raced' = raced
    BY <1>4 DEF Stays, Keeps
  <2>. QED  BY <2>1, <2>2 DEF ClaimsFree
<1>5. CASE Creates(p)
  <2>1. /\ op'[p].todo = op[p].todo /\ op'[p].step = "start" /\ raced' = raced
        /\ At(p, "start", "create") /\ op[p].step = "create"
    BY <1>5 DEF Creates, Moves, At
  <2>2. At(p, "start", "start")' /\ Now(p)' = Now(p)
    BY <2>1 DEF At, Now, Running
  <2>3. CASE n \in DOMAIN ct
    <3>1. ct'[n] = ct[n]
      BY <1>5, <2>3, CreatedNames
    <3>. QED  BY <2>1, <2>3, <3>1 DEF ClaimsFree, At
  <2>4. CASE n \notin DOMAIN ct /\ i # 1
    <3>1. n = Now(p).name
      BY <1>5, <2>4, CreatedNames
    <3>2. Held(n, ct'[n].role) = Holds(s[1])
      BY <1>5, <3>1, CreatedHolds
    <3>3. 1 \in 1..Len(s)
      BY <2>1, NowShape DEF At
    <3>4. Holds(s[i]) \cap Holds(s[1]) = {}
      BY <1>1, <2>1, <2>4, <3>3 DEF Apart
    <3>5. op'[p].todo[i] = s[i]
      BY <2>1
    <3>. QED  BY <3>2, <3>4, <3>5
  <2>5. CASE n \notin DOMAIN ct /\ i = 1
    BY <1>5, <2>2, <2>5, CreatedNames
  <2>. QED  BY <2>3, <2>4, <2>5
<1>6. CASE Claims(p)
  <2>1. PICK T, C : /\ ClaimTasks(p, T, C)
                    /\ Moves(p, T \o Tail(op[p].todo), "begin", NoVolume, op[p].claims \cup C)
    BY <1>6 DEF Claims
  <2>2. /\ T \o Tail(s) = u /\ s # <<>> /\ s[1].do \in Claimers
        /\ IsSeq(T) /\ Ordered(T) /\ Apart(T)
    BY <1>6, <2>1, NowShape DEF Moves, Claims, ClaimTasks
  <2>3. HeldFrom(u, T, 1..Len(T))
    BY <1>1, <2>2, ClaimReplace, Zenon
  <2>4. ct' = ct /\ raced \subseteq raced'
    BY <1>6 DEF Claims
  <2>5. \A j \in 1..Len(T) : Holds(T[j]) \cap Held(n, ct'[n].role) \subseteq raced'
    BY <2>1, <2>4 DEF ClaimTasks
  <2>. QED  BY <2>3, <2>5 DEF HeldFrom
<1>7. CASE Begins(p)
  BY <1>7 DEF Begins
<1>. QED  BY <1>2, <1>3, <1>4, <1>5, <1>6, <1>7 DEF Kinds

LEMMA ClaimsFreeStep ==
  ASSUME Shapes, ClaimsKept, ClaimsFree, NEW p \in Proc, Kinds(p)
  PROVE  ClaimsFree'
BY OthersFree, OwnFree DEF ClaimsFree

LEMMA HeldOnceStep ==
  ASSUME Shapes, ClaimsKept, ClaimsFree, HeldOnce, NEW p \in Proc, Kinds(p)
  PROVE  HeldOnce'
<1>. SUFFICES ASSUME NEW n \in DOMAIN ct', NEW m \in DOMAIN ct', n # m
              PROVE  Held(n, ct'[n].role) \cap Held(m, ct'[m].role) \subseteq raced'
  BY DEF HeldOnce
<1>1. CASE ~Creates(p)
  BY <1>1, ContainersStep DEF HeldOnce
<1>2. CASE Creates(p)
  <2>1. raced' = raced
    BY <1>2 DEF Creates
  <2>2. CASE n \in DOMAIN ct /\ m \in DOMAIN ct
    <3>1. ct'[n] = ct[n] /\ ct'[m] = ct[m]
      BY <1>2, <2>2, CreatedNames
    <3>. QED  BY <2>1, <2>2, <3>1 DEF HeldOnce
  <2>3. ASSUME NEW x, NEW y \in DOMAIN ct, x = Now(p).name
        PROVE  Held(x, ct'[x].role) \cap Held(y, ct'[y].role) \subseteq raced
    <3>1. ct'[y] = ct[y]
      BY <1>2, CreatedNames
    <3>. QED  BY <1>2, <2>3, <3>1, CreatedHolds
  <2>4. n = Now(p).name \/ n \in DOMAIN ct
    BY <1>2, CreatedNames
  <2>5. m = Now(p).name \/ m \in DOMAIN ct
    BY <1>2, CreatedNames
  <2>. QED  BY <2>1, <2>2, <2>3, <2>4, <2>5
<1>. QED  BY <1>1, <1>2

-------------------------------------------------------------------------------
(* Ports and masters. *)

PortsInv == Shapes /\ ClaimsKept /\ ClaimsFree /\ HeldOnce

LEMMA InitShapes == Init => Shapes
<1>. SUFFICES ASSUME Init PROVE Shapes
  OBVIOUS
<1>1. \A p \in Proc : op[p] = Idle
  BY DEF Init
<1>2. \A p \in Proc : CommandShape(p)
  BY <1>1, NoTasks DEF CommandShape, Idle, Fields
<1>3. DOMAIN op = Proc
  BY DEF Init
<1>4. CASE DOMAIN ct = {}
  BY <1>2, <1>3, <1>4, FS_EmptySet DEF Shapes
<1>5. CASE ct = [n \in {LegacyExporter} |->
                   [role |-> "exporter", running |-> TRUE, volume |-> NoVolume,
                    maker |-> NoCluster]]
  <2>1. DOMAIN ct = {LegacyExporter} /\ IsFiniteSet(DOMAIN ct)
    BY <1>5, FS_Singleton
  <2>2. LegacyExporter.port = 0
    BY DEF LegacyExporter, Service
  <2>3. ContainerShape(LegacyExporter)
    BY <1>5, <2>2 DEF ContainerShape, OwnVolume, MasterName
  <2>. QED  BY <1>2, <1>3, <2>1, <2>3 DEF Shapes
<1>. QED  BY <1>4, <1>5 DEF Init

LEMMA InitClaims == Init => ClaimsKept /\ ClaimsFree
<1>. SUFFICES ASSUME Init PROVE ClaimsKept /\ ClaimsFree
  OBVIOUS
<1>1. \A p \in Proc : op[p].todo = <<>> /\ op[p].claims = {}
  BY DEF Init, Idle
<1>2. \A p \in Proc : Len(op[p].todo) = 0
  BY <1>1, NoTasks
<1>. QED  BY <1>1, <1>2 DEF ClaimsKept, ClaimsFree, Ordered, Apart

LEMMA InitHeld == Init => HeldOnce
BY DEF Init, HeldOnce

\* A container that exits keeps what it holds.
LEMMA ExitPorts ==
  ASSUME PortsInv, Exits
  PROVE  PortsInv'
<1>. USE DEF PortsInv, Exits
<1>1. Shapes'
  BY KeepsShape, UntouchedShape DEF Shapes
<1>2. ClaimsKept'
  BY DEF ClaimsKept, Untouched, Keeps
<1>3. ClaimsFree'
  <2>1. \A p \in Proc : (At(p, "start", "start")' <=> At(p, "start", "start")) /\ Now(p)' = Now(p)
    BY DEF At, Now, Running, Untouched
  <2>. QED  BY <2>1 DEF ClaimsFree, Keeps, Untouched
<1>4. HeldOnce'
  BY DEF HeldOnce, Keeps
<1>. QED  BY <1>1, <1>2, <1>3, <1>4

LEMMA PortsInvariant == Spec => []PortsInv
<1>1. Init => PortsInv
  BY InitShapes, InitClaims, InitHeld DEF PortsInv
<1>2. PortsInv /\ [Next]_vars => PortsInv'
  <2>1. CASE Next
    BY <2>1, StepKinds, ExitPorts, ShapesStep, ClaimsKeptStep, ClaimsFreeStep, HeldOnceStep
       DEF PortsInv
  <2>2. CASE UNCHANGED vars
    BY <2>2 DEF vars, PortsInv, Shapes, CommandShape, ContainerShape, ClaimsKept, ClaimsFree,
                HeldOnce, At, Now, Running
  <2>. QED  BY <2>1, <2>2
<1>. QED  BY <1>1, <1>2, PTL DEF Spec

\* However many commands run at once, fail half way or are interrupted, two
\* containers have the same port only if two commands allocated it at the same
\* time (docker/manager.go: AllocatePort).
THEOREM PortsStayUnique == Spec => []PortsUnique
<1>1. PortsInv => PortsUnique
  <2>. SUFFICES ASSUME PortsInv, NEW n \in DOMAIN ct, NEW m \in DOMAIN ct,
                       n # m, n.port = m.port, n.port # 0
                PROVE  n.port \in raced
    BY DEF PortsUnique
  <2>1. n.port \in Held(n, ct[n].role) /\ n.port \in Held(m, ct[m].role)
    BY DEF Held
  <2>. QED  BY <2>1 DEF PortsInv, HeldOnce
<1>. QED  BY <1>1, PortsInvariant, PTL

\* Likewise a cluster has two masters only if two commands created it at the
\* same time (cmd/cluster.go: runClusterCreate refuses an existing cluster).
THEOREM OneMasterPerCluster == Spec => []OneMaster
<1>1. PortsInv => OneMaster
  <2>. SUFFICES ASSUME PortsInv, NEW n \in DOMAIN ct, NEW m \in DOMAIN ct, n # m,
                       n.cluster = m.cluster, ct[n].role = "master", ct[m].role = "master"
                PROVE  n.cluster \in raced
    BY DEF OneMaster
  <2>1. n.cluster \in Held(n, ct[n].role) /\ n.cluster \in Held(m, ct[m].role)
    BY DEF Held
  <2>. QED  BY <2>1 DEF PortsInv, HeldOnce
<1>. QED  BY <1>1, PortsInvariant, PTL

-------------------------------------------------------------------------------
(* Volumes. *)

\* A step by which no volume comes, is written to, gets or loses a container;
\* what p puts at risk is leaked from then on.
Silent(p) ==
  /\ vols' = vols /\ used' = used
  /\ leaked \subseteq leaked' /\ AtRisk(p) \subseteq leaked'
  /\ \A v : InUse(ct', v) <=> InUse(ct, v)

LEMMA NothingAtRisk ==
  ASSUME NEW p \in Proc, ~At(p, "start", "create"), ~At(p, "remove", "volume")
  PROVE  AtRisk(p) = {}
BY DEF AtRisk

LEMMA AbortSilent ==
  ASSUME NEW p \in Proc, Abort(p)
  PROVE  Silent(p)
BY DEF Abort, Silent, host

LEMMA FailsSilent ==
  ASSUME Shapes, NEW p \in Proc, Running(p), Fails(p)
  PROVE  Silent(p)
<1>1. CASE At(p, "remove", "begin") /\ InspectFails(p)
  <2>1. AtRisk(p) = {}
    BY <1>1, NothingAtRisk DEF At
  <2>. QED  BY <1>1, <2>1 DEF InspectFails, Silent, host, hist
<1>2. CASE \E T : GoOn(p, Then(p, T))
  BY <1>2 DEF GoOn, Silent, host
<1>. QED  BY <1>1, <1>2, AbortSilent, FailsSteps

LEMMA ProceedSilent ==
  ASSUME NEW p \in Proc, AtRisk(p) = {}, NEW ok, NEW T,
         Proceed(p, ok, T) \/ \E C : Claim(p, ok, C, T)
  PROVE  Silent(p)
<1>1. CASE Abort(p)
  BY <1>1, AbortSilent
<1>2. CASE ~Abort(p)
  BY <1>2 DEF Proceed, Claim, Silent, host, hist
<1>. QED  BY <1>1, <1>2

LEMMA CommandSilent ==
  ASSUME NEW p \in Proc, Command(p)
  PROVE  Silent(p)
<1>1. AtRisk(p) = {}
  <2>1. /\ op[p].step = "begin"
    BY DEF Command, ClusterCreate, CreateAllocate, CreatePlan, MonitorMaster, ClusterRm,
           UnwatchCluster, InstanceAdd, InstanceRm, SentinelAdd, StartSentinel, SentinelRm,
           ObsStart, RemoveLegacy, ObsStop, WorkloadStart, WorkloadStop, Destroy, Sweep, Runs, At
  <2>. QED  BY <2>1, NothingAtRisk DEF At
<1>2. CASE ClusterCreate(p) \/ CreateAllocate(p) \/ InstanceAdd(p) \/ StartSentinel(p)
  <2>1. \E ok, C, T : Claim(p, ok, C, T)
    BY <1>2, Zenon DEF ClusterCreate, CreateAllocate, InstanceAdd, StartSentinel
  <2>. QED  BY <1>1, <2>1, ProceedSilent
<1>3. CASE Destroy(p)
  BY <1>1, <1>3 DEF Destroy, Silent, host, hist
<1>4. CASE \/ ClusterRm(p) \/ InstanceRm(p) \/ SentinelAdd(p) \/ SentinelRm(p)
           \/ ObsStart(p) \/ RemoveLegacy(p) \/ ObsStop(p) \/ CreatePlan(p)
           \/ WorkloadStart(p) \/ WorkloadStop(p) \/ Sweep(p)
           \/ MonitorMaster(p) \/ UnwatchCluster(p)
  <2>1. \E ok, T : Proceed(p, ok, T)
    BY <1>4, Zenon DEF ClusterRm, InstanceRm, SentinelAdd, SentinelRm, ObsStart, RemoveLegacy,
           ObsStop, CreatePlan, WorkloadStart, WorkloadStop, Sweep, MonitorMaster, UnwatchCluster
  <2>. QED  BY <1>1, <2>1, ProceedSilent
<1>. QED  BY <1>2, <1>3, <1>4 DEF Command

\* The calls that do change volumes or containers.
Ensures(p) == EnsureVolume(p)
Makes(p)   == CreateContainer(p) /\ CanCreate(ct, Now(p).name)
Writes(p)  == StartContainer(p) /\ CanStart(ct, net, Now(p).name, p)
Removes(p) == RemoveContainer(p) /\ op[p].name \in DOMAIN ct
Drops(p)   == /\ At(p, "remove", "volume") \/ At(p, "drop", "begin")
              /\ \E v : /\ ~InUse(ct, v)
                        /\ At(p, "remove", "volume") => v = op[p].volume
                        /\ vols' = vols \ {v} /\ used' = used \ {v} /\ leaked' = leaked \ {v}
              /\ ct' = ct

VolumeKinds(p) == Silent(p) \/ Ensures(p) \/ Makes(p) \/ Writes(p) \/ Removes(p) \/ Drops(p)

LEMMA CallVolumes ==
  ASSUME Shapes, NEW p \in Proc, Call(p)
  PROVE  VolumeKinds(p)
<1>1. CASE Fails(p)
  <2>1. Running(p)
    BY DEF Call, EnsureNetwork, EnsureVolume, CreateContainer, StartContainer, Inspect,
           StopContainer, RemoveContainer, RemoveDataVolume, RegisterCluster, ForgetCluster,
           SaveState, AdvanceState, DeleteState, EnsureContainer, RestartContainer, DropVolume,
           RemoveNetwork, At
  <2>. QED  BY <1>1, <2>1, FailsSilent DEF VolumeKinds
<1>2. CASE ~Fails(p)
  <2>1. CASE CreateContainer(p)
    BY <1>2, <2>1 DEF CreateContainer, VolumeKinds, Makes
  <2>2. CASE StartContainer(p)
    BY <1>2, <2>2 DEF StartContainer, VolumeKinds, Writes
  <2>3. CASE RemoveContainer(p)
    BY <1>2, <2>3 DEF RemoveContainer, VolumeKinds, Removes
  <2>4. CASE RemoveDataVolume(p)
    BY <1>2, <2>4 DEF RemoveDataVolume, RemoveVolume, VolumeKinds, Drops
  <2>5. CASE DropVolume(p)
    <3>1. AtRisk(p) = {} /\ ~At(p, "remove", "volume")
      BY <2>5, NothingAtRisk DEF DropVolume, At
    <3>2. CASE Now(p).volumes = {}
      BY <2>5, <3>1, <3>2 DEF DropVolume, VolumeKinds, Silent, host, hist
    <3>3. CASE Now(p).volumes # {}
      BY <1>2, <2>5, <3>1, <3>3 DEF DropVolume, RemoveVolume, VolumeKinds, Drops
    <3>. QED  BY <3>2, <3>3
  <2>6. CASE StopContainer(p)
    <3>1. AtRisk(p) = {}
      BY <2>6, NothingAtRisk DEF StopContainer, At
    <3>2. PICK n \in DOMAIN ct : ct' = [ct EXCEPT ![n].running = FALSE]
      BY <1>2, <2>6 DEF StopContainer
    <3>3. DOMAIN ct' = DOMAIN ct /\ \A m \in DOMAIN ct : ct'[m].volume = ct[m].volume
      BY <3>2 DEF Shapes, ContainerShape
    <3>. QED  BY <1>2, <2>6, <3>1, <3>3 DEF StopContainer, VolumeKinds, Silent, InUse, hist
  <2>7. CASE \/ EnsureNetwork(p) \/ Inspect(p) \/ RegisterCluster(p) \/ ForgetCluster(p)
             \/ SaveState(p) \/ AdvanceState(p) \/ DeleteState(p)
             \/ EnsureContainer(p) \/ RestartContainer(p) \/ RemoveNetwork(p)
    <3>1. op[p].step = "begin"
      BY <2>7 DEF EnsureNetwork, Inspect, RegisterCluster, ForgetCluster, SaveState, AdvanceState,
             DeleteState, EnsureContainer, RestartContainer, RemoveNetwork, At
    <3>2. AtRisk(p) = {}
      BY <3>1, NothingAtRisk DEF At
    <3>3. UNCHANGED <<ct, vols, used, leaked>>
      BY <1>2, <2>7 DEF EnsureNetwork, Inspect, RegisterCluster, ForgetCluster, SaveState,
             AdvanceState, DeleteState, EnsureContainer, RestartContainer, RemoveNetwork,
             host, hist
    <3>. QED  BY <3>2, <3>3 DEF VolumeKinds, Silent
  <2>8. CASE EnsureVolume(p)
    BY <2>8 DEF VolumeKinds, Ensures
  <2>. QED  BY <2>1, <2>2, <2>3, <2>4, <2>5, <2>6, <2>7, <2>8 DEF Call
<1>. QED  BY <1>1, <1>2

\* The same for a whole step; every process but p keeps its tasks.
LEMMA StepVolumes ==
  ASSUME Shapes, ClaimsKept, ClaimsFree, Next
  PROVE  \/ \E n \in DOMAIN ct : Exit(n)
         \/ \E p \in Proc : Kinds(p) /\ VolumeKinds(p)
<1>. SUFFICES ASSUME NEW p \in Proc,
                     \/ \E cmd \in Commands[p] : Begin(p, cmd)
                     \/ Command(p) \/ Call(p) \/ Finish(p)
                     \/ CallFails(p) \/ Interrupt(p)
              PROVE  Kinds(p) /\ VolumeKinds(p)
  BY DEF Next
<1>1. CASE \E cmd \in Commands[p] : Begin(p, cmd)
  <2>1. AtRisk(p) = {}
    BY <1>1, NowShape, NothingAtRisk DEF Begin, At
  <2>. QED  BY <1>1, <2>1, BeginKind DEF Begin, VolumeKinds, Silent, host, hist
<1>2. CASE Command(p)
  <2>1. Kinds(p)
    BY <1>2, QuietCommandKinds, ClusterCreateKind, CreateAllocateKind, CreatePlanKind,
       InstanceAddKind, SentinelAddKind, StartSentinelKind DEF Command
  <2>. QED  BY <1>2, <2>1, CommandSilent DEF VolumeKinds
<1>3. CASE Call(p)
  BY <1>3, CallKinds, CallVolumes
<1>4. CASE Finish(p)
  <2>1. AtRisk(p) = {}
    BY <1>4, NothingAtRisk DEF Finish, Ended, At, Running
  <2>2. Kinds(p)
    BY <1>4, HostKept, DieMoves DEF Finish, Ends, Kinds, host, hist
  <2>. QED  BY <1>4, <2>1, <2>2 DEF Finish, VolumeKinds, Silent, host, hist
<1>5. CASE CallFails(p)
  BY <1>5, FailsKind, FailsSilent DEF CallFails, Kinds, VolumeKinds
<1>6. CASE Interrupt(p)
  BY <1>6, AbortEnds, AbortSilent DEF Interrupt, Kinds, VolumeKinds
<1>. QED  BY <1>1, <1>2, <1>3, <1>4, <1>5, <1>6

LEMMA OthersUntouched ==
  ASSUME NEW p \in Proc, Kinds(p)
  PROVE  \A q \in Proc \ {p} : Untouched(q)
BY DEF Kinds, Ends, Dies, Goes, GoesOn, Stays, Creates, Claims, Begins, Moves

\* What another process has at risk stays at risk unless a container takes it.
LEMMA OthersRisk ==
  ASSUME NEW q \in Proc, Untouched(q), NEW v
  PROVE  /\ v \in AtRisk(q) /\ ~InUse(ct', v) => v \in AtRisk(q)'
         /\ At(q, "remove", "volume") /\ op[q].volume = v =>
              At(q, "remove", "volume")' /\ op'[q].volume = v
BY DEF Untouched, AtRisk, InUse, At, Now, Running

MadeAs(q) == At(q, "start", "start") /\ Now(q).name \in DOMAIN ct /\ ct[Now(q).name].maker = q
             => ct[Now(q).name].volume = Now(q).volume

LEMMA MadeByPlanStep ==
  ASSUME Shapes, MadeByPlan, NEW p \in Proc, Kinds(p)
  PROVE  MadeByPlan'
<1>1. ASSUME NEW q \in Proc, q # p PROVE MadeAs(q)'
  <2>. PICK n : n = Now(q).name
    OBVIOUS
  <2>1. Untouched(q)
    BY <1>1, OthersUntouched
  <2>2. Now(q)' = Now(q) /\ (At(q, "start", "start")' <=> At(q, "start", "start"))
    BY <2>1 DEF Untouched, At, Now, Running
  <2>3. At(q, "start", "start") /\ n \in DOMAIN ct /\ ct[n].maker = q => ct[n].volume = Now(q).volume
    BY DEF MadeByPlan
  <2>4. n \in DOMAIN ct' /\ ct'[n].maker = q =>
          n \in DOMAIN ct /\ ct[n].maker = q /\ ct'[n].volume = ct[n].volume
    <3>1. CASE Creates(p)
      <4>. PICK m : m = Now(p).name
        OBVIOUS
      <4>1. /\ DOMAIN ct' = DOMAIN ct \cup {m} /\ ct'[m].maker = p
            /\ \A x \in DOMAIN ct : x # m /\ ct'[x] = ct[x]
        BY <3>1, CreatedShape
      <4>. QED  BY <1>1, <4>1
    <3>2. CASE ~Creates(p)
      BY <3>2 DEF Kinds, Ends, Goes, Stays, Claims, Begins, Keeps
    <3>. QED  BY <3>1, <3>2
  <2>5. /\ Now(q)'.name = n /\ Now(q)'.volume = Now(q).volume
    BY <2>2
  <2>. QED  BY <2>2, <2>3, <2>4, <2>5 DEF MadeAs
<1>2. MadeAs(p)'
  <2>1. CASE Creates(p)
    <3>. PICK n : n = Now(p).name
      OBVIOUS
    <3>1. Now(p)' = Now(p)
      BY <2>1 DEF Creates, Moves, Now
    <3>2. ct'[n].volume = Now(p).volume
      BY <2>1, CreatedShape
    <3>. QED  BY <3>1, <3>2 DEF MadeAs
  <2>2. CASE ~Creates(p)
    <3>1. op'[p].step # "start"
      BY <2>2 DEF Kinds, Ends, Dies, Idle, Goes, GoesOn, Stays, Claims, Begins, Moves
    <3>. QED  BY <3>1 DEF MadeAs, At
  <2>. QED  BY <2>1, <2>2
<1>. QED  BY <1>1, <1>2 DEF MadeByPlan, MadeAs

-------------------------------------------------------------------------------
(* Each kind of step keeps every volume accounted for. *)

RemovingBy(p, v) == At(p, "remove", "volume") /\ op[p].volume = v

\* What an owned or written volume must have; when it needs it no longer.
Kept(v)    == InUse(ct, v) \/ InProgress(v) \/ v \in leaked
Guarded(v) == InUse(ct, v) \/ Removing(v) \/ v \in leaked
Lost(v)    == v \notin vols' /\ v \notin used'

\* What a step of p does to what volume v has.
Carries(p, v) ==
  /\ InUse(ct, v) => InUse(ct', v) \/ v \in leaked' \/ RemovingBy(p, v)'
  /\ v \in AtRisk(p) => InUse(ct', v) \/ v \in leaked' \/ Lost(v)
  /\ v \in leaked => v \in leaked' \/ Lost(v)
  /\ v \in vols' => v \in vols \/ InUse(ct', v) \/ v \in AtRisk(p)'
  /\ v \in used' => v \in used \/ InUse(ct', v)

NoneAdded == (NoVolume \notin vols => NoVolume \notin vols')
             /\ (NoVolume \notin used => NoVolume \notin used')

LEMMA RemovingRisks ==
  ASSUME NEW p \in Proc, NEW v, v # NoVolume, RemovingBy(p, v)
  PROVE  InUse(ct, v) \/ v \in AtRisk(p)
BY DEF RemovingBy, AtRisk, At

LEMMA SilentCarries ==
  ASSUME NEW p \in Proc, Silent(p), NEW v
  PROVE  Carries(p, v) /\ NoneAdded
BY DEF Silent, Carries, NoneAdded

LEMMA EnsuresCarries ==
  ASSUME Shapes, NEW p \in Proc, Ensures(p), NEW v, v # NoVolume
  PROVE  Carries(p, v) /\ NoneAdded
<1>1. /\ At(p, "start", "begin")
      /\ vols' = vols \cup ({Now(p).volume} \ {NoVolume})
      /\ op' = Step(p, "create")
      /\ ct' = ct /\ used' = used /\ leaked' = leaked
  BY DEF Ensures, EnsureVolume, hist
<1>2. AtRisk(p) = {}
  BY <1>1, NothingAtRisk DEF At
<1>3. op'[p].todo = op[p].todo /\ op'[p].step = "create"
  BY <1>1, StepMoves DEF Moves
<1>4. At(p, "start", "create")' /\ Now(p)' = Now(p)
  BY <1>1, <1>3 DEF At, Now, Running
<1>5. v = Now(p).volume => v \in AtRisk(p)' \/ InUse(ct', v)
  BY <1>4 DEF AtRisk
<1>. QED  BY <1>1, <1>2, <1>5 DEF Carries, NoneAdded

LEMMA MakesCarries ==
  ASSUME Shapes, NEW p \in Proc, Makes(p), NEW v, v # NoVolume
  PROVE  Carries(p, v) /\ NoneAdded
<1>. PICK n : n = Now(p).name
  OBVIOUS
<1>1. /\ At(p, "start", "create")
      /\ ct' = With(ct, n, Now(p).role, Now(p).volume, p)
      /\ vols' = vols \cup ({Now(p).volume} \ {NoVolume})
      /\ used' = used /\ leaked' = leaked
  BY DEF Makes, CreateContainer, hist
<1>2. n \notin DOMAIN ct
  BY DEF Makes, CanCreate
<1>3. /\ DOMAIN ct' = DOMAIN ct \cup {n}
      /\ \A m \in DOMAIN ct : ct'[m] = ct[m]
      /\ ct'[n].volume = Now(p).volume
  BY <1>1, <1>2 DEF With
<1>4. InUse(ct', Now(p).volume) /\ (InUse(ct, v) => InUse(ct', v))
  BY <1>3 DEF InUse
<1>5. AtRisk(p) \subseteq {Now(p).volume}
  BY <1>1 DEF AtRisk
<1>. QED  BY <1>1, <1>4, <1>5 DEF Carries, NoneAdded

LEMMA WritesCarries ==
  ASSUME Shapes, MadeByPlan, NEW p \in Proc, Writes(p), NEW v, v # NoVolume
  PROVE  Carries(p, v) /\ NoneAdded
<1>. PICK n : n = Now(p).name
  OBVIOUS
<1>1. /\ At(p, "start", "start")
      /\ n \in DOMAIN ct /\ ct[n].maker = p
      /\ ct' = [ct EXCEPT ![n].running = TRUE]
      /\ used' = used \cup ({Now(p).volume} \ {NoVolume})
      /\ vols' = vols /\ leaked' = leaked
  BY DEF Writes, StartContainer, CanStart
<1>2. DOMAIN ct' = DOMAIN ct /\ \A m \in DOMAIN ct : ct'[m].volume = ct[m].volume
  BY <1>1 DEF Shapes, ContainerShape
<1>3. InUse(ct, v) <=> InUse(ct', v)
  BY <1>2 DEF InUse
<1>4. ct[n].volume = Now(p).volume
  BY <1>1 DEF MadeByPlan
<1>5. v = Now(p).volume => InUse(ct', v)
  BY <1>1, <1>3, <1>4 DEF InUse
<1>6. AtRisk(p) = {}
  BY <1>1, NothingAtRisk DEF At
<1>. QED  BY <1>1, <1>3, <1>5, <1>6 DEF Carries, NoneAdded

LEMMA RemovesCarries ==
  ASSUME Shapes, NEW p \in Proc, Removes(p), NEW v, v # NoVolume
  PROVE  Carries(p, v) /\ NoneAdded
<1>. PICK n : n = op[p].name
  OBVIOUS
<1>1. /\ At(p, "remove", "rm")
      /\ n \in DOMAIN ct
      /\ ct' = Without(ct, n)
      /\ leaked' = leaked \cup ({ct[n].volume} \ {op[p].volume, NoVolume})
      /\ op[p].volume # NoVolume => op' = Step(p, "volume")
      /\ vols' = vols /\ used' = used
  BY DEF Removes, RemoveContainer
<1>2. AtRisk(p) = {}
  BY <1>1, NothingAtRisk DEF At
<1>3. DOMAIN ct' = DOMAIN ct \ {n} /\ \A m \in DOMAIN ct' : ct'[m] = ct[m]
  BY <1>1 DEF Without, Restrict
<1>4. InUse(ct, v) => InUse(ct', v) \/ v = ct[n].volume
  BY <1>3 DEF InUse
<1>5. v = op[p].volume => RemovingBy(p, v)'
  <2>. HAVE v = op[p].volume
  <2>1. op' = Step(p, "volume")
    BY <1>1
  <2>2. op'[p].todo = op[p].todo /\ op'[p].step = "volume" /\ op'[p].volume = op[p].volume
    BY <2>1, StepMoves DEF Moves
  <2>. QED  BY <1>1, <2>2 DEF RemovingBy, At, Now, Running
<1>. QED  BY <1>1, <1>2, <1>4, <1>5 DEF Carries, NoneAdded

LEMMA DropsCarries ==
  ASSUME NEW p \in Proc, Drops(p), NEW v
  PROVE  Carries(p, v) /\ NoneAdded
<1>. PICK u : /\ At(p, "remove", "volume") => u = op[p].volume
              /\ vols' = vols \ {u} /\ used' = used \ {u} /\ leaked' = leaked \ {u}
  BY DEF Drops
<1>1. ct' = ct
  BY DEF Drops
<1>2. AtRisk(p) \subseteq {u}
  <2>1. CASE At(p, "remove", "volume")
    BY <2>1 DEF AtRisk, At
  <2>2. CASE At(p, "drop", "begin")
    BY <2>2, NothingAtRisk DEF At
  <2>. QED  BY <2>1, <2>2 DEF Drops
<1>3. v = u => Lost(v)
  BY DEF Lost
<1>. QED  BY <1>1, <1>2, <1>3 DEF Carries, NoneAdded

LEMMA StepCarries ==
  ASSUME Shapes, MadeByPlan, NEW p \in Proc, VolumeKinds(p), NEW v, v # NoVolume
  PROVE  Carries(p, v) /\ NoneAdded
BY SilentCarries, EnsuresCarries, MakesCarries, WritesCarries, RemovesCarries, DropsCarries
   DEF VolumeKinds

LEMMA OwnedStep ==
  ASSUME NEW p \in Proc, \A q \in Proc \ {p} : Untouched(q),
         NEW v, v # NoVolume, Carries(p, v), v \in vols => Kept(v)
  PROVE  v \in vols' => InUse(ct', v) \/ InProgress(v)' \/ v \in leaked'
<1>. SUFFICES ASSUME v \in vols', ~InUse(ct', v), v \notin leaked'
              PROVE  \E q \in Proc : v \in AtRisk(q)'
  BY DEF InProgress
<1>1. RemovingBy(p, v)' => v \in AtRisk(p)'
  BY DEF RemovingBy, AtRisk, At
<1>2. ASSUME NEW q \in Proc, v \in AtRisk(q) PROVE v \in AtRisk(q)'
  <2>1. q # p
    BY <1>2 DEF Carries, Lost
  <2>. QED  BY <1>2, <2>1, OthersRisk
<1>3. v \in vols => InUse(ct, v) \/ InProgress(v)
  BY DEF Kept, Carries, Lost
<1>. QED  BY <1>1, <1>2, <1>3 DEF Carries, InProgress

LEMMA UsedStep ==
  ASSUME NEW p \in Proc, \A q \in Proc \ {p} : Untouched(q),
         NEW v, v # NoVolume, Carries(p, v), v \in used => Guarded(v)
  PROVE  v \in used' => InUse(ct', v) \/ Removing(v)' \/ v \in leaked'
<1>. SUFFICES ASSUME v \in used', ~InUse(ct', v), v \notin leaked'
              PROVE  \E q \in Proc : RemovingBy(q, v)'
  BY DEF Removing, RemovingBy
<1>1. InUse(ct, v) => RemovingBy(p, v)'
  BY DEF Carries
<1>2. ASSUME NEW q \in Proc, RemovingBy(q, v) PROVE \E r \in Proc : RemovingBy(r, v)'
  <2>1. CASE q = p
    <3>1. InUse(ct, v)
      BY <1>2, <2>1, RemovingRisks DEF Carries, Lost
    <3>. QED  BY <1>1, <3>1
  <2>2. CASE q # p
    BY <1>2, <2>2, OthersRisk DEF RemovingBy
  <2>. QED  BY <2>1, <2>2
<1>3. v \in used
  BY DEF Carries
<1>4. InUse(ct, v) \/ Removing(v)
  BY <1>3 DEF Guarded, Carries, Lost
<1>. QED  BY <1>1, <1>2, <1>4 DEF Removing, RemovingBy

LEMMA VolumesStep ==
  ASSUME Shapes, VolumesInv, NEW p \in Proc, Kinds(p), VolumeKinds(p)
  PROVE  VolumesInv'
<1>1. \A q \in Proc \ {p} : Untouched(q)
  BY OthersUntouched
<1>2. MadeByPlan'
  BY MadeByPlanStep DEF VolumesInv
<1>3. \A v : v # NoVolume => Carries(p, v) /\ NoneAdded
  BY StepCarries DEF VolumesInv
<1>4. NoneAdded
  <2>1. \E v : v # NoVolume
    <3>1. {NoVolume} # NoVolume \/ {} # NoVolume
      OBVIOUS
    <3>. QED  BY <3>1
  <2>. QED  BY <1>3, <2>1
<1>5. NoVolume \notin vols' /\ NoVolume \notin used'
  BY <1>4 DEF NoneAdded, VolumesInv, UsedKept
<1>6. VolumesOwned'
  <2>. SUFFICES ASSUME NEW v \in vols'
                PROVE  InUse(ct', v) \/ InProgress(v)' \/ v \in leaked'
    BY DEF VolumesOwned
  <2>1. v # NoVolume
    BY <1>5
  <2>2. v \in vols => Kept(v)
    BY DEF VolumesInv, VolumesOwned, Kept
  <2>. QED  BY <1>1, <1>3, <2>1, <2>2, OwnedStep
<1>7. UsedKept'
  <2>. SUFFICES ASSUME NEW v \in used'
                PROVE  v # NoVolume /\ (InUse(ct', v) \/ Removing(v)' \/ v \in leaked')
    BY DEF UsedKept
  <2>1. v # NoVolume
    BY <1>5
  <2>2. v \in used => Guarded(v)
    BY DEF VolumesInv, UsedKept, Guarded
  <2>. QED  BY <1>1, <1>3, <2>1, <2>2, UsedStep
<1>. QED  BY <1>2, <1>5, <1>6, <1>7 DEF VolumesInv

\* A container that exits keeps the volume it mounts.
LEMMA ExitVolumes ==
  ASSUME Shapes, VolumesInv, NEW n \in DOMAIN ct, Exit(n)
  PROVE  VolumesInv'
<1>1. /\ DOMAIN ct' = DOMAIN ct
      /\ \A m \in DOMAIN ct : ct'[m].volume = ct[m].volume /\ ct'[m].maker = ct[m].maker
  BY DEF Exit, Shapes, ContainerShape
<1>2. \A q \in Proc : Untouched(q)
  BY ExitKind DEF Exits
<1>3. vols' = vols /\ used' = used /\ leaked' = leaked
  BY DEF Exit
<1>4. \A v : InUse(ct', v) <=> InUse(ct, v)
  BY <1>1 DEF InUse
<1>5. ASSUME NEW q \in Proc, NEW v
      PROVE  /\ v \in AtRisk(q) /\ ~InUse(ct', v) => v \in AtRisk(q)'
             /\ At(q, "remove", "volume") /\ op[q].volume = v =>
                  At(q, "remove", "volume")' /\ op'[q].volume = v
  BY <1>2, OthersRisk
<1>6. MadeByPlan'
  <2>1. \A q \in Proc : (At(q, "start", "start")' <=> At(q, "start", "start")) /\ Now(q)' = Now(q)
    BY <1>2 DEF At, Now, Running, Untouched
  <2>. QED  BY <1>1, <2>1 DEF VolumesInv, MadeByPlan
<1>7. VolumesOwned' /\ UsedKept'
  BY <1>3, <1>4, <1>5 DEF VolumesInv, VolumesOwned, UsedKept, InProgress, Removing
<1>. QED  BY <1>3, <1>6, <1>7 DEF VolumesInv

LEMMA VolumesInvariant == Spec => [](PortsInv /\ VolumesInv)
<1>1. Init => VolumesInv
  <2>. SUFFICES ASSUME Init PROVE VolumesInv
    OBVIOUS
  <2>1. vols = {} /\ used = {} /\ \A p \in Proc : op[p].todo = <<>>
    BY DEF Init, Idle
  <2>. QED  BY <2>1 DEF VolumesInv, VolumesOwned, UsedKept, MadeByPlan, At, Running
<1>2. PortsInv /\ VolumesInv /\ [Next]_vars => VolumesInv'
  <2>1. CASE PortsInv /\ VolumesInv /\ Next
    BY <2>1, StepVolumes, ExitVolumes, VolumesStep DEF PortsInv
  <2>2. CASE VolumesInv /\ UNCHANGED vars
    BY <2>2 DEF vars, VolumesInv, VolumesOwned, UsedKept, MadeByPlan, InProgress, Removing,
                AtRisk, InUse, At, Now, Running
  <2>. QED  BY <2>1, <2>2
<1>. QED  BY <1>1, <1>2, PortsInvariant, PTL DEF Spec

\* No command that fails half way, is interrupted or runs beside others leaves
\* a data volume that nothing leads to, unless a call on that volume failed
\* (docker/manager.go:611-641, StopAndRemove).
THEOREM VolumesAccounted == Spec => []VolumesOwned
BY VolumesInvariant, PTL DEF VolumesInv

\* An instance that is created finds its volume empty, unless an earlier
\* instance's volume could not be removed or is being removed at that moment
\* (docker/volume.go:27-38 takes an existing volume for the instance's own).
THEOREM NewInstancesAreEmpty == Spec => NewInstanceIsEmpty
<1>1. PortsInv /\ VolumesInv /\ [Next]_vars =>
        [\A n \in DOMAIN ct' \ DOMAIN ct :
           ct'[n].volume \in used => ct'[n].volume \in leaked \/ Removing(ct'[n].volume)]_vars
  <2>. SUFFICES ASSUME PortsInv, VolumesInv, Next,
                       NEW n \in DOMAIN ct' \ DOMAIN ct, ct'[n].volume \in used
                PROVE  ct'[n].volume \in leaked \/ Removing(ct'[n].volume)
    OBVIOUS
  <2>. PICK v : v = ct'[n].volume
    OBVIOUS
  <2>. PICK p \in Proc : Kinds(p)
    BY StepKinds DEF PortsInv, Exits, Keeps
  <2>1. Shapes /\ Shapes'
    BY ShapesStep DEF PortsInv
  <2>2. v # NoVolume /\ Guarded(v)
    BY DEF VolumesInv, UsedKept, Guarded
  <2>3. ~InUse(ct, v)
    <3>. SUFFICES ASSUME NEW m \in DOMAIN ct, ct[m].volume = v PROVE FALSE
      BY DEF InUse
    <3>1. OwnVolume(m, v)
      BY <2>1 DEF Shapes, ContainerShape
    <3>2. OwnVolume(n, v)
      BY <2>1 DEF Shapes, ContainerShape
    <3>3. m.cluster = n.cluster /\ m.port = n.port
      BY <2>2, <3>1, <3>2 DEF OwnVolume, RedisDataVolumeName
    <3>4. m = n
      BY <2>2, <3>1, <3>2, <3>3 DEF OwnVolume
    <3>. QED  BY <3>4
  <2>. QED  BY <2>2, <2>3 DEF Guarded
<1>. QED  BY <1>1, VolumesInvariant, PTL DEF Spec, NewInstanceIsEmpty

-------------------------------------------------------------------------------
(* What a completed command leaves.  A command of which no call failed and  *)
(* beside which no other ran is followed task by task.                      *)

Smooth(p, c) == op[p].cmd.do = c /\ op[p].clean /\ op[p].alone

\* The step is the process's own: the others keep what they have, and the
\* command ends or stays the same one.
Own(p) ==
  /\ DOMAIN op' = Proc
  /\ \A q \in Proc \ {p} : op'[q] = op[q]
  /\ \/ op'[p] = Idle
     \/ /\ op'[p].cmd = op[p].cmd /\ op'[p].alone = op[p].alone
        /\ op'[p].clean => op[p].clean
        /\ op'[p].steady = op[p].steady

LEMMA StepForm ==
  ASSUME Shapes, NEW p \in Proc, NEW st, op' = Step(p, st)
  PROVE  /\ Own(p) /\ op'[p].todo = op[p].todo /\ op'[p].step = st
         /\ op'[p].name = op[p].name /\ op'[p].seen = op[p].seen
         /\ op'[p].volume = op[p].volume /\ op'[p].cmd = op[p].cmd
BY DEF Shapes, CommandShape, Fields, Step, Own

LEMMA ThenForm ==
  ASSUME Shapes, NEW p \in Proc, NEW T, op' = Then(p, T)
  PROVE  /\ Own(p) /\ op'[p].todo = T \o Tail(op[p].todo) /\ op'[p].step = "begin"
         /\ op'[p].seen = op[p].seen /\ op'[p].cmd = op[p].cmd
BY DEF Shapes, CommandShape, Fields, Then, Own

LEMMA GoOnForm ==
  ASSUME Shapes, NEW p \in Proc, NEW T, op' = [Then(p, T) EXCEPT ![p].clean = FALSE]
  PROVE  Own(p) /\ ~op'[p].clean
BY DEF Shapes, CommandShape, Fields, Then, Own

LEMMA SeenForm ==
  ASSUME Shapes, NEW p \in Proc, NEW T, NEW S, op' = [Then(p, T) EXCEPT ![p].seen = S]
  PROVE  /\ Own(p) /\ op'[p].todo = T \o Tail(op[p].todo) /\ op'[p].step = "begin"
         /\ op'[p].seen = S /\ op'[p].cmd = op[p].cmd
BY DEF Shapes, CommandShape, Fields, Then, Own

LEMMA ClaimForm ==
  ASSUME Shapes, NEW p \in Proc, NEW T, NEW C, op' = [Then(p, T) EXCEPT ![p].claims = @ \cup C]
  PROVE  /\ Own(p) /\ op'[p].todo = T \o Tail(op[p].todo) /\ op'[p].step = "begin"
         /\ op'[p].seen = op[p].seen /\ op'[p].cmd = op[p].cmd
BY DEF Shapes, CommandShape, Fields, Then, Own

LEMMA InspectForm ==
  ASSUME Shapes, NEW p \in Proc, NEW n, NEW v,
         op' = [op EXCEPT ![p].step = "stop", ![p].name = n, ![p].volume = v]
  PROVE  /\ Own(p) /\ op'[p].todo = op[p].todo /\ op'[p].step = "stop"
         /\ op'[p].name = n /\ op'[p].seen = op[p].seen /\ op'[p].cmd = op[p].cmd
BY DEF Shapes, CommandShape, Fields, Own

LEMMA UncleanForm ==
  ASSUME Shapes, NEW p \in Proc, NEW n,
         op' = [op EXCEPT ![p].step = "stop", ![p].name = n, ![p].volume = NoVolume,
                          ![p].clean = FALSE]
  PROVE  Own(p) /\ ~op'[p].clean
BY DEF Shapes, CommandShape, Fields, Own

LEMMA DieForm ==
  ASSUME Shapes, NEW p \in Proc, op' = Die(p)
  PROVE  Own(p) /\ op'[p] = Idle
BY DEF Shapes, CommandShape, Die, Own

LEMMA IdleFields == Idle.cmd = Task("none") /\ Idle.todo = <<>>
BY DEF Idle

\* A call that fails ends the command or leaves it unclean.
LEMMA FailsSpoil ==
  ASSUME Shapes, NEW p \in Proc, Running(p), Fails(p)
  PROVE  Own(p) /\ (op'[p] = Idle \/ ~op'[p].clean)
<1>1. CASE Abort(p)
  BY <1>1, DieForm DEF Abort
<1>2. CASE At(p, "remove", "begin") /\ InspectFails(p)
  BY <1>2, UncleanForm DEF InspectFails
<1>3. CASE \E T : QuietTasks(T) /\ GoOn(p, Then(p, T))
  <2>1. PICK T : GoOn(p, Then(p, T))
    BY <1>3
  <2>2. op' = [Then(p, T) EXCEPT ![p].clean = FALSE]
    BY <2>1 DEF GoOn
  <2>. QED  BY <2>2, GoOnForm
<1>. QED  BY <1>1, <1>2, <1>3, FailsSteps

\* The action a task calls for.
LEMMA Acts ==
  ASSUME NEW p \in Proc, Command(p) \/ Call(p)
  PROVE  /\ Running(p)
         /\ Now(p).do = "network" => EnsureNetwork(p)
         /\ Now(p).do = "start" => EnsureVolume(p) \/ CreateContainer(p) \/ StartContainer(p)
         /\ Now(p).do = "remove" => \/ Inspect(p) \/ StopContainer(p)
                                    \/ RemoveContainer(p) \/ RemoveDataVolume(p)
         /\ Now(p).do = "monitor" => MonitorMaster(p)
         /\ Now(p).do = "register" => RegisterCluster(p)
         /\ Now(p).do = "forget" => ForgetCluster(p)
         /\ Now(p).do = "unwatch" => UnwatchCluster(p)
         /\ Now(p).do = "save" => SaveState(p)
         /\ Now(p).do = "delete" => DeleteState(p)
         /\ Now(p).do = "ensure" => EnsureContainer(p)
         /\ Now(p).do = "restart" => RestartContainer(p)
         /\ Now(p).do = "drop" => DropVolume(p)
         /\ Now(p).do = "drop network" => RemoveNetwork(p)
         /\ Now(p).do = "cluster create" => ClusterCreate(p)
         /\ Now(p).do = "allocate" => CreateAllocate(p) \/ CreatePlan(p)
         /\ Now(p).do = "cluster rm" => ClusterRm(p)
         /\ Now(p).do = "instance add" => InstanceAdd(p)
         /\ Now(p).do = "sentinel add" => SentinelAdd(p)
         /\ Now(p).do = "start sentinel" => StartSentinel(p)
         /\ Now(p).do = "obs start" => ObsStart(p)
         /\ Now(p).do = "legacy" => RemoveLegacy(p)
         /\ Now(p).do = "workload start" => WorkloadStart(p)
         /\ Now(p).do = "destroy" => Destroy(p)
         /\ Now(p).do = "sweep" => Sweep(p)
<1>1. EnsureNetwork(p) => Running(p) /\ Now(p).do = "network"
  BY DEF EnsureNetwork, At
<1>2. EnsureVolume(p) \/ CreateContainer(p) \/ StartContainer(p) =>
        Running(p) /\ Now(p).do = "start"
  BY DEF EnsureVolume, CreateContainer, StartContainer, At
<1>3. Inspect(p) \/ StopContainer(p) \/ RemoveContainer(p) \/ RemoveDataVolume(p) =>
        Running(p) /\ Now(p).do = "remove"
  BY DEF Inspect, StopContainer, RemoveContainer, RemoveDataVolume, At
<1>4. /\ MonitorMaster(p) => Running(p) /\ Now(p).do = "monitor"
      /\ UnwatchCluster(p) => Running(p) /\ Now(p).do = "unwatch"
      /\ RegisterCluster(p) => Running(p) /\ Now(p).do = "register"
      /\ ForgetCluster(p) => Running(p) /\ Now(p).do = "forget"
  BY DEF MonitorMaster, UnwatchCluster, RegisterCluster, ForgetCluster, Runs, At
<1>9. /\ SaveState(p) => Running(p) /\ Now(p).do = "save"
      /\ AdvanceState(p) => Running(p) /\ Now(p).do = "advance"
      /\ DeleteState(p) => Running(p) /\ Now(p).do = "delete"
  BY DEF SaveState, AdvanceState, DeleteState, At
<1>5. /\ EnsureContainer(p) => Running(p) /\ Now(p).do = "ensure"
      /\ RestartContainer(p) => Running(p) /\ Now(p).do = "restart"
      /\ DropVolume(p) => Running(p) /\ Now(p).do = "drop"
      /\ RemoveNetwork(p) => Running(p) /\ Now(p).do = "drop network"
  BY DEF EnsureContainer, RestartContainer, DropVolume, RemoveNetwork, At
<1>6. /\ ClusterCreate(p) => Running(p) /\ Now(p).do = "cluster create"
      /\ CreateAllocate(p) \/ CreatePlan(p) => Running(p) /\ Now(p).do = "allocate"
      /\ ClusterRm(p) => Running(p) /\ Now(p).do = "cluster rm"
      /\ InstanceAdd(p) => Running(p) /\ Now(p).do = "instance add"
      /\ InstanceRm(p) => Running(p) /\ Now(p).do = "instance rm"
  BY DEF ClusterCreate, CreateAllocate, CreatePlan, ClusterRm, InstanceAdd, InstanceRm, Runs, At
<1>7. /\ SentinelAdd(p) => Running(p) /\ Now(p).do = "sentinel add"
      /\ StartSentinel(p) => Running(p) /\ Now(p).do = "start sentinel"
      /\ SentinelRm(p) => Running(p) /\ Now(p).do = "sentinel rm"
      /\ ObsStart(p) => Running(p) /\ Now(p).do = "obs start"
      /\ RemoveLegacy(p) => Running(p) /\ Now(p).do = "legacy"
      /\ ObsStop(p) => Running(p) /\ Now(p).do = "obs stop"
  BY DEF SentinelAdd, StartSentinel, SentinelRm, ObsStart, RemoveLegacy, ObsStop, Runs, At
<1>8. /\ WorkloadStart(p) => Running(p) /\ Now(p).do = "workload start"
      /\ WorkloadStop(p) => Running(p) /\ Now(p).do = "workload stop"
      /\ Destroy(p) => Running(p) /\ Now(p).do = "destroy"
      /\ Sweep(p) => Running(p) /\ Now(p).do = "sweep"
  BY DEF WorkloadStart, WorkloadStop, Destroy, Sweep, Runs, At
<1>. PICK t : t = Now(p).do
  OBVIOUS
<1>. QED
  BY <1>1, <1>2, <1>3, <1>4, <1>5, <1>6, <1>7, <1>8, <1>9 DEF Command, Call

LEMMA ProceedForm ==
  ASSUME Shapes, NEW p \in Proc, NEW ok, NEW T, Proceed(p, ok, T)
  PROVE  /\ Own(p)
         /\ \/ op'[p] = Idle
            \/ ok /\ op' = Then(p, T) /\ UNCHANGED <<host, given, hist>>
BY DieForm, ThenForm DEF Proceed, Abort

LEMMA ClaimsForm ==
  ASSUME Shapes, NEW p \in Proc, NEW ok, NEW C, NEW T, Claim(p, ok, C, T)
  PROVE  /\ Own(p)
         /\ \/ op'[p] = Idle
            \/ /\ ok /\ op' = [Then(p, T) EXCEPT ![p].claims = @ \cup C]
               /\ UNCHANGED <<host, given, used, leaked, cut>>
BY DieForm, ClaimForm DEF Claim, Abort

LEMMA CommandOwn ==
  ASSUME Shapes, NEW p \in Proc, Command(p)
  PROVE  Own(p)
<1>1. CASE ClusterCreate(p) \/ InstanceAdd(p) \/ StartSentinel(p) \/ CreateAllocate(p)
  <2>1. \E ok, C, T : Claim(p, ok, C, T)
    BY <1>1 DEF ClusterCreate, InstanceAdd, StartSentinel, CreateAllocate
  <2>. QED  BY <2>1, ClaimsForm
<1>2. CASE \/ ClusterRm(p) \/ InstanceRm(p) \/ SentinelAdd(p) \/ SentinelRm(p)
           \/ ObsStart(p) \/ RemoveLegacy(p) \/ ObsStop(p)
           \/ WorkloadStart(p) \/ WorkloadStop(p) \/ Sweep(p)
           \/ CreatePlan(p) \/ MonitorMaster(p) \/ UnwatchCluster(p)
  <2>1. \E ok, T : Proceed(p, ok, T)
    BY <1>2, Zenon DEF ClusterRm, InstanceRm, SentinelAdd, SentinelRm, ObsStart, RemoveLegacy,
           ObsStop, WorkloadStart, WorkloadStop, Sweep, CreatePlan, MonitorMaster, UnwatchCluster
  <2>. QED  BY <2>1, ProceedForm
<1>3. CASE Destroy(p)
  <2>1. \E T, S : op' = [Then(p, T) EXCEPT ![p].seen = S]
    BY <1>3 DEF Destroy, NextTask
  <2>. QED  BY <2>1, SeenForm
<1>. QED  BY <1>1, <1>2, <1>3 DEF Command

LEMMA CallOwn ==
  ASSUME Shapes, NEW p \in Proc, Call(p)
  PROVE  Own(p)
<1>0. Running(p)
  BY Acts
<1>1. CASE Fails(p)
  BY <1>0, <1>1, FailsSpoil
<1>2. CASE op' = NextTask(p)
  BY <1>2, ThenForm DEF NextTask
<1>3. CASE \E T : op' = Then(p, T)
  BY <1>3, ThenForm
<1>4. CASE \E st : op' = Step(p, st)
  BY <1>4, StepForm
<1>5. CASE op' = Removed(p)
  BY <1>3, <1>5, RemovedIsThen
<1>6. CASE \E n, v : op' = [op EXCEPT ![p].step = "stop", ![p].name = n, ![p].volume = v]
  BY <1>6, InspectForm
<1>7. CASE EnsureNetwork(p) \/ EnsureVolume(p) \/ CreateContainer(p) \/ StartContainer(p)
  BY <1>1, <1>2, <1>4, <1>7 DEF EnsureNetwork, EnsureVolume, CreateContainer, StartContainer
<1>8. CASE Inspect(p)
  BY <1>2, <1>6, <1>8 DEF Inspect
<1>9. CASE StopContainer(p) \/ RemoveContainer(p) \/ RemoveDataVolume(p)
  BY <1>1, <1>4, <1>5, <1>9 DEF StopContainer, RemoveContainer, RemoveDataVolume, RemoveVolume
<1>10. CASE SaveState(p) \/ AdvanceState(p) \/ DeleteState(p)
  BY <1>2, <1>3, <1>10 DEF SaveState, AdvanceState, DeleteState
<1>13. CASE RegisterCluster(p) \/ ForgetCluster(p)
  BY <1>1, <1>2, <1>3, <1>13 DEF RegisterCluster, ForgetCluster
<1>11. CASE EnsureContainer(p) \/ RestartContainer(p)
  BY <1>2, <1>3, <1>11 DEF EnsureContainer, RestartContainer
<1>12. CASE DropVolume(p) \/ RemoveNetwork(p)
  BY <1>1, <1>2, <1>3, <1>12 DEF DropVolume, RemoveVolume, RemoveNetwork
<1>. QED  BY <1>7, <1>8, <1>9, <1>10, <1>11, <1>12, <1>13 DEF Call

\* A container that exits leaves the commands what they had, but for a mark, and
\* the host the names and the volumes it had.
LEMMA ExitForm ==
  ASSUME Shapes, NEW n \in DOMAIN ct, Exit(n)
  PROVE  /\ DOMAIN op' = Proc
         /\ \A q \in Proc : op'[q] = [op[q] EXCEPT !.steady = FALSE]
         /\ \A q \in Proc : /\ op'[q].cmd = op[q].cmd /\ op'[q].todo = op[q].todo
                            /\ op'[q].step = op[q].step /\ op'[q].name = op[q].name
                            /\ op'[q].clean = op[q].clean /\ op'[q].alone = op[q].alone
                            /\ op'[q].seen = op[q].seen /\ op'[q].steady = FALSE
                            /\ op'[q].volume = op[q].volume
         /\ DOMAIN ct' = DOMAIN ct
         /\ \A m \in DOMAIN ct : /\ ct'[m].volume = ct[m].volume
                                 /\ m # n => ct'[m].running = ct[m].running
         /\ cut' = cut \cup {n}
         /\ UNCHANGED <<vols, bare, net, files, monitors, used, leaked>>
<1>1. \A q \in Proc : op'[q] = [op[q] EXCEPT !.steady = FALSE]
  BY DEF Exit, Shapes
<1>2. \A q \in Proc : /\ op'[q].cmd = op[q].cmd /\ op'[q].todo = op[q].todo
                      /\ op'[q].step = op[q].step /\ op'[q].name = op[q].name
                      /\ op'[q].clean = op[q].clean /\ op'[q].alone = op[q].alone
                      /\ op'[q].seen = op[q].seen /\ op'[q].steady = FALSE
                      /\ op'[q].volume = op[q].volume
  BY <1>1 DEF Shapes, CommandShape, Fields
<1>3. \A m \in DOMAIN ct : /\ ct'[m].volume = ct[m].volume
                           /\ m # n => ct'[m].running = ct[m].running
  BY DEF Exit, Shapes, ContainerShape
<1>. QED  BY <1>1, <1>2, <1>3 DEF Exit, Shapes

LEMMA StepOwn ==
  ASSUME Shapes, NEW p \in Proc,
         Command(p) \/ Call(p) \/ Finish(p) \/ CallFails(p) \/ Interrupt(p)
  PROVE  Own(p) /\ op[p].cmd # Task("none")
<1>1. CASE Command(p) \/ Call(p)
  BY <1>1, Acts, NowShape, CommandOwn, CallOwn
<1>2. CASE Finish(p)
  BY <1>2, DieForm DEF Finish, Ended
<1>3. CASE CallFails(p)
  BY <1>3, NowShape, FailsSpoil DEF CallFails
<1>4. CASE Interrupt(p)
  BY <1>4, NowShape, DieForm DEF Interrupt, Abort
<1>. QED  BY <1>1, <1>2, <1>3, <1>4

\* Beside a command that is alone no process has one.
AloneInv ==
  \A p \in Proc : op[p].cmd # Task("none") /\ op[p].alone =>
    \A q \in Proc \ {p} : op[q].cmd = Task("none")

LEMMA BeginForm ==
  ASSUME Shapes, NEW p \in Proc, NEW cmd, Begin(p, cmd)
  PROVE  /\ DOMAIN op' = Proc /\ op[p].cmd = Task("none")
         /\ op'[p].cmd = cmd /\ (op'[p].alone <=> Others(p) = {}) /\ op'[p].step = "begin"
         /\ op'[p].todo = (IF cmd.do = "quickstart" THEN Quickstart(cmd) ELSE <<cmd>>)
         /\ op'[p].seen = {}
         /\ \A q \in Proc \ {p} : op'[q].cmd = op[q].cmd /\ op'[q].alone = FALSE
         /\ UNCHANGED <<host, hist>>
<1>1. /\ DOMAIN op' = Proc /\ op[p].cmd = Task("none") /\ UNCHANGED <<host, hist>>
      /\ \A q \in Proc \ {p} : op'[q] = [op[q] EXCEPT !.alone = FALSE]
      /\ op'[p] = [Idle EXCEPT !.cmd = cmd, !.alone = (Others(p) = {}),
                               !.todo = (IF cmd.do = "quickstart" THEN Quickstart(cmd)
                                         ELSE <<cmd>>)]
  BY DEF Begin
<1>2. \A q \in Proc \ {p} : op'[q].cmd = op[q].cmd /\ op'[q].alone = FALSE
  BY <1>1 DEF Shapes, CommandShape, Fields
<1>3. /\ op'[p].cmd = cmd /\ (op'[p].alone <=> Others(p) = {}) /\ op'[p].step = "begin"
      /\ op'[p].todo = (IF cmd.do = "quickstart" THEN Quickstart(cmd) ELSE <<cmd>>)
      /\ op'[p].seen = {}
  BY <1>1 DEF Idle
<1>. QED  BY <1>1, <1>2, <1>3

LEMMA AloneStep ==
  ASSUME Shapes, AloneInv, Next
  PROVE  AloneInv'
<1>3. CASE \E n \in DOMAIN ct : Exit(n)
  BY <1>3, ExitForm DEF AloneInv
<1>. SUFFICES ASSUME NEW p \in Proc,
                     \/ \E cmd \in Commands[p] : Begin(p, cmd)
                     \/ Command(p) \/ Call(p) \/ Finish(p)
                     \/ CallFails(p) \/ Interrupt(p)
              PROVE  AloneInv'
  BY <1>3 DEF Next
<1>1. CASE \E cmd \in Commands[p] : Begin(p, cmd)
  <2>1. /\ op'[p].alone => Others(p) = {}
        /\ \A q \in Proc \ {p} : op'[q].cmd = op[q].cmd /\ op'[q].alone = FALSE
    BY <1>1, BeginForm
  <2>. QED  BY <2>1 DEF AloneInv, Others
<1>2. CASE Command(p) \/ Call(p) \/ Finish(p) \/ CallFails(p) \/ Interrupt(p)
  <2>1. Own(p) /\ op[p].cmd # Task("none")
    BY <1>2, StepOwn
  <2>. QED  BY <2>1, IdleFields DEF AloneInv, Own
<1>. QED  BY <1>1, <1>2

\* A step after which a command is still smooth began it or was its own, and no
\* call failed.
LEMMA SmoothStepOf ==
  ASSUME Shapes, AloneInv, NEW p \in Proc, NEW c, c # "none", Smooth(p, c)', NEW r \in Proc,
         \/ \E cmd \in Commands[r] : Begin(r, cmd)
         \/ Command(r) \/ Call(r) \/ Finish(r)
         \/ CallFails(r) \/ Interrupt(r)
  PROVE  \/ \E cmd \in Commands[p] : Begin(p, cmd) /\ cmd.do = c
         \/ /\ Command(p) \/ Call(p)
            /\ Smooth(p, c) /\ Own(p) /\ Running(p) /\ ~Fails(p) /\ op'[p] # Idle
            /\ \A q \in Proc \ {p} : op[q].cmd = Task("none")
<1>0. op'[p].cmd # Task("none") /\ op'[p] # Idle
  BY IdleFields DEF Smooth, Task
<1>1. CASE \E cmd \in Commands[r] : Begin(r, cmd)
  <2>1. CASE r = p
    <3>. PICK cmd \in Commands[r] : Begin(r, cmd)
      BY <1>1
    <3>1. op'[r].cmd = cmd
      BY BeginForm
    <3>2. op'[p].cmd.do = c
      BY DEF Smooth
    <3>. QED  BY <2>1, <3>1, <3>2
  <2>2. CASE r # p
    BY <1>1, <2>2, BeginForm DEF Smooth
  <2>. QED  BY <2>1, <2>2
<1>2. CASE Command(r) \/ Call(r) \/ Finish(r) \/ CallFails(r) \/ Interrupt(r)
  <2>1. Own(r) /\ op[r].cmd # Task("none")
    BY <1>2, StepOwn
  <2>2. Smooth(p, c) /\ op[p].cmd # Task("none")
    BY <1>0, <2>1 DEF Own, Smooth
  <2>3. \A q \in Proc \ {p} : op[q].cmd = Task("none")
    BY <2>2 DEF AloneInv, Smooth
  <2>4. r = p
    BY <2>1, <2>3
  <2>5. op'[p].clean
    BY DEF Smooth
  <2>6. ~(Running(p) /\ Fails(p))
    BY <1>0, <2>5, FailsSpoil
  <2>7. ~Finish(p) /\ ~Interrupt(p) /\ ~CallFails(p)
    BY <1>0, <2>6, DieForm DEF Finish, Interrupt, Abort, CallFails
  <2>8. (Command(p) \/ Call(p)) /\ Running(p)
    BY <1>2, <2>4, <2>7, Acts
  <2>. QED  BY <1>0, <2>1, <2>2, <2>3, <2>4, <2>6, <2>8
<1>. QED  BY <1>1, <1>2

LEMMA SmoothStep ==
  ASSUME Shapes, AloneInv, Next, NEW p \in Proc, NEW c, c # "none", Smooth(p, c)'
  PROVE  \/ \E cmd \in Commands[p] : Begin(p, cmd) /\ cmd.do = c
         \/ /\ Command(p) \/ Call(p)
            /\ Smooth(p, c) /\ Own(p) /\ Running(p) /\ ~Fails(p) /\ op'[p] # Idle
            /\ \A q \in Proc \ {p} : op[q].cmd = Task("none")
         \/ \E n \in DOMAIN ct : Exit(n) /\ Smooth(p, c)
<1>1. CASE \E n \in DOMAIN ct : Exit(n)
  BY <1>1, ExitForm DEF Smooth
<1>2. CASE ~ \E n \in DOMAIN ct : Exit(n)
  BY <1>2, SmoothStepOf DEF Next
<1>. QED  BY <1>1, <1>2

-------------------------------------------------------------------------------
(* A task and the ones after it. *)

Pre(a, R) == <<a>> \o R

LEMMA PreFacts ==
  ASSUME NEW a, NEW R, IsSeq(R)
  PROVE  /\ IsSeq(Pre(a, R)) /\ Pre(a, R) # <<>> /\ Head(Pre(a, R)) = a /\ Tail(Pre(a, R)) = R
         /\ <<>> \o R = R /\ <<a>> \o R = Pre(a, R)
<1>1. PICK S : R \in Seq(S)
  BY DEF IsSeq
<1>2. <<a>> \in Seq(S \cup {a}) /\ R \in Seq(S \cup {a})
  BY <1>1
<1>3. <<a>> \o R \in Seq(S \cup {a}) /\ Len(<<a>> \o R) = Len(R) + 1
  BY <1>2
<1>4. Tail(<<a>> \o R) = R
  BY <1>2, <1>3
<1>. QED  BY <1>2, <1>3, <1>4 DEF Pre, IsSeq

LEMMA PreParts ==
  ASSUME NEW a, NEW R, IsSeq(R)
  PROVE  IsSeq(Pre(a, R)) /\ Pre(a, R) # <<>> /\ Head(Pre(a, R)) = a /\ Tail(Pre(a, R)) = R
BY PreFacts

LEMMA SameSeq ==
  ASSUME NEW s, NEW t, IsSeq(s), IsSeq(t), Len(s) = Len(t),
         \A i \in 1..Len(s) : s[i] = t[i]
  PROVE  s = t
<1>1. PICK A : s \in Seq(A)  BY DEF IsSeq
<1>2. PICK B : t \in Seq(B)  BY DEF IsSeq
<1>3. s \in Seq(A \cup B) /\ t \in Seq(A \cup B)  BY <1>1, <1>2
<1>4. /\ s = [i \in 1..Len(s) |-> s[i]] /\ t = [i \in 1..Len(t) |-> t[i]]  BY <1>3
<1>. QED  BY <1>4

LEMMA PreElements ==
  ASSUME NEW a, NEW R, IsSeq(R)
  PROVE  /\ IsSeq(Pre(a, R)) /\ Len(Pre(a, R)) = 1 + Len(R) /\ Len(R) \in Nat
         /\ \A i \in 1..Len(Pre(a, R)) : Pre(a, R)[i] = IF i = 1 THEN a ELSE R[i - 1]
<1>1. /\ IsSeq(Pre(a, R)) /\ Len(Pre(a, R)) = 1 + Len(R) /\ Len(R) \in Nat
      /\ \A i \in 1..Len(Pre(a, R)) : Pre(a, R)[i] = IF i <= 1 THEN <<a>>[i] ELSE R[i - 1]
  BY Joined, OneTask, SeqFacts DEF Pre
<1>. QED  BY <1>1, OneTask

LEMMA PreTwo ==
  ASSUME NEW a, NEW b, NEW R, IsSeq(R)
  PROVE  <<a, b>> \o R = Pre(a, Pre(b, R))
<1>. DEFINE s == <<a, b>>
            u == s \o R
            v == Pre(b, R)
            w == Pre(a, v)
<1>1. IsSeq(s) /\ Len(s) = 2 /\ s[1] = a /\ s[2] = b
  BY TwoTasks
<1>. HIDE DEF s
<1>2. /\ IsSeq(u) /\ Len(u) = 2 + Len(R) /\ Len(R) \in Nat
      /\ \A i \in 1..Len(u) : u[i] = IF i <= 2 THEN s[i] ELSE R[i - 2]
  <2>1. /\ IsSeq(u) /\ Len(u) = Len(s) + Len(R)
        /\ \A i \in 1..Len(u) : u[i] = IF i <= Len(s) THEN s[i] ELSE R[i - Len(s)]
    BY <1>1, Joined
  <2>2. Len(R) \in Nat
    BY SeqFacts
  <2>. HIDE DEF u
  <2>. QED  BY <1>1, <2>1, <2>2
<1>3. /\ IsSeq(v) /\ Len(v) = 1 + Len(R)
      /\ \A i \in 1..Len(v) : v[i] = IF i = 1 THEN b ELSE R[i - 1]
  BY PreElements
<1>. HIDE DEF v
<1>4. /\ IsSeq(w) /\ Len(w) = 1 + Len(v)
      /\ \A i \in 1..Len(w) : w[i] = IF i = 1 THEN a ELSE v[i - 1]
  BY <1>3, PreElements
<1>. HIDE DEF u, w
<1>5. Len(u) = Len(w)
  BY <1>2, <1>3, <1>4
<1>6. ASSUME NEW i \in 1..Len(u) PROVE u[i] = w[i]
  <2>1. CASE i = 1
    BY <1>1, <1>2, <1>4, <1>5, <2>1
  <2>2. CASE i = 2
    BY <1>1, <1>2, <1>3, <1>4, <1>5, <2>2
  <2>3. CASE i > 2
    BY <1>2, <1>3, <1>4, <1>5, <2>3
  <2>. QED  BY <1>2, <2>1, <2>2, <2>3
<1>. QED  BY <1>2, <1>4, <1>5, <1>6, SameSeq DEF s, u, v, w

LEMMA PreThree ==
  ASSUME NEW a, NEW b, NEW c, NEW R, IsSeq(R)
  PROVE  <<a, b, c>> \o R = Pre(a, Pre(b, Pre(c, R)))
<1>. DEFINE s == <<a, b, c>>
            u == s \o R
            v == Pre(b, Pre(c, R))
            x == <<b, c>>
            w == Pre(a, v)
<1>1. IsSeq(s) /\ Len(s) = 3 /\ s[1] = a /\ s[2] = b /\ s[3] = c
  BY ThreeTasks
<1>2. IsSeq(x) /\ Len(x) = 2 /\ x[1] = b /\ x[2] = c
  BY TwoTasks
<1>3. v = x \o R
  BY PreTwo
<1>. HIDE DEF s, x, v
<1>4. /\ IsSeq(u) /\ Len(u) = 3 + Len(R) /\ Len(R) \in Nat
      /\ \A i \in 1..Len(u) : u[i] = IF i <= 3 THEN s[i] ELSE R[i - 3]
  <2>1. /\ IsSeq(u) /\ Len(u) = Len(s) + Len(R)
        /\ \A i \in 1..Len(u) : u[i] = IF i <= Len(s) THEN s[i] ELSE R[i - Len(s)]
    BY <1>1, Joined
  <2>2. Len(R) \in Nat
    BY SeqFacts
  <2>. HIDE DEF u
  <2>. QED  BY <1>1, <2>1, <2>2
<1>. DEFINE y == x \o R
<1>5a. /\ IsSeq(y) /\ Len(y) = 2 + Len(R)
       /\ \A i \in 1..Len(y) : y[i] = IF i <= 2 THEN x[i] ELSE R[i - 2]
  <2>1. /\ IsSeq(y) /\ Len(y) = Len(x) + Len(R)
        /\ \A i \in 1..Len(y) : y[i] = IF i <= Len(x) THEN x[i] ELSE R[i - Len(x)]
    BY <1>2, Joined
  <2>2. Len(R) \in Nat
    BY SeqFacts
  <2>. HIDE DEF y
  <2>. QED  BY <1>2, <2>1, <2>2
<1>. HIDE DEF y
<1>5. /\ IsSeq(v) /\ Len(v) = 2 + Len(R)
      /\ \A i \in 1..Len(v) : v[i] = IF i <= 2 THEN x[i] ELSE R[i - 2]
  BY <1>3, <1>5a DEF y
<1>6. /\ IsSeq(w) /\ Len(w) = 1 + Len(v)
      /\ \A i \in 1..Len(w) : w[i] = IF i = 1 THEN a ELSE v[i - 1]
  BY <1>5, PreElements
<1>. HIDE DEF u, w
<1>7. Len(u) = Len(w)
  BY <1>4, <1>5, <1>6
<1>8. ASSUME NEW i \in 1..Len(u) PROVE u[i] = w[i]
  <2>1. CASE i = 1
    BY <1>1, <1>4, <1>6, <1>7, <2>1
  <2>2. CASE i = 2
    BY <1>1, <1>2, <1>4, <1>5, <1>6, <1>7, <2>2
  <2>3. CASE i = 3
    BY <1>1, <1>2, <1>4, <1>5, <1>6, <1>7, <2>3
  <2>4. CASE i > 3
    BY <1>4, <1>5, <1>6, <1>7, <2>4
  <2>. QED  BY <1>4, <2>1, <2>2, <2>3, <2>4
<1>. QED  BY <1>4, <1>6, <1>7, <1>8, SameSeq DEF s, u, v, w

LEMMA PreLast == \A a : <<a>> = Pre(a, <<>>)
BY DEF Pre

\* A command that was just given is its own only task.
LEMMA GivenForm ==
  ASSUME Shapes, NEW p \in Proc, NEW cmd, Begin(p, cmd), cmd.do # "quickstart"
  PROVE  op'[p].todo = Pre(op'[p].cmd, <<>>)
<1>1. op'[p].cmd = cmd /\ op'[p].todo = <<cmd>>
  BY DEF Begin, Idle
<1>. QED  BY <1>1, PreLast

LEMMA NoTasksIsSeq == IsSeq(<<>>) /\ <<>> \o <<>> = <<>>
BY NoTasks, PreFacts

LEMMA LastTask ==
  ASSUME NEW a
  PROVE  <<a>> \o <<>> = Pre(a, <<>>) /\ IsSeq(<<>>) /\ IsSeq(Pre(a, <<>>))
BY NoTasksIsSeq, PreFacts DEF Pre

LEMMA ThreeLast ==
  ASSUME NEW a, NEW b, NEW c
  PROVE  <<a, b, c>> \o <<>> = Pre(a, Pre(b, Pre(c, <<>>)))
<1>1. \A R : IsSeq(R) => <<a, b, c>> \o R = Pre(a, Pre(b, Pre(c, R)))
  <2>. TAKE R
  <2>. HAVE IsSeq(R)
  <2>. QED  BY PreThree
<1>. QED  BY <1>1, NoTasksIsSeq

LEMMA EmptyLast ==
  ASSUME NEW s, IsSeq(s)
  PROVE  s \o <<>> = s
<1>1. PICK S : s \in Seq(S)
  BY DEF IsSeq
<1>. QED  BY <1>1

LEMMA FiveTasks ==
  ASSUME NEW a, NEW b, NEW c, NEW d, NEW e
  PROVE  LET s == <<a, b, c, d, e>>
         IN IsSeq(s) /\ Len(s) = 5 /\ s[1] = a /\ s[2] = b /\ s[3] = c /\ s[4] = d /\ s[5] = e
<1>1. <<a, b, c, d, e>> \in Seq({a, b, c, d, e})  OBVIOUS
<1>. QED  BY <1>1 DEF IsSeq

LEMMA FiveLast ==
  ASSUME NEW a, NEW b, NEW c, NEW d, NEW e
  PROVE  <<a, b, c, d, e>> \o <<>> = Pre(a, Pre(b, Pre(c, Pre(d, Pre(e, <<>>)))))
<1>. DEFINE s == <<a, b, c, d, e>>
            x == <<c, d, e>>
            v == Pre(c, Pre(d, Pre(e, <<>>)))
            y == Pre(b, x)
            w == Pre(a, y)
<1>1. IsSeq(s) /\ Len(s) = 5 /\ s[1] = a /\ s[2] = b /\ s[3] = c /\ s[4] = d /\ s[5] = e
  BY FiveTasks
<1>2. IsSeq(x) /\ Len(x) = 3 /\ x[1] = c /\ x[2] = d /\ x[3] = e
  BY ThreeTasks
<1>3. x \o <<>> = v
  BY ThreeLast
<1>. HIDE DEF s, x, v
<1>4. s \o <<>> = s /\ x \o <<>> = x
  BY <1>1, <1>2, EmptyLast
<1>5. /\ IsSeq(y) /\ Len(y) = 1 + Len(x)
      /\ \A i \in 1..Len(y) : y[i] = IF i = 1 THEN b ELSE x[i - 1]
  <2>1. IsSeq(x)
    BY <1>2
  <2>. QED  BY <2>1, PreElements
<1>. HIDE DEF y
<1>6. /\ IsSeq(w) /\ Len(w) = 1 + Len(y)
      /\ \A i \in 1..Len(w) : w[i] = IF i = 1 THEN a ELSE y[i - 1]
  BY <1>5, PreElements
<1>. HIDE DEF w
<1>7. w[1] = a /\ w[2] = b /\ w[3] = c /\ w[4] = d /\ w[5] = e
  <2>1. y[1] = b /\ y[2] = c /\ y[3] = d /\ y[4] = e
    BY <1>2, <1>5
  <2>. QED  BY <1>2, <1>5, <1>6, <2>1
<1>8. ASSUME NEW i \in 1..Len(s) PROVE s[i] = w[i]
  BY <1>1, <1>7
<1>9. s = w
  BY <1>1, <1>2, <1>5, <1>6, <1>8, SameSeq
<1>. QED  BY <1>3, <1>4, <1>9 DEF s, x, v, y, w

-------------------------------------------------------------------------------
(* StopAndRemove, name by name. *)

Clears(o, S, m, R) == o.todo = Pre(StopAndRemove(S, m), R) /\ (o.step # "begin" => o.name \in S)

\* The names that may still be there.
Left(o, S) == IF o.step = "volume" THEN S \ {o.name} ELSE S

\* What the removal of names of S leaves alone.
OnlyNames(S) ==
  /\ vols' \subseteq vols /\ net' = net /\ files' = files /\ monitors' \subseteq monitors
  /\ DOMAIN ct' \subseteq DOMAIN ct
  /\ \A n \in DOMAIN ct \ S : n \in DOMAIN ct' /\ ct'[n] = ct[n]

\* What p went on to, of the removal of S before the tasks R.
RemoveNext(p, S, m, R) ==
  /\ OnlyNames(S)
  /\ op'[p].cmd = op[p].cmd /\ op'[p].seen = op[p].seen
  /\ \/ /\ op'[p].todo = R /\ op'[p].step = "begin"
        /\ DOMAIN ct' \cap Left(op[p], S) = {}
     \/ \E T \in SUBSET S : /\ Clears(op'[p], T, m, R)
                            /\ DOMAIN ct' \cap Left(op[p], S) \subseteq Left(op'[p], T)

LEMMA RemovedNext ==
  ASSUME Shapes, NEW p \in Proc, NEW S, NEW m, NEW R, IsSeq(R), Clears(op[p], S, m, R),
         op[p].name \in S, op' = Removed(p), OnlyNames(S),
         op[p].name \notin DOMAIN ct' \cap Left(op[p], S)
  PROVE  RemoveNext(p, S, m, R)
<1>. PICK n : n = op[p].name
  OBVIOUS
<1>1. Now(p) = StopAndRemove(S, m) /\ Tail(op[p].todo) = R
  BY PreParts DEF Clears, Now
<1>2. CASE S = {n}
  <2>1. op' = Then(p, <<>>)
    BY <1>1, <1>2 DEF Removed, NextTask, StopAndRemove
  <2>2. op'[p].todo = R /\ op'[p].step = "begin" /\ op'[p].seen = op[p].seen
        /\ op'[p].cmd = op[p].cmd
    <3>1. <<>> \o R = R
      BY PreFacts
    <3>. QED  BY <1>1, <2>1, <3>1, ThenForm
  <2>3. DOMAIN ct' \cap Left(op[p], S) = {}
    BY <1>2 DEF Left
  <2>. QED  BY <2>2, <2>3 DEF RemoveNext
<1>3. CASE S # {n}
  <2>. DEFINE t == StopAndRemove(S \ {n}, m)
  <2>. DEFINE r == [Now(p) EXCEPT !.names = @ \ {op[p].name}]
  <2>0. r = t
    <3>. PICK w : w = Now(p)
      OBVIOUS
    <3>1. w = [do |-> "remove", names |-> S, must |-> m]
      BY <1>1 DEF StopAndRemove
    <3>2. [w EXCEPT !.names = @ \ {n}] = [do |-> "remove", names |-> S \ {n}, must |-> m]
      BY <3>1
    <3>. QED  BY <3>2 DEF StopAndRemove
  <2>1. op' = Then(p, <<t>>)
    <3>1. Now(p).names # {op[p].name}
      BY <1>1, <1>3 DEF StopAndRemove
    <3>2. op' = Then(p, <<r>>)
      BY <3>1 DEF Removed, Then
    <3>. QED  BY <2>0, <3>2
  <2>. HIDE DEF t
  <2>2. op'[p].todo = Pre(t, R) /\ op'[p].step = "begin" /\ op'[p].seen = op[p].seen
        /\ op'[p].cmd = op[p].cmd
    BY <1>1, <2>1, ThenForm DEF Pre
  <2>3. Clears(op'[p], S \ {n}, m, R)
    BY <2>2 DEF Clears, t
  <2>4. DOMAIN ct' \cap Left(op[p], S) \subseteq Left(op'[p], S \ {n})
    BY <2>2 DEF Left
  <2>. QED  BY <2>2, <2>3, <2>4 DEF RemoveNext
<1>. QED  BY <1>2, <1>3

LEMMA RemoveStep ==
  ASSUME Shapes, NEW p \in Proc, NEW S, NEW m, NEW R, IsSeq(R), Clears(op[p], S, m, R),
         Command(p) \/ Call(p), ~Fails(p)
  PROVE  RemoveNext(p, S, m, R)
<1>. PICK n : n = op[p].name
  OBVIOUS
<1>1. Now(p) = StopAndRemove(S, m) /\ Tail(op[p].todo) = R
  BY PreParts DEF Clears, Now
<1>2. Now(p).do = "remove" /\ Now(p).names = S
  BY <1>1 DEF StopAndRemove
<1>3. Inspect(p) \/ StopContainer(p) \/ RemoveContainer(p) \/ RemoveDataVolume(p)
  BY <1>2, Acts
<1>4. CASE Inspect(p)
  <2>0. UNCHANGED host /\ OnlyNames(S) /\ op[p].step = "begin"
    BY <1>4 DEF Inspect, OnlyNames, host, At
  <2>1. CASE S = {}
    <3>1. op' = Then(p, <<>>)
      BY <1>2, <1>4, <2>1 DEF Inspect, NextTask
    <3>2. op'[p].todo = R /\ op'[p].step = "begin" /\ op'[p].seen = op[p].seen
          /\ op'[p].cmd = op[p].cmd
      BY <1>1, <3>1, ThenForm, PreFacts
    <3>. QED  BY <2>0, <2>1, <3>2 DEF RemoveNext, Left
  <2>2. CASE S # {}
    <3>1. PICK x, v : /\ x \in Foremost(S)
                      /\ op' = [op EXCEPT ![p].step = "stop", ![p].name = x, ![p].volume = v]
      BY <1>2, <1>4, <2>2 DEF Inspect
    <3>2. x \in S
      BY <3>1 DEF Foremost
    <3>3. op'[p].todo = op[p].todo /\ op'[p].step = "stop" /\ op'[p].name = x
          /\ op'[p].seen = op[p].seen /\ op'[p].cmd = op[p].cmd
      BY <3>1, InspectForm
    <3>4. Clears(op'[p], S, m, R)
      BY <3>2, <3>3 DEF Clears
    <3>. QED  BY <2>0, <3>3, <3>4 DEF RemoveNext, Left
  <2>. QED  BY <2>1, <2>2
<1>5. CASE StopContainer(p)
  <2>1. /\ op[p].step = "stop" /\ op' = Step(p, "rm") /\ ct' = [ct EXCEPT ![n].running = FALSE]
        /\ UNCHANGED <<vols, net, files, monitors>>
    BY <1>5 DEF StopContainer, At
  <2>2. n \in S
    BY <2>1 DEF Clears
  <2>3. OnlyNames(S)
    BY <2>1, <2>2 DEF OnlyNames
  <2>4. op'[p].todo = op[p].todo /\ op'[p].step = "rm" /\ op'[p].name = n
        /\ op'[p].seen = op[p].seen /\ op'[p].cmd = op[p].cmd
    BY <2>1, StepForm
  <2>5. Clears(op'[p], S, m, R) /\ Left(op'[p], S) = S
    BY <2>2, <2>4 DEF Clears, Left
  <2>. QED  BY <2>1, <2>3, <2>4, <2>5 DEF RemoveNext, Left
<1>6. CASE RemoveContainer(p)
  <2>1. /\ op[p].step = "rm" /\ ct' = Without(ct, n) /\ monitors' \subseteq monitors
        /\ op' = IF op[p].volume = NoVolume THEN Removed(p) ELSE Step(p, "volume")
        /\ UNCHANGED <<vols, net, files>>
    BY <1>6 DEF RemoveContainer, At
  <2>2. n \in S
    BY <2>1 DEF Clears
  <2>3. DOMAIN ct' = DOMAIN ct \ {n} /\ \A x \in DOMAIN ct' : ct'[x] = ct[x]
    BY <2>1 DEF Without, Restrict
  <2>4. OnlyNames(S)
    BY <2>1, <2>2, <2>3 DEF OnlyNames
  <2>5. CASE op[p].volume = NoVolume
    BY <2>1, <2>2, <2>3, <2>4, <2>5, RemovedNext
  <2>6. CASE op[p].volume # NoVolume
    <3>1. op'[p].todo = op[p].todo /\ op'[p].step = "volume" /\ op'[p].name = n
          /\ op'[p].seen = op[p].seen /\ op'[p].cmd = op[p].cmd
      BY <2>1, <2>6, StepForm
    <3>2. Clears(op'[p], S, m, R) /\ Left(op'[p], S) = S \ {n}
      BY <2>2, <3>1 DEF Clears, Left
    <3>. QED  BY <2>3, <2>4, <3>1, <3>2 DEF RemoveNext, Left
  <2>. QED  BY <2>5, <2>6
<1>7. CASE RemoveDataVolume(p)
  <2>1. /\ op[p].step = "volume" /\ op' = Removed(p) /\ vols' \subseteq vols
        /\ UNCHANGED <<ct, net, files, monitors>>
    BY <1>7 DEF RemoveDataVolume, RemoveVolume, At
  <2>2. n \in S /\ n \notin Left(op[p], S)
    BY <2>1 DEF Clears, Left
  <2>3. OnlyNames(S)
    BY <2>1 DEF OnlyNames
  <2>. QED  BY <2>2, <2>3, <2>1, RemovedNext
<1>. QED  BY <1>3, <1>4, <1>5, <1>6, <1>7

-------------------------------------------------------------------------------
(* cluster rm. *)

\* No container of the cluster but these.
Within(c, S) == ListClusterContainers(ct, c) \subseteq S
Unwatched(c) == \A m \in monitors : m[2] # c

LastDelete(c) == Pre(Delete(c), <<>>)

\* What is left to forget of the cluster.
Watched(c, P) == \A m \in monitors : m[2] = c => <<m[1], m[2]>> \in P

\* cluster rm about to list, to unwatch, to have the sentinels forget, to remove
\* containers and the file; done.
RmGiven(o, c)   == o.todo = Pre(o.cmd, <<>>)
RmListed(o, c)  == \E S : /\ o.todo = Pre(Unwatch(c), Pre(StopAndRemove(S, FALSE), LastDelete(c)))
                          /\ Within(c, S)
RmForgets(o, c) == \E S, P : /\ o.todo = Pre(Forget(P), Pre(StopAndRemove(S, FALSE), LastDelete(c)))
                             /\ o.step = "begin" /\ Within(c, S) /\ Watched(c, P)
RmRemoves(o, c) == \E S : /\ Clears(o, S, FALSE, LastDelete(c))
                          /\ Within(c, Left(o, S)) /\ Unwatched(c)
RmDeletes(o, c) == o.todo = LastDelete(c) /\ Within(c, {}) /\ Unwatched(c)
RmDone(o, c)    == o.todo = <<>> /\ Within(c, {}) /\ Unwatched(c) /\ c \notin files

RmPlan(o, c) ==
  \/ RmGiven(o, c) \/ RmListed(o, c) \/ RmForgets(o, c)
  \/ RmRemoves(o, c) \/ RmDeletes(o, c) \/ RmDone(o, c)

SmoothRm(p) == Smooth(p, "cluster rm")

RmInv == \A p \in Proc : SmoothRm(p) => RmPlan(op[p], op[p].cmd.cluster)

\* Only sentinels that are there monitor anything.
MonitorsInv == \A m \in monitors : m[1] \in DOMAIN ct /\ m[1].kind = "sentinel"

\* A step that goes on to the tasks T.
LEMMA ThenPre ==
  ASSUME Shapes, NEW p \in Proc, NEW a, NEW R, IsSeq(R), op[p].todo = Pre(a, R),
         NEW T, op' = Then(p, T)
  PROVE  op'[p].todo = T \o R /\ op'[p].step = "begin" /\ op'[p].cmd = op[p].cmd
         /\ op'[p].seen = op[p].seen
<1>1. Tail(op[p].todo) = R
  BY PreParts
<1>. QED  BY <1>1, ThenForm

LEMMA NextPre ==
  ASSUME Shapes, NEW p \in Proc, NEW a, NEW R, IsSeq(R), op[p].todo = Pre(a, R),
         op' = NextTask(p)
  PROVE  op'[p].todo = R /\ op'[p].step = "begin" /\ op'[p].cmd = op[p].cmd
         /\ op'[p].seen = op[p].seen
<1>1. op' = Then(p, <<>>)
  BY DEF NextTask
<1>2. <<>> \o R = R
  BY PreFacts
<1>3. op'[p].todo = <<>> \o R /\ op'[p].step = "begin" /\ op'[p].cmd = op[p].cmd
      /\ op'[p].seen = op[p].seen
  BY <1>1, ThenPre
<1>. QED  BY <1>2, <1>3

LEMMA NowPre ==
  ASSUME NEW p \in Proc, NEW a, NEW R, IsSeq(R), op[p].todo = Pre(a, R)
  PROVE  Now(p) = a
BY PreParts DEF Now

LEMMA RmOwnStep ==
  ASSUME Shapes, NEW p \in Proc, Command(p) \/ Call(p), ~Fails(p), op'[p] # Idle,
         SmoothRm(p), MonitorsInv, NEW c, c = op[p].cmd.cluster, RmPlan(op[p], c)
  PROVE  RmPlan(op[p], c)'
<1>. DEFINE D == LastDelete(c)
<1>1. IsSeq(<<>>) /\ IsSeq(D)
  BY NoTasksIsSeq, PreParts DEF LastDelete
<1>. HIDE DEF D
<1>2. Running(p)
  BY Acts
<1>3. ASSUME RmGiven(op[p], c) PROVE RmListed(op[p], c)'
  <2>0. op[p].todo = Pre(op[p].cmd, <<>>)
    BY <1>3 DEF RmGiven
  <2>1. Now(p) = op[p].cmd
    BY <1>1, <2>0, NowPre
  <2>2. ClusterRm(p) /\ Now(p).cluster = c
    BY <2>1, Acts DEF Smooth, SmoothRm
  <2>. PICK S : S = ListClusterContainers(ct, c)
    OBVIOUS
  <2>. DEFINE T == <<Unwatch(c), StopAndRemove(S, FALSE), Delete(c)>>
  <2>3. op' = Die(p) \/ (op' = Then(p, T) /\ UNCHANGED host)
    BY <2>2 DEF ClusterRm, Proceed, Abort
  <2>4. T \o <<>> = Pre(Unwatch(c), Pre(StopAndRemove(S, FALSE), D))
    <3>1. T \o <<>> = Pre(Unwatch(c), Pre(StopAndRemove(S, FALSE), Pre(Delete(c), <<>>)))
      BY ThreeLast, ZenonT(40)
    <3>. HIDE DEF T
    <3>. QED  BY <3>1 DEF D, LastDelete
  <2>. HIDE DEF T
  <2>5. op' = Then(p, T) /\ UNCHANGED host
    BY <2>3, DieForm
  <2>6. op'[p].todo = T \o <<>>
    BY <1>1, <2>0, <2>5, ThenPre
  <2>7. Within(c, S)'
    BY <2>5 DEF Within, host
  <2>. QED  BY <2>4, <2>6, <2>7 DEF RmListed, D
<1>4. ASSUME RmListed(op[p], c) PROVE RmForgets(op[p], c)'
  <2>1. PICK S : /\ op[p].todo = Pre(Unwatch(c), Pre(StopAndRemove(S, FALSE), D))
                 /\ Within(c, S)
    BY <1>4 DEF RmListed, D
  <2>. DEFINE R == Pre(StopAndRemove(S, FALSE), D)
  <2>2. IsSeq(R)
    BY <1>1, PreParts
  <2>. HIDE DEF R
  <2>3. op[p].todo = Pre(Unwatch(c), R)
    BY <2>1 DEF R
  <2>4. Now(p) = Unwatch(c)
    BY <2>2, <2>3, NowPre
  <2>5. Now(p).do = "unwatch" /\ Now(p).cluster = c
    BY <2>4 DEF Unwatch
  <2>6. UnwatchCluster(p)
    BY <2>5, Acts
  <2>. PICK P : P = ListSentinels(ct) \X {c}
    OBVIOUS
  <2>7. op' = Then(p, <<Forget(P)>>) /\ UNCHANGED host
    BY <2>5, <2>6, DieForm DEF UnwatchCluster, Proceed, Abort
  <2>. DEFINE T == <<Forget(P)>>
  <2>8a. op' = Then(p, T)
    BY <2>7
  <2>. HIDE DEF T
  <2>8b. op'[p].todo = T \o R /\ op'[p].step = "begin"
    BY <2>2, <2>3, <2>8a, ThenPre
  <2>8. op'[p].todo = <<Forget(P)>> \o R /\ op'[p].step = "begin"
    BY <2>8b DEF T
  <2>9. op'[p].todo = Pre(Forget(P), R)
    BY <2>8 DEF Pre
  <2>10. Within(c, S)'
    BY <2>1, <2>7 DEF Within, host
  <2>11. ct' = ct /\ monitors' = monitors
    BY <2>7 DEF host
  <2>12. Watched(c, P)'
    BY <2>11 DEF MonitorsInv, ListSentinels, ListContainers, Watched
  <2>. QED  BY <2>8, <2>9, <2>10, <2>12 DEF RmForgets, R, D
<1>8. ASSUME RmForgets(op[p], c) PROVE (RmForgets(op[p], c) \/ RmRemoves(op[p], c))'
  <2>1. PICK S, P : /\ op[p].todo = Pre(Forget(P), Pre(StopAndRemove(S, FALSE), D))
                    /\ op[p].step = "begin" /\ Within(c, S) /\ Watched(c, P)
    BY <1>8 DEF RmForgets, D
  <2>. DEFINE R == Pre(StopAndRemove(S, FALSE), D)
  <2>2. IsSeq(R)
    BY <1>1, PreParts
  <2>. HIDE DEF R
  <2>3. op[p].todo = Pre(Forget(P), R)
    BY <2>1 DEF R
  <2>4. Now(p) = Forget(P)
    BY <2>2, <2>3, NowPre
  <2>5. Now(p).do = "forget" /\ Now(p).pairs = P
    BY <2>4 DEF Forget
  <2>6. ForgetCluster(p)
    BY <2>5, Acts
  <2>7. CASE P = {}
    <3>1. op' = NextTask(p) /\ UNCHANGED <<ct, monitors>>
      BY <2>5, <2>6, <2>7 DEF ForgetCluster, host
    <3>2. op'[p].todo = R /\ op'[p].step = "begin"
      BY <2>2, <2>3, <3>1, NextPre
    <3>3. Clears(op'[p], S, FALSE, D)
      BY <3>2 DEF Clears, R
    <3>4. Within(c, Left(op[p], S))' /\ Unwatched(c)'
      BY <2>1, <2>7, <3>1, <3>2 DEF Left, Within, Watched, Unwatched
    <3>. QED  BY <3>3, <3>4 DEF RmRemoves, D
  <2>8. CASE P # {}
    <3>. PICK x : x = FirstPair(P)
      OBVIOUS
    <3>. PICK Q : Q = P \ {x}
      OBVIOUS
    <3>1. /\ op' = Then(p, <<Forget(Q)>>) /\ ct' = ct
          /\ monitors' = {m \in monitors : <<m[1], m[2]>> # x}
      BY <2>5, <2>6, <2>8 DEF ForgetCluster
    <3>2. op'[p].todo = <<Forget(Q)>> \o R /\ op'[p].step = "begin"
      BY <2>2, <2>3, <3>1, ThenPre
    <3>3. op'[p].todo = Pre(Forget(Q), R)
      BY <3>2 DEF Pre
    <3>4. Within(c, S)'
      BY <2>1, <3>1 DEF Within
    <3>5. Watched(c, Q)'
      BY <2>1, <3>1 DEF Watched
    <3>. QED  BY <3>2, <3>3, <3>4, <3>5 DEF RmForgets, R, D
  <2>. QED  BY <2>7, <2>8
<1>5. ASSUME RmRemoves(op[p], c) PROVE (RmRemoves(op[p], c) \/ RmDeletes(op[p], c))'
  <2>0. PICK S : Clears(op[p], S, FALSE, D) /\ Within(c, Left(op[p], S)) /\ Unwatched(c)
    BY <1>5 DEF RmRemoves, D
  <2>1. RemoveNext(p, S, FALSE, D)
    BY <1>1, <2>0, RemoveStep
  <2>2. Unwatched(c)'
        /\ ListClusterContainers(ct, c)' \subseteq ListClusterContainers(ct, c) \cap DOMAIN ct'
    BY <2>0, <2>1 DEF RemoveNext, OnlyNames, Unwatched, ListClusterContainers, ListContainers
  <2>3. CASE op'[p].todo = D /\ DOMAIN ct' \cap Left(op[p], S) = {}
    <3>1. Within(c, {})'
      BY <2>0, <2>2, <2>3 DEF Within
    <3>. QED  BY <2>2, <2>3, <3>1 DEF RmDeletes, D
  <2>4. ASSUME NEW T \in SUBSET S, Clears(op'[p], T, FALSE, D),
               DOMAIN ct' \cap Left(op[p], S) \subseteq Left(op'[p], T)
        PROVE  RmRemoves(op[p], c)'
    <3>1. Within(c, Left(op[p], T))'
      BY <2>0, <2>2, <2>4 DEF Within
    <3>. QED  BY <2>2, <2>4, <3>1 DEF RmRemoves, D
  <2>. QED  BY <2>1, <2>3, <2>4 DEF RemoveNext
<1>6. ASSUME RmDeletes(op[p], c) PROVE RmDone(op[p], c)'
  <2>0. op[p].todo = Pre(Delete(c), <<>>) /\ Within(c, {}) /\ Unwatched(c)
    BY <1>6 DEF RmDeletes, LastDelete
  <2>1. Now(p) = Delete(c)
    BY <1>1, <2>0, NowPre
  <2>2. Now(p).do = "delete" /\ Now(p).cluster = c
    BY <2>1 DEF Delete
  <2>3. DeleteState(p)
    BY <2>2, Acts
  <2>4. files' = files \ {c} /\ op' = NextTask(p) /\ ct' = ct /\ monitors' = monitors
    BY <2>2, <2>3 DEF DeleteState
  <2>5. op'[p].todo = <<>>
    BY <1>1, <2>0, <2>4, NextPre
  <2>. QED  BY <2>0, <2>4, <2>5 DEF RmDone, Within, Unwatched
<1>7. ~RmDone(op[p], c)
  BY <1>2 DEF RmDone, Running
<1>. QED  BY <1>3, <1>4, <1>5, <1>6, <1>7, <1>8 DEF RmPlan

LEMMA RmStep ==
  ASSUME Shapes, AloneInv, MonitorsInv, RmInv, Next
  PROVE  RmInv'
<1>. SUFFICES ASSUME NEW p \in Proc, SmoothRm(p)'
              PROVE  RmPlan(op[p], op[p].cmd.cluster)'
  BY DEF RmInv
<1>1. ASSUME NEW cmd \in Commands[p], Begin(p, cmd), cmd.do # "quickstart"
      PROVE  RmPlan(op[p], op[p].cmd.cluster)'
  <2>1. op'[p].todo = Pre(op'[p].cmd, <<>>)
    BY <1>1, GivenForm
  <2>. QED  BY <2>1 DEF RmPlan, RmGiven
<1>2. CASE /\ Command(p) \/ Call(p)
           /\ SmoothRm(p) /\ Own(p) /\ Running(p) /\ ~Fails(p) /\ op'[p] # Idle
  <2>1. op'[p].cmd = op[p].cmd
    BY <1>2 DEF Own
  <2>. QED  BY <1>2, <2>1, RmOwnStep DEF RmInv
<1>3. ASSUME NEW n \in DOMAIN ct, Exit(n), SmoothRm(p)
      PROVE  RmPlan(op[p], op[p].cmd.cluster)'
  <2>1. /\ op'[p].cmd = op[p].cmd /\ op'[p].todo = op[p].todo /\ op'[p].step = op[p].step
        /\ op'[p].name = op[p].name /\ DOMAIN ct' = DOMAIN ct /\ UNCHANGED <<monitors, files>>
    BY <1>3, ExitForm
  <2>2. \A S, m, R : Clears(op[p], S, m, R)' <=> Clears(op[p], S, m, R)
    BY <2>1 DEF Clears
  <2>3. \A c, S : /\ Within(c, S)' <=> Within(c, S)
                  /\ Watched(c, S)' <=> Watched(c, S)
                  /\ Unwatched(c)' <=> Unwatched(c)
                  /\ Left(op[p], S)' = Left(op[p], S)
    BY <2>1 DEF Within, ListClusterContainers, ListContainers, Watched, Unwatched, Left
  <2>4. RmPlan(op[p], op[p].cmd.cluster)
    BY <1>3 DEF RmInv
  <2>5. PICK c : c = op[p].cmd.cluster
    OBVIOUS
  <2>6. (RmGiven(op[p], c) => RmGiven(op[p], c)') /\ (RmListed(op[p], c) => RmListed(op[p], c)')
    BY <2>1, <2>3 DEF RmGiven, RmListed, LastDelete
  <2>7. RmForgets(op[p], c) => RmForgets(op[p], c)'
    BY <2>1, <2>3 DEF RmForgets, LastDelete
  <2>8. RmRemoves(op[p], c) => RmRemoves(op[p], c)'
    <3>. SUFFICES ASSUME NEW S, Clears(op[p], S, FALSE, LastDelete(c)),
                         Within(c, Left(op[p], S)), Unwatched(c)
                  PROVE  RmRemoves(op[p], c)'
      BY DEF RmRemoves
    <3>1. Within(c, Left(op[p], S))'
      BY <2>1 DEF Within, ListClusterContainers, ListContainers, Left
    <3>. QED  BY <2>2, <2>3, <3>1 DEF RmRemoves, LastDelete
  <2>9. RmDeletes(op[p], c) \/ RmDone(op[p], c) => (RmDeletes(op[p], c) \/ RmDone(op[p], c))'
    BY <2>1, <2>3 DEF RmDeletes, RmDone, LastDelete
  <2>. QED  BY <2>1, <2>4, <2>5, <2>6, <2>7, <2>8, <2>9 DEF RmPlan
<1>. QED  BY <1>1, <1>2, <1>3, SmoothStep DEF SmoothRm

\* A step that leaves the monitors alone, and every container one may name.
LEMMA MonitorsKept ==
  ASSUME MonitorsInv, monitors' \subseteq monitors,
         \A m \in monitors' : m[1] \in DOMAIN ct => m[1] \in DOMAIN ct'
  PROVE  MonitorsInv'
BY DEF MonitorsInv

LEMMA FailsHost ==
  ASSUME Shapes, NEW p \in Proc, Running(p), Fails(p)
  PROVE  UNCHANGED <<ct, monitors>>
<1>1. CASE Abort(p)
  BY <1>1 DEF Abort, host
<1>2. CASE InspectFails(p)
  BY <1>2 DEF InspectFails, host
<1>3. CASE \E o : GoOn(p, o)
  BY <1>3 DEF GoOn, host
<1>. QED  BY <1>1, <1>2, <1>3, FailsSteps

LEMMA MonitorsCall ==
  ASSUME Shapes, MonitorsInv, NEW p \in Proc, Call(p)
  PROVE  MonitorsInv'
<1>0. Running(p)
  BY Acts
<1>1. CASE Fails(p)
  BY <1>0, <1>1, FailsHost, MonitorsKept
<1>2. CASE UNCHANGED <<ct, monitors>>
  BY <1>2, MonitorsKept
<1>3. CASE EnsureNetwork(p) \/ EnsureVolume(p) \/ Inspect(p) \/ RemoveDataVolume(p)
  BY <1>1, <1>2, <1>3 DEF EnsureNetwork, EnsureVolume, Inspect, RemoveDataVolume, RemoveVolume, host
<1>4. CASE CreateContainer(p) /\ ~Fails(p)
  <2>1. DOMAIN ct \subseteq DOMAIN ct' /\ monitors' = monitors
    BY <1>4 DEF CreateContainer, With
  <2>. QED  BY <2>1, MonitorsKept
<1>5. CASE (StartContainer(p) \/ StopContainer(p)) /\ ~Fails(p)
  <2>1. DOMAIN ct' = DOMAIN ct /\ monitors' = monitors
    BY <1>5 DEF StartContainer, StopContainer
  <2>. QED  BY <2>1, MonitorsKept
<1>6. CASE RemoveContainer(p) /\ ~Fails(p)
  <2>1. /\ DOMAIN ct' = DOMAIN ct \ {op[p].name}
        /\ monitors' = {m \in monitors : m[1] # op[p].name}
    BY <1>6 DEF RemoveContainer, Without, Restrict
  <2>. QED  BY <2>1, MonitorsKept
<1>7. CASE RegisterCluster(p) /\ ~Fails(p)
  <2>1. CASE Now(p).names = {}
    BY <1>2, <1>7, <2>1 DEF RegisterCluster, host
  <2>2. CASE Now(p).names # {}
    <3>1. PICK s \in Now(p).names :
                 /\ s \in DOMAIN ct /\ ct' = ct
                 /\ monitors' = monitors \cup {<<s, Now(p).cluster, Now(p).port>>}
      BY <1>7, <2>2 DEF RegisterCluster, Foremost
    <3>2. s.kind = "sentinel"
      BY <1>0, <1>7, NowShape DEF TaskShape, RegisterCluster, At
    <3>. QED  BY <3>1, <3>2 DEF MonitorsInv
  <2>. QED  BY <2>1, <2>2
<1>8. CASE ForgetCluster(p) /\ ~Fails(p)
  <2>1. ct' = ct /\ monitors' \subseteq monitors
    BY <1>8 DEF ForgetCluster, host
  <2>. QED  BY <2>1, MonitorsKept
<1>9. CASE \/ SaveState(p) \/ AdvanceState(p) \/ DeleteState(p) \/ EnsureContainer(p)
           \/ RestartContainer(p) \/ DropVolume(p) \/ RemoveNetwork(p)
  BY <1>1, <1>2, <1>9
     DEF SaveState, AdvanceState, DeleteState, EnsureContainer, RestartContainer, DropVolume,
         RemoveVolume, RemoveNetwork, host
<1>. QED  BY <1>1, <1>3, <1>4, <1>5, <1>6, <1>7, <1>8, <1>9 DEF Call

\* Every command begins with listings: the host is as it was.
LEMMA CommandHost ==
  ASSUME NEW p \in Proc, Command(p)
  PROVE  UNCHANGED host /\ cut \subseteq cut'
<1>1. CASE ClusterCreate(p) \/ InstanceAdd(p) \/ StartSentinel(p) \/ CreateAllocate(p)
  <2>1. \E ok, C, T : Claim(p, ok, C, T)
    BY <1>1 DEF ClusterCreate, InstanceAdd, StartSentinel, CreateAllocate
  <2>. QED  BY <2>1 DEF Claim, Abort
<1>2. CASE \/ ClusterRm(p) \/ InstanceRm(p) \/ SentinelAdd(p) \/ SentinelRm(p)
           \/ ObsStart(p) \/ RemoveLegacy(p) \/ ObsStop(p)
           \/ WorkloadStart(p) \/ WorkloadStop(p) \/ Sweep(p)
           \/ CreatePlan(p) \/ MonitorMaster(p) \/ UnwatchCluster(p)
  <2>1. \E ok, T : Proceed(p, ok, T)
    BY <1>2, Zenon DEF ClusterRm, InstanceRm, SentinelAdd, SentinelRm, ObsStart, RemoveLegacy,
           ObsStop, WorkloadStart, WorkloadStop, Sweep, CreatePlan, MonitorMaster, UnwatchCluster
  <2>. QED  BY <2>1 DEF Proceed, Abort, hist
<1>3. CASE Destroy(p)
  BY <1>3 DEF Destroy, hist
<1>. QED  BY <1>1, <1>2, <1>3 DEF Command

LEMMA MonitorsStep ==
  ASSUME Shapes, MonitorsInv, Next
  PROVE  MonitorsInv'
<1>1. ASSUME NEW n \in DOMAIN ct, Exit(n) PROVE MonitorsInv'
  <2>1. DOMAIN ct' = DOMAIN ct /\ monitors' = monitors
    BY <1>1, ExitForm
  <2>. QED  BY <2>1, MonitorsKept
<1>. SUFFICES ASSUME NEW p \in Proc,
                     \/ \E cmd \in Commands[p] : Begin(p, cmd)
                     \/ Command(p) \/ Call(p) \/ Finish(p)
                     \/ CallFails(p) \/ Interrupt(p)
              PROVE  MonitorsInv'
  BY <1>1 DEF Next
<1>2. CASE UNCHANGED <<ct, monitors>>
  BY <1>2, MonitorsKept
<1>3. CASE \/ \E cmd \in Commands[p] : Begin(p, cmd)
           \/ Command(p) \/ Finish(p) \/ Interrupt(p)
  <2>1. UNCHANGED host
    BY <1>3, CommandHost DEF Begin, Finish, Interrupt, Abort
  <2>. QED  BY <1>2, <2>1 DEF host
<1>4. CASE CallFails(p)
  BY <1>2, <1>4, FailsHost DEF CallFails
<1>. QED  BY <1>3, <1>4, MonitorsCall


\* A command that has ended and was alone: the volumes left are in use or leaked.
LEMMA AloneVolumes ==
  ASSUME Shapes, AloneInv, VolumesInv, NEW p \in Proc, op[p].cmd # Task("none"), op[p].alone,
         op[p].todo = <<>>, NEW v \in vols
  PROVE  v \in leaked \/ \E n \in DOMAIN ct : ct[n].volume = v /\ n = Redis(n.cluster, n.port)
                                             /\ v = RedisDataVolumeName(n.cluster, n.port)
<1>1. v # NoVolume /\ (InUse(ct, v) \/ InProgress(v) \/ v \in leaked)
  BY DEF VolumesInv, VolumesOwned
<1>2. \A q \in Proc : ~Running(q)
  BY DEF AloneInv, Shapes, CommandShape, Running
<1>3. ~InProgress(v)
  BY <1>2 DEF InProgress, AtRisk, At
<1>4. ASSUME NEW n \in DOMAIN ct, ct[n].volume = v
      PROVE  n = Redis(n.cluster, n.port) /\ v = RedisDataVolumeName(n.cluster, n.port)
  BY <1>1, <1>4 DEF Shapes, ContainerShape, OwnVolume
<1>. QED  BY <1>1, <1>3, <1>4 DEF InUse

CompletionInv == PortsInv /\ VolumesInv /\ AloneInv /\ MonitorsInv

LEMMA CompletionInvariant == Spec => []CompletionInv
<1>1. Init => AloneInv
  BY IdleFields DEF Init, AloneInv
<1>2. PortsInv /\ VolumesInv /\ AloneInv /\ [Next]_vars => AloneInv'
  <2>1. ASSUME PortsInv, AloneInv, Next PROVE AloneInv'
    BY <2>1, AloneStep DEF PortsInv
  <2>2. ASSUME AloneInv, UNCHANGED vars PROVE AloneInv'
    BY <2>2 DEF AloneInv, vars
  <2>. QED  BY <2>1, <2>2
<1>3. Init => MonitorsInv
  BY DEF Init, MonitorsInv
<1>4. PortsInv /\ VolumesInv /\ MonitorsInv /\ [Next]_vars => MonitorsInv'
  <2>1. ASSUME PortsInv, MonitorsInv, Next PROVE MonitorsInv'
    BY <2>1, MonitorsStep DEF PortsInv
  <2>2. ASSUME MonitorsInv, UNCHANGED vars PROVE MonitorsInv'
    BY <2>2 DEF MonitorsInv, vars
  <2>. QED  BY <2>1, <2>2
<1>. QED  BY <1>1, <1>2, <1>3, <1>4, VolumesInvariant, PTL DEF Spec, CompletionInv

\* A cluster rm of which no call failed, with no other command beside it, leaves
\* no container, monitor or file of the cluster, and no volume but leaked ones
\* (cluster.go, clusterRm; manager.go, StopAndRemove).
THEOREM ClusterRmIsComplete == Spec => []RmIsComplete
<1>1. Init => RmInv
  <2>1. Init => \A p \in Proc : op[p].cmd.do = "none"
    BY IdleFields DEF Init, Task
  <2>. QED  BY <2>1 DEF RmInv, SmoothRm, Smooth
<1>2. CompletionInv /\ RmInv /\ [Next]_vars => RmInv'
  <2>1. ASSUME PortsInv, AloneInv, MonitorsInv, RmInv, Next PROVE RmInv'
    BY <2>1, RmStep DEF PortsInv
  <2>2. ASSUME RmInv, UNCHANGED vars PROVE RmInv'
    BY <2>2 DEF RmInv, SmoothRm, Smooth, RmPlan, RmGiven, RmListed, RmForgets, RmRemoves,
                RmDeletes, RmDone, Clears, Left, Within, Watched, Unwatched, LastDelete, vars
  <2>. QED  BY <2>1, <2>2 DEF CompletionInv
<1>3. CompletionInv /\ RmInv => RmIsComplete
  <2>. SUFFICES ASSUME CompletionInv, RmInv, NEW p \in Proc, Completed(p, "cluster rm"),
                       NEW c, c = op[p].cmd.cluster
                PROVE  /\ ListClusterContainers(ct, c) = {} /\ c \notin files
                       /\ \A m \in monitors : m[2] # c
                       /\ \A v \in vols : v[1] = c => v \in leaked
    BY DEF RmIsComplete
  <2>1. RmPlan(op[p], c) /\ op[p].todo = <<>> /\ op[p].cmd # Task("none") /\ op[p].alone
    BY DEF RmInv, SmoothRm, Smooth, Completed, Ended
  <2>2. \A a, R : IsSeq(R) => Pre(a, R) # <<>>
    BY PreParts
  <2>3. IsSeq(<<>>) /\ IsSeq(LastDelete(c))
    BY NoTasksIsSeq, PreParts DEF LastDelete
  <2>4. \A S : IsSeq(Pre(StopAndRemove(S, FALSE), LastDelete(c)))
    BY <2>3, PreParts
  <2>5. RmDone(op[p], c)
    BY <2>1, <2>2, <2>3, <2>4
       DEF RmPlan, RmGiven, RmListed, RmForgets, RmRemoves, RmDeletes, Clears, LastDelete
  <2>6. ListClusterContainers(ct, c) = {} /\ c \notin files /\ \A m \in monitors : m[2] # c
    BY <2>5 DEF RmDone, Within, Unwatched
  <2>7. ASSUME NEW v \in vols, v[1] = c, v \notin leaked PROVE FALSE
    <3>1. PICK n \in DOMAIN ct : v = RedisDataVolumeName(n.cluster, n.port)
      BY <2>1, <2>7, AloneVolumes DEF CompletionInv, PortsInv
    <3>2. n \in ListClusterContainers(ct, c)
      BY <2>7, <3>1 DEF RedisDataVolumeName, ListClusterContainers, ListContainers
    <3>. QED  BY <2>6, <3>2
  <2>. QED  BY <2>6, <2>7
<1>. QED  BY <1>1, <1>2, <1>3, CompletionInvariant, PTL DEF Spec

-------------------------------------------------------------------------------
(* What does not run has exited or was cut short, or a command has it in hand. *)

Busy(o, n) == /\ o.todo # <<>>
              /\ \/ o.step = "start" /\ Head(o.todo).do = "start" /\ Head(o.todo).name = n
                 \/ o.step = "rm" /\ Head(o.todo).do = "remove" /\ o.name = n

UpInv == \A n \in DOMAIN ct : ct[n].running \/ n \in cut \/ \E q \in Proc : Busy(op[q], n)

UpBy(p) ==
  /\ \A q \in Proc \ {p} : \A n : Busy(op[q], n) => Busy(op'[q], n)
  /\ \A n \in DOMAIN ct' : \/ ct'[n].running \/ n \in cut' \/ Busy(op'[p], n)
                           \/ n \in DOMAIN ct /\ ~ct[n].running /\ ~Busy(op[p], n) /\ n \notin cut

LEMMA UpByStep ==
  ASSUME UpInv, NEW p \in Proc, UpBy(p)
  PROVE  UpInv'
<1>. SUFFICES ASSUME NEW n \in DOMAIN ct', ~ct'[n].running, n \notin cut', ~Busy(op'[p], n)
              PROVE  \E q \in Proc : Busy(op'[q], n)
  BY DEF UpInv
<1>1. n \in DOMAIN ct /\ ~ct[n].running /\ ~Busy(op[p], n) /\ n \notin cut
  BY DEF UpBy
<1>2. PICK q \in Proc : Busy(op[q], n)
  BY <1>1 DEF UpInv
<1>3. q # p
  BY <1>1, <1>2
<1>. QED  BY <1>2, <1>3 DEF UpBy

LEMMA UpQuiet ==
  ASSUME NEW p \in Proc, Own(p), ct' = ct, cut \subseteq cut', \A n : Busy(op[p], n) => n \in cut'
  PROVE  UpBy(p)
BY DEF Own, UpBy

LEMMA UpAtBegin ==
  ASSUME NEW p \in Proc, Own(p), ct' = ct, cut \subseteq cut', op[p].step \notin {"start", "rm"}
  PROVE  UpBy(p)
BY UpQuiet DEF Busy

LEMMA AbortUp ==
  ASSUME NEW p \in Proc, Running(p)
  PROVE  Abort(p) \/ (\E o : GoOn(p, o)) =>
           ct' = ct /\ cut \subseteq cut' /\ \A n : Busy(op[p], n) => n \in cut'
<1>1. \A n : Busy(op[p], n) => n \in InHand(p)
  BY DEF Busy, InHand, Now, Running
<1>. QED  BY <1>1 DEF Abort, GoOn, host

LEMMA FailsUp ==
  ASSUME Shapes, NEW p \in Proc, Running(p), Fails(p)
  PROVE  UpBy(p)
<1>0. Own(p)
  BY FailsSpoil
<1>1. CASE Abort(p)
  BY <1>0, <1>1, AbortUp, UpQuiet
<1>2. CASE At(p, "remove", "begin") /\ InspectFails(p)
  BY <1>0, <1>2, UpAtBegin DEF At, InspectFails, host, hist
<1>3. CASE \E T : QuietTasks(T) /\ GoOn(p, Then(p, T))
  BY <1>0, <1>3, AbortUp, UpQuiet
<1>. QED  BY <1>1, <1>2, <1>3, FailsSteps

LEMMA CommandUp ==
  ASSUME Shapes, NEW p \in Proc, Command(p)
  PROVE  UpBy(p)
<1>1. op[p].step = "begin"
  BY DEF Command, ClusterCreate, InstanceAdd, StartSentinel, CreateAllocate, CreatePlan, ClusterRm,
         MonitorMaster, UnwatchCluster, InstanceRm, SentinelAdd, SentinelRm, ObsStart, RemoveLegacy,
         ObsStop, WorkloadStart, WorkloadStop, Sweep, Destroy, Runs, At
<1>2. ct' = ct /\ cut \subseteq cut'
  BY CommandHost DEF host
<1>. QED  BY <1>1, <1>2, CommandOwn, UpAtBegin

LEMMA CallUp ==
  ASSUME Shapes, NEW p \in Proc, Call(p), ~Fails(p)
  PROVE  UpBy(p)
<1>0. Running(p) /\ Own(p)
  BY Acts, CallOwn
<1>2. CASE UNCHANGED <<ct, cut>> /\ op[p].step \notin {"start", "rm"}
  BY <1>0, <1>2, UpAtBegin
<1>3. CASE EnsureNetwork(p) \/ EnsureVolume(p) \/ Inspect(p) \/ RemoveDataVolume(p)
  <2>1. op[p].step \notin {"start", "rm"}
    BY <1>3 DEF EnsureNetwork, EnsureVolume, Inspect, RemoveDataVolume, At
  <2>. QED  BY <1>2, <1>3, <2>1
            DEF EnsureNetwork, EnsureVolume, Inspect, RemoveDataVolume, RemoveVolume, host, hist
<1>4. CASE \/ SaveState(p) \/ AdvanceState(p) \/ DeleteState(p)
           \/ EnsureContainer(p) \/ RestartContainer(p) \/ DropVolume(p) \/ RemoveNetwork(p)
  <2>1. op[p].step \notin {"start", "rm"}
    BY <1>4 DEF SaveState, AdvanceState, DeleteState, EnsureContainer,
                RestartContainer, DropVolume, RemoveNetwork, At
  <2>. QED  BY <1>2, <1>4, <2>1
            DEF SaveState, AdvanceState, DeleteState, EnsureContainer,
                RestartContainer, DropVolume, RemoveVolume, RemoveNetwork, host, hist
<1>9. CASE RegisterCluster(p) \/ ForgetCluster(p)
  <2>1. op[p].step \notin {"start", "rm"}
    BY <1>9 DEF RegisterCluster, ForgetCluster, At
  <2>. QED  BY <1>2, <1>9, <2>1 DEF RegisterCluster, ForgetCluster, host, hist
<1>5. CASE CreateContainer(p)
  <2>. PICK n : n = Now(p).name
    OBVIOUS
  <2>1. /\ ct' = With(ct, n, Now(p).role, Now(p).volume, p) /\ op' = Step(p, "start")
        /\ cut' = cut \ {n} /\ op[p].step = "create" /\ Now(p).do = "start"
    BY <1>5 DEF CreateContainer, At, hist
  <2>2. DOMAIN ct' = DOMAIN ct \cup {n} /\ \A m \in DOMAIN ct : m # n => ct'[m] = ct[m]
    BY <2>1 DEF With
  <2>3. op'[p].todo = op[p].todo /\ op'[p].step = "start"
    BY <2>1, StepForm
  <2>4. Busy(op'[p], n)
    BY <1>0, <2>1, <2>3 DEF Busy, Now, Running
  <2>5. \A m : ~Busy(op[p], m)
    BY <2>1 DEF Busy
  <2>. QED  BY <1>0, <2>1, <2>2, <2>4, <2>5 DEF UpBy, Own
<1>6. CASE StartContainer(p)
  <2>. PICK n : n = Now(p).name
    OBVIOUS
  <2>1. /\ ct' = [ct EXCEPT ![n].running = TRUE] /\ cut' = cut
        /\ n \in DOMAIN ct /\ op[p].step = "start" /\ Now(p).do = "start"
    BY <1>6 DEF StartContainer, CanStart, At
  <2>2. DOMAIN ct[n] = {"role", "running", "volume", "maker"}
    BY <2>1 DEF Shapes, ContainerShape
  <2>3. DOMAIN ct' = DOMAIN ct /\ ct'[n].running /\ \A m \in DOMAIN ct \ {n} : ct'[m] = ct[m]
    BY <2>1, <2>2
  <2>4. \A m : Busy(op[p], m) => m = n
    BY <2>1 DEF Busy, Now
  <2>. QED  BY <1>0, <2>1, <2>3, <2>4 DEF UpBy, Own
<1>7. CASE StopContainer(p)
  <2>. PICK n : n = op[p].name
    OBVIOUS
  <2>1. /\ ct' = [ct EXCEPT ![n].running = FALSE] /\ cut' = cut /\ op' = Step(p, "rm")
        /\ op[p].step = "stop" /\ Now(p).do = "remove"
    BY <1>7 DEF StopContainer, At, hist
  <2>2. DOMAIN ct' = DOMAIN ct /\ \A m \in DOMAIN ct \ {n} : ct'[m] = ct[m]
    BY <2>1
  <2>3. op'[p].todo = op[p].todo /\ op'[p].step = "rm" /\ op'[p].name = n
    BY <2>1, StepForm
  <2>4. Busy(op'[p], n)
    BY <1>0, <2>1, <2>3 DEF Busy, Now, Running
  <2>5. \A m : ~Busy(op[p], m)
    BY <2>1 DEF Busy
  <2>. QED  BY <1>0, <2>1, <2>2, <2>4, <2>5 DEF UpBy, Own
<1>8. CASE RemoveContainer(p)
  <2>. PICK n : n = op[p].name
    OBVIOUS
  <2>1. ct' = Without(ct, n) /\ cut' = cut /\ op[p].step = "rm" /\ Now(p).do = "remove"
    BY <1>8 DEF RemoveContainer, At
  <2>2. DOMAIN ct' = DOMAIN ct \ {n} /\ \A m \in DOMAIN ct' : ct'[m] = ct[m]
    BY <2>1 DEF Without, Restrict
  <2>3. \A m : Busy(op[p], m) => m = n
    BY <2>1 DEF Busy, Now
  <2>. QED  BY <1>0, <2>1, <2>2, <2>3 DEF UpBy, Own
<1>. QED  BY <1>3, <1>4, <1>5, <1>6, <1>7, <1>8, <1>9 DEF Call

LEMMA UpStep ==
  ASSUME Shapes, UpInv, Next
  PROVE  UpInv'
<1>7. ASSUME NEW n \in DOMAIN ct, Exit(n) PROVE UpInv'
  <2>1. /\ DOMAIN ct' = DOMAIN ct /\ \A m \in DOMAIN ct : m # n => ct'[m].running = ct[m].running
        /\ cut' = cut \cup {n}
        /\ \A q \in Proc : /\ op'[q].todo = op[q].todo /\ op'[q].step = op[q].step
                           /\ op'[q].name = op[q].name
    BY <1>7, ExitForm
  <2>2. \A q \in Proc : \A m : Busy(op[q], m) => Busy(op'[q], m)
    BY <2>1 DEF Busy
  <2>. QED  BY <2>1, <2>2 DEF UpInv
<1>. SUFFICES ASSUME NEW p \in Proc,
                     \/ \E cmd \in Commands[p] : Begin(p, cmd)
                     \/ Command(p) \/ Call(p) \/ Finish(p)
                     \/ CallFails(p) \/ Interrupt(p)
              PROVE  UpBy(p)
  BY <1>7, UpByStep DEF Next
<1>1. CASE \E cmd \in Commands[p] : Begin(p, cmd)
  <2>1. PICK cmd \in Commands[p] : Begin(p, cmd)
    BY <1>1
  <2>2. op[p].todo = <<>>
    BY <2>1, BeginForm DEF Shapes, CommandShape
  <2>3. \A q \in Proc \ {p} : /\ op'[q].todo = op[q].todo /\ op'[q].step = op[q].step
                              /\ op'[q].name = op[q].name
    BY <2>1 DEF Begin, Shapes, CommandShape, Fields
  <2>4. ct' = ct /\ cut' = cut
    BY <2>1, BeginForm DEF host, hist
  <2>. QED  BY <2>2, <2>3, <2>4 DEF UpBy, Busy
<1>2. CASE Command(p)
  BY <1>2, CommandUp
<1>3. CASE Call(p)
  BY <1>3, Acts, FailsUp, CallUp
<1>4. CASE Finish(p)
  <2>1. Own(p) /\ ct' = ct /\ cut' = cut /\ op[p].todo = <<>>
    BY <1>4, StepOwn DEF Finish, Ended, host, hist
  <2>. QED  BY <2>1, UpQuiet DEF Busy
<1>5. CASE CallFails(p)
  BY <1>5, FailsUp DEF CallFails
<1>6. CASE Interrupt(p)
  BY <1>6, StepOwn, AbortUp, UpQuiet DEF Interrupt
<1>. QED  BY <1>1, <1>2, <1>3, <1>4, <1>5, <1>6

-------------------------------------------------------------------------------
(* obs start. *)

SameCommand(p) == op'[p].cmd = op[p].cmd /\ op'[p].seen = op[p].seen

\* What a start before the tasks R goes on to.
StartNext(p, n, R) ==
  /\ DOMAIN ct \subseteq DOMAIN ct' /\ files' = files
  /\ SameCommand(p)
  /\ \/ op'[p].todo = op[p].todo
     \/ op'[p].todo = R /\ op'[p].step = "begin" /\ n \in DOMAIN ct' /\ ct'[n].running

LEMMA StartStep ==
  ASSUME Shapes, NEW p \in Proc, NEW n, NEW r, NEW v, NEW R, IsSeq(R),
         op[p].todo = Pre(Start(n, r, v), R),
         Command(p) \/ Call(p), ~Fails(p)
  PROVE  StartNext(p, n, R)
<1>1. Now(p) = Start(n, r, v)
  BY NowPre
<1>2. Now(p).do = "start" /\ Now(p).name = n
  BY <1>1 DEF Start
<1>3. EnsureVolume(p) \/ CreateContainer(p) \/ StartContainer(p)
  BY <1>2, Acts
<1>4. CASE EnsureVolume(p)
  <2>1. op' = Step(p, "create") /\ UNCHANGED <<ct, files>>
    BY <1>4 DEF EnsureVolume
  <2>2. op'[p].todo = op[p].todo /\ SameCommand(p)
    BY <2>1, StepForm DEF SameCommand
  <2>. QED  BY <2>1, <2>2 DEF StartNext
<1>5. CASE CreateContainer(p)
  <2>1. op' = Step(p, "start") /\ UNCHANGED files /\ DOMAIN ct \subseteq DOMAIN ct'
    BY <1>5 DEF CreateContainer, With
  <2>2. op'[p].todo = op[p].todo /\ SameCommand(p)
    BY <2>1, StepForm DEF SameCommand
  <2>. QED  BY <2>1, <2>2 DEF StartNext
<1>6. CASE StartContainer(p)
  <2>1. /\ op' = NextTask(p) /\ UNCHANGED files /\ n \in DOMAIN ct
        /\ ct' = [ct EXCEPT ![n].running = TRUE]
    BY <1>2, <1>6 DEF StartContainer, CanStart
  <2>2. DOMAIN ct[n] = {"role", "running", "volume", "maker"}
    BY <2>1 DEF Shapes, ContainerShape
  <2>3. DOMAIN ct = DOMAIN ct' /\ ct'[n].running
    BY <2>1, <2>2
  <2>. QED  BY <2>1, <2>3, NextPre DEF StartNext, SameCommand
<1>. QED  BY <1>3, <1>4, <1>5, <1>6

LEMMA ObsNames ==
  /\ Exporter # Prometheus /\ Exporter # Grafana /\ Prometheus # Grafana
  /\ Exporter # LegacyExporter /\ Grafana # LegacyExporter /\ Prometheus # LegacyExporter
BY DEF Exporter, Prometheus, Grafana, LegacyExporter, Service

ToPrometheus == Pre(Ensure(Prometheus), Pre(Restart(Grafana), <<>>))
ToExporter   == Pre(Ensure(Exporter), ToPrometheus)
ToGrafana    == Pre(Restart(Grafana), <<>>)
Starting(o, n, R) == \E r, v : o.todo = Pre(Start(n, r, v), R)

\* obs start: given, listed, the legacy exporter removed, each part there in turn.
ObsGiven(o)      == o.todo = Pre(o.cmd, <<>>)
ObsListed(o)     == o.todo = Pre(Task("network"), Pre(Task("legacy"), ToExporter))
ObsLegacy(o)     == o.todo = Pre(Task("legacy"), ToExporter)
ObsRemoves(o)    == \E S : Clears(o, S, FALSE, ToExporter)
ObsExporter(o)   == o.todo = ToExporter \/ Starting(o, Exporter, ToPrometheus)
ObsPrometheus(o) == /\ o.todo = ToPrometheus \/ Starting(o, Prometheus, ToGrafana)
                    /\ Exporter \in DOMAIN ct
ObsGrafana(o)    == /\ \/ o.todo = ToGrafana \/ Starting(o, Grafana, <<>>)
                       \/ \E S \in SUBSET {Grafana} :
                            Clears(o, S, TRUE, Pre(Start(Grafana, Grafana.kind, NoVolume), <<>>))
                    /\ {Exporter, Prometheus} \subseteq DOMAIN ct
ObsDone(o)       == /\ o.todo = <<>> /\ Observability \subseteq DOMAIN ct
                    /\ o.steady => ct[Grafana].running

ObsPlan(o) ==
  \/ ObsGiven(o) \/ ObsListed(o) \/ ObsLegacy(o) \/ ObsRemoves(o)
  \/ ObsExporter(o) \/ ObsPrometheus(o) \/ ObsGrafana(o) \/ ObsDone(o)

SmoothObs(p) == Smooth(p, "obs start")

ObsInv == \A p \in Proc : SmoothObs(p) => ObsPlan(op[p])

LEMMA ObsSeqs == IsSeq(<<>>) /\ IsSeq(ToGrafana) /\ IsSeq(ToPrometheus) /\ IsSeq(ToExporter)
<1>1. IsSeq(<<>>)
  BY NoTasksIsSeq
<1>2. IsSeq(ToGrafana)
  BY <1>1, PreParts DEF ToGrafana
<1>3. IsSeq(ToPrometheus)
  BY <1>1, PreParts DEF ToPrometheus
<1>4. IsSeq(ToExporter)
  BY <1>3, PreParts DEF ToExporter
<1>. QED  BY <1>1, <1>2, <1>3, <1>4

\* What an ensure before the tasks R goes on to.
LEMMA EnsureStep ==
  ASSUME Shapes, NEW p \in Proc, NEW n, NEW R, IsSeq(R), op[p].todo = Pre(Ensure(n), R),
         Command(p) \/ Call(p)
  PROVE  /\ ct' = ct /\ SameCommand(p) /\ op'[p].step = "begin" /\ files' = files
         /\ (op'[p].todo = R /\ n \in DOMAIN ct) \/ Starting(op'[p], n, R)
<1>1. Now(p) = Ensure(n)
  BY NowPre
<1>2. Now(p).do = "ensure" /\ Now(p).name = n
  BY <1>1 DEF Ensure
<1>3. EnsureContainer(p)
  BY <1>2, Acts
<1>4. ct' = ct /\ files' = files
  BY <1>3 DEF EnsureContainer, host
<1>. DEFINE t == Start(n, n.kind, NoVolume)
<1>5. \/ op' = NextTask(p) /\ n \in DOMAIN ct
      \/ op' = Then(p, <<t>>)
  BY <1>2, <1>3 DEF EnsureContainer, ListContainers
<1>. HIDE DEF t
<1>6. CASE op' = NextTask(p) /\ n \in DOMAIN ct
  BY <1>4, <1>6, NextPre DEF SameCommand
<1>7. CASE op' = Then(p, <<t>>)
  <2>1. op'[p].todo = <<t>> \o R /\ SameCommand(p) /\ op'[p].step = "begin"
    BY <1>7, ThenPre DEF SameCommand
  <2>2. op'[p].todo = Pre(t, R)
    BY <2>1 DEF Pre
  <2>3. Starting(op'[p], n, R)
    BY <2>2 DEF Starting, t
  <2>. QED  BY <1>4, <2>1, <2>3
<1>. QED  BY <1>5, <1>6, <1>7

LEMMA RestartStep ==
  ASSUME Shapes, NEW p \in Proc, NEW n, NEW R, IsSeq(R), op[p].todo = Pre(Restart(n), R),
         Command(p) \/ Call(p)
  PROVE  /\ ct' = ct /\ SameCommand(p) /\ files' = files
         /\ Clears(op'[p], {n} \cap DOMAIN ct, TRUE, Pre(Start(n, n.kind, NoVolume), R))
         /\ op'[p].step = "begin"
<1>1. Now(p) = Restart(n)
  BY NowPre
<1>2. Now(p).do = "restart" /\ Now(p).name = n
  BY <1>1 DEF Restart
<1>3. RestartContainer(p)
  BY <1>2, Acts
<1>4. ct' = ct /\ files' = files
  BY <1>3 DEF RestartContainer, host
<1>. DEFINE a == StopAndRemove({n} \cap DOMAIN ct, TRUE)
            b == Start(n, n.kind, NoVolume)
            T == <<a, b>>
<1>5. op' = Then(p, T)
  BY <1>2, <1>3 DEF RestartContainer, ListContainers
<1>. HIDE DEF a, b
<1>6. T \o R = Pre(a, Pre(b, R))
  BY PreTwo
<1>. HIDE DEF T
<1>7. op'[p].todo = T \o R /\ SameCommand(p) /\ op'[p].step = "begin"
  BY <1>5, ThenPre DEF SameCommand
<1>. QED  BY <1>4, <1>6, <1>7 DEF Clears, a, b

LEMMA ObsOwnStep ==
  ASSUME Shapes, NEW p \in Proc, Command(p) \/ Call(p), ~Fails(p), op'[p] # Idle,
         SmoothObs(p), ObsPlan(op[p])
  PROVE  ObsPlan(op[p])'
<1>0. Running(p)
  BY Acts
<1>1. ASSUME ObsGiven(op[p]) PROVE ObsListed(op[p])'
  <2>1. op[p].todo = Pre(op[p].cmd, <<>>)
    BY <1>1 DEF ObsGiven
  <2>2. Now(p) = op[p].cmd
    BY <2>1, ObsSeqs, NowPre
  <2>3. ObsStart(p)
    BY <2>2, Acts DEF Smooth, SmoothObs
  <2>. DEFINE a == Task("network")
              b == Task("legacy")
              T == <<a, b, Ensure(Exporter), Ensure(Prometheus), Restart(Grafana)>>
  <2>4. op' = Then(p, T)
    BY <2>3, DieForm DEF ObsStart, Proceed, Abort
  <2>5. T \o <<>> = Pre(a, Pre(b, ToExporter))
    BY FiveLast DEF ToExporter, ToPrometheus
  <2>. HIDE DEF T
  <2>6. op'[p].todo = T \o <<>>
    BY <2>1, <2>4, ObsSeqs, ThenPre
  <2>. QED  BY <2>5, <2>6 DEF ObsListed
<1>2. ASSUME ObsListed(op[p]) PROVE ObsLegacy(op[p])'
  <2>. DEFINE R == Pre(Task("legacy"), ToExporter)
  <2>1. op[p].todo = Pre(Task("network"), R) /\ IsSeq(R)
    BY <1>2, ObsSeqs, PreParts DEF ObsListed
  <2>. HIDE DEF R
  <2>2. Now(p) = Task("network")
    BY <2>1, NowPre
  <2>3. EnsureNetwork(p)
    <3>1. Now(p).do = "network"
      BY <2>2 DEF Task
    <3>. QED  BY <3>1, Acts
  <2>4. op' = NextTask(p)
    BY <2>3 DEF EnsureNetwork
  <2>. QED  BY <2>1, <2>4, NextPre DEF R, ObsLegacy
<1>3. ASSUME ObsLegacy(op[p]) PROVE ObsRemoves(op[p])'
  <2>1. op[p].todo = Pre(Task("legacy"), ToExporter)
    BY <1>3 DEF ObsLegacy
  <2>2. Now(p) = Task("legacy")
    BY <2>1, ObsSeqs, NowPre
  <2>3. RemoveLegacy(p)
    <3>1. Now(p).do = "legacy"
      BY <2>2 DEF Task
    <3>. QED  BY <3>1, Acts
  <2>4. PICK S : op' = Then(p, <<StopAndRemove(S, FALSE)>>)
    BY <2>3, DieForm DEF RemoveLegacy, Proceed, Abort
  <2>5. op'[p].todo = <<StopAndRemove(S, FALSE)>> \o ToExporter /\ op'[p].step = "begin"
    BY <2>1, <2>4, ObsSeqs, ThenPre
  <2>6. Clears(op'[p], S, FALSE, ToExporter)
    BY <2>5 DEF Clears, Pre
  <2>. QED  BY <2>6 DEF ObsRemoves
<1>4. ASSUME ObsRemoves(op[p]) PROVE (ObsRemoves(op[p]) \/ ObsExporter(op[p]))'
  <2>1. PICK S : Clears(op[p], S, FALSE, ToExporter)
    BY <1>4 DEF ObsRemoves
  <2>2. RemoveNext(p, S, FALSE, ToExporter)
    BY <2>1, ObsSeqs, RemoveStep
  <2>. QED  BY <2>2 DEF RemoveNext, ObsRemoves, ObsExporter
<1>5. ASSUME ObsExporter(op[p]) PROVE (ObsExporter(op[p]) \/ ObsPrometheus(op[p]))'
  <2>1. CASE op[p].todo = ToExporter
    <3>1. \/ op'[p].todo = ToPrometheus /\ Exporter \in DOMAIN ct'
          \/ Starting(op'[p], Exporter, ToPrometheus)
      BY <2>1, ObsSeqs, EnsureStep DEF ToExporter
    <3>. QED  BY <3>1 DEF ObsExporter, ObsPrometheus
  <2>2. CASE Starting(op[p], Exporter, ToPrometheus)
    <3>1. StartNext(p, Exporter, ToPrometheus)
      BY <2>2, ObsSeqs, StartStep DEF Starting
    <3>. QED  BY <2>2, <3>1 DEF StartNext, Starting, ObsExporter, ObsPrometheus
  <2>. QED  BY <1>5, <2>1, <2>2 DEF ObsExporter
<1>6. ASSUME ObsPrometheus(op[p]) PROVE (ObsPrometheus(op[p]) \/ ObsGrafana(op[p]))'
  <2>0. Exporter \in DOMAIN ct
    BY <1>6 DEF ObsPrometheus
  <2>1. CASE op[p].todo = ToPrometheus
    <3>1. \/ op'[p].todo = ToGrafana /\ Prometheus \in DOMAIN ct'
          \/ Starting(op'[p], Prometheus, ToGrafana)
      BY <2>1, ObsSeqs, EnsureStep DEF ToPrometheus, ToGrafana
    <3>2. ct' = ct
      BY <2>1, ObsSeqs, EnsureStep DEF ToPrometheus, ToGrafana
    <3>. QED  BY <2>0, <3>1, <3>2 DEF ObsPrometheus, ObsGrafana
  <2>2. CASE Starting(op[p], Prometheus, ToGrafana)
    <3>1. StartNext(p, Prometheus, ToGrafana)
      BY <2>2, ObsSeqs, StartStep DEF Starting
    <3>. QED  BY <2>0, <2>2, <3>1 DEF StartNext, Starting, ObsPrometheus, ObsGrafana
  <2>. QED  BY <1>6, <2>1, <2>2 DEF ObsPrometheus
<1>7. ASSUME ObsGrafana(op[p]) PROVE (ObsGrafana(op[p]) \/ ObsDone(op[p]))'
  <2>. DEFINE R == Pre(Start(Grafana, Grafana.kind, NoVolume), <<>>)
  <2>0. IsSeq(R) /\ {Exporter, Prometheus} \subseteq DOMAIN ct
    BY <1>7, ObsSeqs, PreParts DEF ObsGrafana
  <2>1. CASE op[p].todo = ToGrafana
    <3>1. Clears(op'[p], {Grafana} \cap DOMAIN ct, TRUE, R) /\ ct' = ct
      BY <2>1, ObsSeqs, RestartStep DEF ToGrafana
    <3>. QED  BY <2>0, <3>1 DEF ObsGrafana
  <2>2. CASE Starting(op[p], Grafana, <<>>)
    <3>1. StartNext(p, Grafana, <<>>)
      BY <2>2, ObsSeqs, StartStep DEF Starting
    <3>2. CASE op'[p].todo = op[p].todo
      BY <2>0, <2>2, <3>1, <3>2 DEF StartNext, Starting, ObsGrafana
    <3>3. CASE op'[p].todo = <<>> /\ Grafana \in DOMAIN ct' /\ ct'[Grafana].running
      BY <2>0, <3>1, <3>3 DEF StartNext, ObsDone, Observability
    <3>. QED  BY <3>1, <3>2, <3>3 DEF StartNext
  <2>3. ASSUME NEW S \in SUBSET {Grafana}, Clears(op[p], S, TRUE, R)
        PROVE  ObsGrafana(op[p])'
    <3>. HIDE DEF R
    <3>1. RemoveNext(p, S, TRUE, R)
      BY <2>0, <2>3, RemoveStep
    <3>2. {Exporter, Prometheus} \subseteq DOMAIN ct'
      BY <2>0, <3>1, ObsNames DEF RemoveNext, OnlyNames
    <3>3. CASE op'[p].todo = R
      BY <3>2, <3>3 DEF R, Starting, ObsGrafana
    <3>4. CASE \E T \in SUBSET S : Clears(op'[p], T, TRUE, R)
      BY <3>2, <3>4 DEF R, ObsGrafana
    <3>. QED  BY <3>1, <3>3, <3>4 DEF RemoveNext
  <2>. QED  BY <1>7, <2>1, <2>2, <2>3 DEF ObsGrafana
<1>8. ~ObsDone(op[p])
  BY <1>0 DEF ObsDone, Running
<1>. QED  BY <1>1, <1>2, <1>3, <1>4, <1>5, <1>6, <1>7, <1>8 DEF ObsPlan

LEMMA ObsStep ==
  ASSUME Shapes, AloneInv, ObsInv, Next
  PROVE  ObsInv'
<1>. SUFFICES ASSUME NEW p \in Proc, SmoothObs(p)'
              PROVE  ObsPlan(op[p])'
  BY DEF ObsInv
<1>1. ASSUME NEW cmd \in Commands[p], Begin(p, cmd), cmd.do # "quickstart"
      PROVE  ObsPlan(op[p])'
  <2>1. op'[p].todo = Pre(op'[p].cmd, <<>>)
    BY <1>1, GivenForm
  <2>. QED  BY <2>1 DEF ObsPlan, ObsGiven
<1>2. CASE /\ Command(p) \/ Call(p)
           /\ SmoothObs(p) /\ Own(p) /\ Running(p) /\ ~Fails(p) /\ op'[p] # Idle
  BY <1>2, ObsOwnStep DEF ObsInv
<1>3. ASSUME NEW n \in DOMAIN ct, Exit(n), SmoothObs(p)
      PROVE  ObsPlan(op[p])'
  <2>1. /\ op'[p].cmd = op[p].cmd /\ op'[p].todo = op[p].todo /\ op'[p].step = op[p].step
        /\ op'[p].name = op[p].name /\ op'[p].steady = FALSE /\ DOMAIN ct' = DOMAIN ct
    BY <1>3, ExitForm
  <2>2. \A S, m, R : Clears(op[p], S, m, R)' <=> Clears(op[p], S, m, R)
    BY <2>1 DEF Clears
  <2>3. \A m, R : Starting(op[p], m, R)' <=> Starting(op[p], m, R)
    BY <2>1 DEF Starting
  <2>4. ObsPlan(op[p])
    BY <1>3 DEF ObsInv
  <2>5. /\ ObsGiven(op[p]) => ObsGiven(op[p])'
        /\ ObsListed(op[p]) => ObsListed(op[p])'
        /\ ObsLegacy(op[p]) => ObsLegacy(op[p])'
        /\ ObsDone(op[p]) => ObsDone(op[p])'
    BY <2>1 DEF ObsGiven, ObsListed, ObsLegacy, ObsDone, ToExporter, ToPrometheus
  <2>6. ObsRemoves(op[p]) => ObsRemoves(op[p])'
    BY <2>2 DEF ObsRemoves, ToExporter, ToPrometheus
  <2>7. /\ ObsExporter(op[p]) => ObsExporter(op[p])'
        /\ ObsPrometheus(op[p]) => ObsPrometheus(op[p])'
    BY <2>1, <2>3 DEF ObsExporter, ObsPrometheus, ToExporter, ToPrometheus, ToGrafana
  <2>8. ObsGrafana(op[p]) => ObsGrafana(op[p])'
    BY <2>1, <2>2, <2>3 DEF ObsGrafana, ToGrafana
  <2>. QED  BY <2>4, <2>5, <2>6, <2>7, <2>8 DEF ObsPlan
<1>. QED  BY <1>1, <1>2, <1>3, SmoothStep DEF SmoothObs

\* Whatever ended or exited before, obs start that completes leaves every part of
\* the stack: Grafana running, the two it does not replace running or as an exit or
\* an earlier command left them (cmd/obs.go:90-148; docker/obs.go, StartPrometheus,
\* StartGrafana, StartSharedRedisExporter).
THEOREM ObsStartIsUp == Spec => []ObsIsUp
<1>1. Init => ObsInv /\ UpInv
  <2>1. Init => \A p \in Proc : op[p].cmd.do = "none"
    BY IdleFields DEF Init, Task
  <2>2. Init => ObsInv
    BY <2>1 DEF ObsInv, SmoothObs, Smooth
  <2>3. Init => UpInv
    BY DEF Init, UpInv
  <2>. QED  BY <2>2, <2>3
<1>2. CompletionInv /\ ObsInv /\ UpInv /\ [Next]_vars => (ObsInv /\ UpInv)'
  <2>1. ASSUME CompletionInv, ObsInv, UpInv, Next PROVE (ObsInv /\ UpInv)'
    BY <2>1, ObsStep, UpStep DEF CompletionInv, PortsInv
  <2>2. ASSUME ObsInv, UNCHANGED vars PROVE ObsInv'
    BY <2>2 DEF ObsInv, SmoothObs, Smooth, ObsPlan, ObsGiven, ObsListed, ObsLegacy, ObsRemoves,
                ObsExporter, ObsPrometheus, ObsGrafana, ObsDone, Starting, Clears,
                ToExporter, ToPrometheus, ToGrafana, vars
  <2>3. ASSUME UpInv, UNCHANGED vars PROVE UpInv'
    BY <2>3 DEF UpInv, Busy, vars
  <2>. QED  BY <2>1, <2>2, <2>3
<1>3. CompletionInv /\ ObsInv /\ UpInv => ObsIsUp
  <2>. SUFFICES ASSUME CompletionInv, ObsInv, UpInv, NEW p \in Proc, Completed(p, "obs start")
                PROVE  /\ Observability \subseteq DOMAIN ct
                       /\ op[p].steady => ct[Grafana].running
                       /\ \A n \in {Exporter, Prometheus} : ct[n].running \/ n \in cut
    BY DEF ObsIsUp
  <2>1. ObsPlan(op[p]) /\ op[p].todo = <<>> /\ op[p].cmd # Task("none") /\ op[p].alone
    BY DEF ObsInv, SmoothObs, Smooth, Completed, Ended
  <2>2. \A a, R : IsSeq(R) => Pre(a, R) # <<>>
    BY PreParts
  <2>3. IsSeq(Pre(Task("legacy"), ToExporter)) /\ \A t : IsSeq(Pre(t, <<>>))
    BY ObsSeqs, PreParts
  <2>4. ~ObsGiven(op[p]) /\ ~ObsListed(op[p]) /\ ~ObsLegacy(op[p])
    BY <2>1, <2>2, <2>3, ObsSeqs DEF ObsGiven, ObsListed, ObsLegacy
  <2>5. ~ObsRemoves(op[p]) /\ ~ObsExporter(op[p]) /\ ~ObsPrometheus(op[p])
    BY <2>1, <2>2, <2>3, ObsSeqs
       DEF ObsRemoves, ObsExporter, ObsPrometheus, Clears, Starting, ToExporter, ToPrometheus,
           ToGrafana
  <2>6. ~ObsGrafana(op[p])
    BY <2>1, <2>2, <2>3, ObsSeqs DEF ObsGrafana, Clears, Starting, ToGrafana
  <2>7. Observability \subseteq DOMAIN ct /\ (op[p].steady => ct[Grafana].running)
    BY <2>1, <2>4, <2>5, <2>6 DEF ObsPlan, ObsDone
  <2>8. \A q \in Proc : op[q].todo = <<>>
    BY <2>1 DEF CompletionInv, AloneInv, PortsInv, Shapes, CommandShape
  <2>9. \A q \in Proc : \A n : ~Busy(op[q], n)
    BY <2>8 DEF Busy
  <2>10. ASSUME NEW n \in {Exporter, Prometheus} PROVE ct[n].running \/ n \in cut
    <3>1. n \in DOMAIN ct
      BY <2>7 DEF Observability
    <3>. QED  BY <2>9, <3>1 DEF UpInv
  <2>. QED  BY <2>7, <2>10
<1>. QED  BY <1>1, <1>2, <1>3, CompletionInvariant, PTL DEF Spec

-------------------------------------------------------------------------------
(* destroy. *)

\* Every member of a finite set is in its list.
LEMMA OrderCovers ==
  ASSUME NEW S, IsFiniteSet(S)
  PROVE  \A c \in S : \E i \in 1..Cardinality(S) : SetToSeq(S)[i] = c
<1>. DEFINE N == 1..Cardinality(S)
            f == SetToSeq(S)
<1>1. Cardinality(S) \in Nat /\ ExistsBijection(N, S)
  BY FS_CardinalityType
<1>2. \E g \in [N -> S] : IsInjective(g)
  BY <1>1 DEF ExistsBijection, Bijection, Injection
<1>3. f \in Injection(N, S)
  BY <1>1, <1>2 DEF SetToSeq, Injection
<1>4. IsFiniteSet(N) /\ Cardinality(N) = Cardinality(S)
  BY <1>1, FS_Interval
<1>. HIDE DEF N, f
<1>5. f \in Surjection(N, S)
  BY <1>3, <1>4, FS_Injection
<1>. QED  BY <1>5 DEF Surjection, N, f

\* Tasks that delete the state of clusters, those of F among them.
Deletes(R, F) ==
  /\ IsSeq(R)
  /\ \A i \in 1..Len(R) : \E c : R[i] = Delete(c)
  /\ \A c \in F : \E i \in 1..Len(R) : R[i] = Delete(c)

LEMMA DeletesAll ==
  ASSUME NEW S, IsFiniteSet(S), NEW order, order = SetToSeq(S), NEW F, F \subseteq S
  PROVE  Deletes([i \in DOMAIN order |-> Delete(order[i])], F)
<1>. DEFINE f == [i \in DOMAIN order |-> Delete(order[i])]
<1>. PICK n : n = Cardinality(S)
  OBVIOUS
<1>1. n \in Nat /\ DOMAIN order = 1..n
  BY OrderOfSet
<1>2. \A c \in S : \E i \in 1..n : order[i] = c
  BY OrderCovers
<1>3. DOMAIN f = 1..n /\ f = [i \in 1..n |-> f[i]]
  BY <1>1
<1>4. \A i \in 1..n : f[i] = Delete(order[i])
  BY <1>1
<1>. HIDE DEF f
<1>5. IsSeq(f) /\ Len(f) = n
  BY <1>1, <1>3, FunctionSeq
<1>. QED  BY <1>2, <1>4, <1>5 DEF Deletes, f

LEMMA DeletesRest ==
  ASSUME NEW R, NEW F, Deletes(R, F), R # <<>>
  PROVE  \E c, T : R = Pre(Delete(c), T) /\ IsSeq(T) /\ Deletes(T, F \ {c})
<1>. DEFINE T == Tail(R)
<1>1. PICK S : R \in Seq(S)
  BY DEF Deletes, IsSeq
<1>2. /\ T \in Seq(S) /\ Len(T) = Len(R) - 1 /\ Len(R) \in Nat \ {0} /\ R[1] = Head(R)
      /\ \A i \in 1..Len(T) : T[i] = R[i + 1]
  BY <1>1
<1>. HIDE DEF T
<1>3. PICK c : R[1] = Delete(c)
  BY <1>2 DEF Deletes
<1>4. /\ IsSeq(T) /\ IsSeq(R) /\ IsSeq(Pre(Delete(c), T)) /\ Len(Pre(Delete(c), T)) = 1 + Len(T)
      /\ \A i \in 1..Len(Pre(Delete(c), T)) :
           Pre(Delete(c), T)[i] = IF i = 1 THEN Delete(c) ELSE T[i - 1]
  <2>1. IsSeq(T)
    BY <1>2 DEF IsSeq
  <2>2. IsSeq(R)
    BY <1>1 DEF IsSeq
  <2>. QED  BY <2>1, <2>2, PreElements
<1>. DEFINE P == Pre(Delete(c), T)
<1>. HIDE DEF P
<1>5. Len(R) = Len(P) /\ \A i \in 1..Len(R) : R[i] = P[i]
  BY <1>2, <1>3, <1>4 DEF P
<1>6. R = P
  BY <1>4, <1>5, SameSeq DEF P
<1>7. \A i \in 1..Len(T) : \E d : T[i] = Delete(d)
  <2>1. \A i \in 1..Len(T) : i + 1 \in 1..Len(R) /\ T[i] = R[i + 1]
    BY <1>2
  <2>. QED  BY <2>1 DEF Deletes
<1>8. ASSUME NEW d \in F \ {c} PROVE \E i \in 1..Len(T) : T[i] = Delete(d)
  <2>1. PICK j \in 1..Len(R) : R[j] = Delete(d)
    BY DEF Deletes
  <2>2. j # 1
    BY <1>3, <1>8, <2>1 DEF Delete
  <2>3. j - 1 \in 1..Len(T) /\ T[j - 1] = R[j]
    BY <1>2, <2>2
  <2>. QED  BY <2>1, <2>3
<1>. QED  BY <1>4, <1>6, <1>7, <1>8 DEF Deletes, P

ToNetwork(R) == Pre(Task("drop network"), R)
ToSweep(R)   == Pre(Task("sweep"), ToNetwork(R))
Cleared      == DOMAIN ct = {}
Swept        == vols \subseteq bare

\* The state files of the clusters found.
Found(o) == files \cap o.seen

\* destroy: given, nothing found, containers being removed, volumes about to be
\* listed, volumes being removed, the network next, then the files.
DestroyGiven(o)   == o.todo = Pre(o.cmd, <<>>)
DestroyNothing(o) == o.todo = <<>> /\ o.seen = {NoCluster}
DestroyRemoves(o) == \E R, S : /\ Deletes(R, Found(o))
                               /\ Clears(o, S, FALSE, ToSweep(R))
                               /\ DOMAIN ct \subseteq Left(o, S)
DestroySweeps(o)  == \E R : Deletes(R, Found(o)) /\ o.todo = ToSweep(R) /\ Cleared
DestroyDrops(o)   == \E R, V : /\ Deletes(R, Found(o))
                               /\ o.todo = Pre(DropVolumes(V), ToNetwork(R))
                               /\ Cleared /\ vols \ bare \subseteq V
DestroyNet(o)     == \E R : /\ Deletes(R, Found(o)) /\ o.todo = ToNetwork(R)
                            /\ Cleared /\ Swept
DestroyFiles(o)   == Deletes(o.todo, Found(o)) /\ Cleared /\ Swept /\ ~net

DestroyPlan(o) ==
  \/ DestroyGiven(o) \/ DestroyNothing(o) \/ DestroyRemoves(o) \/ DestroySweeps(o)
  \/ DestroyDrops(o) \/ DestroyNet(o) \/ DestroyFiles(o)

SmoothDestroy(p) == Smooth(p, "destroy")

DestroyInv == \A p \in Proc : SmoothDestroy(p) => DestroyPlan(op[p])

LEMMA DestroySeqs ==
  ASSUME NEW R, NEW F, Deletes(R, F)
  PROVE  IsSeq(R) /\ IsSeq(ToNetwork(R)) /\ IsSeq(ToSweep(R))
BY PreParts DEF Deletes, ToNetwork, ToSweep

LEMMA DestroyOwnStep ==
  ASSUME Shapes, NEW p \in Proc, Command(p) \/ Call(p), ~Fails(p), op'[p] # Idle,
         SmoothDestroy(p), DestroyPlan(op[p])
  PROVE  DestroyPlan(op[p])'
<1>0. Running(p)
  BY Acts
<1>1. ASSUME DestroyGiven(op[p]) PROVE (DestroyNothing(op[p]) \/ DestroyRemoves(op[p]))'
  <2>1. op[p].todo = Pre(op[p].cmd, <<>>)
    BY <1>1 DEF DestroyGiven
  <2>2. Now(p) = op[p].cmd
    BY <2>1, NoTasksIsSeq, NowPre
  <2>3. Destroy(p)
    BY <2>2, Acts DEF Smooth, SmoothDestroy
  <2>. PICK all : all = DOMAIN ct
    OBVIOUS
  <2>. PICK seen : seen = {n.cluster : n \in all} \ {NoCluster}
    OBVIOUS
  <2>. PICK order : order = SetToSeq(seen)
    OBVIOUS
  <2>. DEFINE R == [i \in DOMAIN order |-> Delete(order[i])]
              a == StopAndRemove(all, FALSE)
              b == Task("sweep")
              d == Task("drop network")
              T == <<a, b, d>> \o R
  <2>4. /\ \/ op' = [NextTask(p) EXCEPT ![p].seen = {NoCluster}]
           \/ op' = [Then(p, T) EXCEPT ![p].seen = seen]
        /\ UNCHANGED host
    BY <2>3 DEF Destroy, ListContainers
  <2>5. IsFiniteSet(seen)
    <3>1. IsFiniteSet({n.cluster : n \in all})
      BY ClustersFinite DEF Shapes
    <3>. QED  BY <3>1, FS_Subset
  <2>6. \A F : F \subseteq seen => Deletes(R, F)
    BY <2>5, DeletesAll
  <2>. HIDE DEF R
  <2>7. IsSeq(R) /\ IsSeq(ToSweep(R))
    BY <2>6, DestroySeqs
  <2>8. T = Pre(a, ToSweep(R))
    <3>1. ToSweep(R) = Pre(b, Pre(d, R))
      BY DEF ToSweep, ToNetwork
    <3>. HIDE DEF a, b, d
    <3>. QED  BY <2>7, <3>1, PreThree
  <2>. HIDE DEF T
  <2>9. CASE op' = [NextTask(p) EXCEPT ![p].seen = {NoCluster}]
    <3>1. op' = [Then(p, <<>>) EXCEPT ![p].seen = {NoCluster}]
      BY <2>9 DEF NextTask
    <3>2. op'[p].todo = <<>> \o Tail(op[p].todo) /\ op'[p].seen = {NoCluster}
      BY <3>1 DEF Shapes, CommandShape, Fields, Then
    <3>3. op'[p].todo = <<>>
      BY <2>1, <3>2, NoTasksIsSeq, PreParts
    <3>. QED  BY <3>2, <3>3 DEF DestroyNothing
  <2>10. CASE op' = [Then(p, T) EXCEPT ![p].seen = seen]
    <3>2. op'[p].todo = T \o Tail(op[p].todo) /\ op'[p].seen = seen /\ op'[p].step = "begin"
      BY <2>10 DEF Shapes, CommandShape, Fields, Then
    <3>3. Tail(op[p].todo) = <<>>
      BY <2>1, NoTasksIsSeq, PreParts
    <3>4. IsSeq(T) /\ T \o <<>> = T
      BY <2>7, <2>8, PreParts, EmptyLast
    <3>5. op'[p].todo = Pre(a, ToSweep(R))
      BY <2>8, <3>2, <3>3, <3>4
    <3>6. Clears(op'[p], all, FALSE, ToSweep(R)) /\ Left(op'[p], all) = all
      BY <3>2, <3>5 DEF Clears, Left
    <3>7. Deletes(R, Found(op[p])')
      BY <2>6, <3>2 DEF Found
    <3>8. DOMAIN ct' = all
      BY <2>4 DEF host
    <3>. QED  BY <3>6, <3>7, <3>8 DEF DestroyRemoves
  <2>. QED  BY <2>4, <2>9, <2>10
<1>2. ~DestroyNothing(op[p])
  BY <1>0 DEF DestroyNothing, Running
<1>3. ASSUME DestroyRemoves(op[p]) PROVE (DestroyRemoves(op[p]) \/ DestroySweeps(op[p]))'
  <2>1. PICK R, S : /\ Deletes(R, Found(op[p])) /\ Clears(op[p], S, FALSE, ToSweep(R))
                    /\ DOMAIN ct \subseteq Left(op[p], S)
    BY <1>3 DEF DestroyRemoves
  <2>2. IsSeq(ToSweep(R))
    BY <2>1, DestroySeqs
  <2>3. RemoveNext(p, S, FALSE, ToSweep(R))
    BY <2>1, <2>2, RemoveStep
  <2>4. Found(op[p])' = Found(op[p]) /\ DOMAIN ct' \subseteq Left(op[p], S)
    BY <2>1, <2>3 DEF RemoveNext, OnlyNames, Found
  <2>5. CASE op'[p].todo = ToSweep(R) /\ DOMAIN ct' \cap Left(op[p], S) = {}
    <3>1. Cleared'
      BY <2>4, <2>5 DEF Cleared
    <3>. QED  BY <2>1, <2>4, <2>5, <3>1 DEF DestroySweeps
  <2>6. ASSUME NEW T \in SUBSET S, Clears(op'[p], T, FALSE, ToSweep(R)),
               DOMAIN ct' \cap Left(op[p], S) \subseteq Left(op'[p], T)
        PROVE  DestroyRemoves(op[p])'
    BY <2>1, <2>4, <2>6 DEF DestroyRemoves
  <2>. QED  BY <2>3, <2>5, <2>6 DEF RemoveNext
<1>4. ASSUME DestroySweeps(op[p]) PROVE DestroyDrops(op[p])'
  <2>1. PICK R : Deletes(R, Found(op[p])) /\ op[p].todo = ToSweep(R) /\ Cleared
    BY <1>4 DEF DestroySweeps
  <2>2. IsSeq(ToNetwork(R)) /\ op[p].todo = Pre(Task("sweep"), ToNetwork(R))
    BY <2>1, DestroySeqs DEF ToSweep
  <2>3. Now(p) = Task("sweep")
    BY <2>2, NowPre
  <2>4. Now(p).do = "sweep"
    BY <2>3 DEF Task
  <2>5. Sweep(p)
    BY <2>4, Acts
  <2>. PICK V : V = vols \ bare
    OBVIOUS
  <2>6. op' = Then(p, <<DropVolumes(V)>>) /\ UNCHANGED host
    BY <2>5, DieForm DEF Sweep, Proceed, Abort
  <2>7. op'[p].todo = <<DropVolumes(V)>> \o ToNetwork(R) /\ op'[p].seen = op[p].seen
    BY <2>2, <2>6, ThenPre, ZenonT(40)
  <2>8. op'[p].todo = Pre(DropVolumes(V), ToNetwork(R))
    BY <2>7 DEF Pre
  <2>9. Found(op[p])' = Found(op[p]) /\ Cleared' /\ (vols \ bare)' = V
    BY <2>1, <2>6, <2>7 DEF Found, Cleared, host
  <2>. QED  BY <2>1, <2>8, <2>9 DEF DestroyDrops
<1>5. ASSUME DestroyDrops(op[p]) PROVE (DestroyDrops(op[p]) \/ DestroyNet(op[p]))'
  <2>1. PICK R, V : /\ Deletes(R, Found(op[p])) /\ op[p].todo = Pre(DropVolumes(V), ToNetwork(R))
                    /\ Cleared /\ vols \ bare \subseteq V
    BY <1>5 DEF DestroyDrops
  <2>2. IsSeq(ToNetwork(R))
    BY <2>1, DestroySeqs
  <2>3. Now(p) = DropVolumes(V)
    BY <2>1, <2>2, NowPre
  <2>4. Now(p).do = "drop" /\ Now(p).volumes = V
    BY <2>3 DEF DropVolumes
  <2>5. DropVolume(p)
    BY <2>4, Acts
  <2>6. CASE V = {}
    <3>1. op' = NextTask(p) /\ UNCHANGED host
      BY <2>4, <2>5, <2>6 DEF DropVolume
    <3>2. op'[p].todo = ToNetwork(R) /\ op'[p].seen = op[p].seen
      BY <2>1, <2>2, <3>1, NextPre
    <3>3. Found(op[p])' = Found(op[p]) /\ Cleared' /\ Swept'
      BY <2>1, <2>6, <3>1, <3>2 DEF Found, Cleared, Swept, host
    <3>. QED  BY <2>1, <3>2, <3>3 DEF DestroyNet
  <2>7. CASE V # {}
    <3>. PICK v : v = FirstVolume(V)
      OBVIOUS
    <3>. DEFINE t == DropVolumes(V \ {v})
    <3>1. /\ op' = Then(p, <<t>>) /\ vols' = vols \ {v} /\ bare' = bare \ {v}
          /\ UNCHANGED <<ct, files>>
      BY <2>4, <2>5, <2>7 DEF DropVolume, RemoveVolume
    <3>. HIDE DEF t
    <3>2. op'[p].todo = <<t>> \o ToNetwork(R) /\ op'[p].seen = op[p].seen
      BY <2>1, <2>2, <3>1, ThenPre
    <3>3. op'[p].todo = Pre(t, ToNetwork(R))
      BY <3>2 DEF Pre
    <3>4. Found(op[p])' = Found(op[p]) /\ Cleared' /\ (vols \ bare)' \subseteq V \ {v}
      BY <2>1, <3>1, <3>2 DEF Found, Cleared
    <3>. QED  BY <2>1, <3>3, <3>4 DEF DestroyDrops, t
  <2>. QED  BY <2>6, <2>7
<1>6. ASSUME DestroyNet(op[p]) PROVE DestroyFiles(op[p])'
  <2>1. PICK R : /\ Deletes(R, Found(op[p])) /\ op[p].todo = ToNetwork(R)
                 /\ Cleared /\ Swept
    BY <1>6 DEF DestroyNet
  <2>2. IsSeq(R) /\ op[p].todo = Pre(Task("drop network"), R)
    BY <2>1, DestroySeqs DEF ToNetwork
  <2>3. RemoveNetwork(p)
    <3>1. Now(p) = Task("drop network")
      BY <2>2, NowPre
    <3>2. \A x : Task(x).do = x
      BY DEF Task
    <3>3. Now(p).do = "drop network"
      BY <3>1, <3>2, Zenon
    <3>. QED  BY <3>3, Acts
  <2>4. op' = NextTask(p) /\ UNCHANGED <<ct, vols, bare, files>> /\ net' = FALSE
    BY <2>3 DEF RemoveNetwork
  <2>5. op'[p].todo = R /\ op'[p].seen = op[p].seen
    <3>1. PICK a : op[p].todo = Pre(a, R) /\ IsSeq(R)
      BY <2>2
    <3>. QED  BY <2>4, <3>1, NextPre
  <2>6. Found(op[p])' = Found(op[p])
    BY <2>4, <2>5 DEF Found
  <2>. QED  BY <2>1, <2>4, <2>5, <2>6 DEF DestroyFiles, Cleared, Swept
<1>7. ASSUME DestroyFiles(op[p]) PROVE DestroyFiles(op[p])'
  <2>1. PICK c, T : op[p].todo = Pre(Delete(c), T) /\ IsSeq(T) /\ Deletes(T, Found(op[p]) \ {c})
    BY <1>0, <1>7, DeletesRest DEF DestroyFiles, Running
  <2>2. Now(p) = Delete(c)
    BY <2>1, NowPre
  <2>3. Now(p).do = "delete" /\ Now(p).cluster = c
    BY <2>2 DEF Delete
  <2>4. DeleteState(p)
    BY <2>3, Acts
  <2>5. files' = files \ {c} /\ op' = NextTask(p) /\ UNCHANGED <<ct, vols, bare, net>>
    BY <2>3, <2>4 DEF DeleteState
  <2>6. op'[p].todo = T /\ op'[p].seen = op[p].seen
    BY <2>1, <2>5, NextPre
  <2>7. Found(op[p])' = Found(op[p]) \ {c}
    BY <2>5, <2>6 DEF Found
  <2>. QED  BY <1>7, <2>1, <2>5, <2>6, <2>7 DEF DestroyFiles, Cleared, Swept
<1>. QED  BY <1>1, <1>2, <1>3, <1>4, <1>5, <1>6, <1>7 DEF DestroyPlan

LEMMA DestroyStep ==
  ASSUME Shapes, AloneInv, DestroyInv, Next
  PROVE  DestroyInv'
<1>. SUFFICES ASSUME NEW p \in Proc, SmoothDestroy(p)'
              PROVE  DestroyPlan(op[p])'
  BY DEF DestroyInv
<1>1. ASSUME NEW cmd \in Commands[p], Begin(p, cmd), cmd.do # "quickstart"
      PROVE  DestroyPlan(op[p])'
  <2>1. op'[p].todo = Pre(op'[p].cmd, <<>>)
    BY <1>1, GivenForm
  <2>. QED  BY <2>1 DEF DestroyPlan, DestroyGiven
<1>2. CASE /\ Command(p) \/ Call(p)
           /\ SmoothDestroy(p) /\ Own(p) /\ Running(p) /\ ~Fails(p) /\ op'[p] # Idle
  BY <1>2, DestroyOwnStep DEF DestroyInv
<1>3. ASSUME NEW n \in DOMAIN ct, Exit(n), SmoothDestroy(p)
      PROVE  DestroyPlan(op[p])'
  <2>1. /\ op'[p].cmd = op[p].cmd /\ op'[p].todo = op[p].todo /\ op'[p].step = op[p].step
        /\ op'[p].name = op[p].name /\ op'[p].seen = op[p].seen /\ DOMAIN ct' = DOMAIN ct
        /\ UNCHANGED <<vols, bare, net, files>>
    BY <1>3, ExitForm
  <2>2. \A S, m, R : Clears(op[p], S, m, R)' <=> Clears(op[p], S, m, R)
    BY <2>1 DEF Clears
  <2>3. /\ Found(op[p])' = Found(op[p]) /\ Cleared' = Cleared /\ Swept' = Swept
        /\ \A S : Left(op[p], S)' = Left(op[p], S)
    BY <2>1 DEF Found, Cleared, Swept, Left
  <2>4. DestroyPlan(op[p])
    BY <1>3 DEF DestroyInv
  <2>5. /\ DestroyGiven(op[p]) => DestroyGiven(op[p])'
        /\ DestroyNothing(op[p]) => DestroyNothing(op[p])'
    BY <2>1 DEF DestroyGiven, DestroyNothing
  <2>6. DestroyRemoves(op[p]) => DestroyRemoves(op[p])'
    BY <2>1, <2>2, <2>3 DEF DestroyRemoves
  <2>7. /\ DestroySweeps(op[p]) => DestroySweeps(op[p])'
        /\ DestroyFiles(op[p]) => DestroyFiles(op[p])'
    BY <2>1, <2>3 DEF DestroySweeps, DestroyFiles
  <2>8. DestroyDrops(op[p]) => DestroyDrops(op[p])'
    BY <2>1, <2>3 DEF DestroyDrops
  <2>9. DestroyNet(op[p]) => DestroyNet(op[p])'
    BY <2>1, <2>3 DEF DestroyNet
  <2>. QED  BY <2>4, <2>5, <2>6, <2>7, <2>8, <2>9 DEF DestroyPlan
<1>. QED  BY <1>1, <1>2, <1>3, SmoothStep DEF SmoothDestroy

\* A destroy that found a container and was told to go on, of which no call failed
\* and beside which no other command ran, leaves nothing of what it answers for: no
\* container, no labelled volume, no network, no state of a cluster it found
\* (destroy.go:32-124).
THEOREM DestroyLeavesNothing == Spec => []DestroyIsComplete
<1>1. Init => DestroyInv
  <2>1. Init => \A p \in Proc : op[p].cmd.do = "none"
    BY IdleFields DEF Init, Task
  <2>. QED  BY <2>1 DEF DestroyInv, SmoothDestroy, Smooth
<1>2. CompletionInv /\ DestroyInv /\ [Next]_vars => DestroyInv'
  <2>1. ASSUME CompletionInv, DestroyInv, Next PROVE DestroyInv'
    BY <2>1, DestroyStep DEF CompletionInv, PortsInv
  <2>2. ASSUME DestroyInv, UNCHANGED vars PROVE DestroyInv'
    BY <2>2, ZenonT(40) DEF DestroyInv, SmoothDestroy, Smooth, DestroyPlan, DestroyGiven,
                DestroyNothing, DestroyRemoves, DestroySweeps, DestroyDrops, DestroyNet,
                DestroyFiles, Found, Cleared, Swept, Clears, Left, vars
  <2>. QED  BY <2>1, <2>2
<1>3. DestroyInv => DestroyIsComplete
  <2>. SUFFICES ASSUME DestroyInv, NEW p \in Proc, Completed(p, "destroy"),
                       op[p].seen # {NoCluster}
                PROVE  DOMAIN ct = {} /\ vols \subseteq bare /\ ~net /\ Found(op[p]) = {}
    BY DEF DestroyIsComplete, Found
  <2>1. DestroyPlan(op[p]) /\ op[p].todo = <<>>
    BY DEF DestroyInv, SmoothDestroy, Smooth, Completed, Ended
  <2>2. \A a, R : IsSeq(R) => Pre(a, R) # <<>>
    BY PreParts
  <2>3. ~DestroyGiven(op[p]) /\ ~DestroyNothing(op[p])
    BY <2>1, <2>2, NoTasksIsSeq DEF DestroyGiven, DestroyNothing
  <2>4. \A R, F : Deletes(R, F) => IsSeq(R) /\ IsSeq(ToNetwork(R)) /\ IsSeq(ToSweep(R))
    BY DestroySeqs
  <2>5. ~DestroyRemoves(op[p]) /\ ~DestroyDrops(op[p])
    BY <2>1, <2>2, <2>4 DEF DestroyRemoves, DestroyDrops, Clears
  <2>6. ~DestroySweeps(op[p]) /\ ~DestroyNet(op[p])
    BY <2>1, <2>2, <2>4 DEF DestroySweeps, DestroyNet, ToSweep, ToNetwork
  <2>7. DestroyFiles(op[p])
    BY <2>1, <2>3, <2>5, <2>6 DEF DestroyPlan
  <2>8. Len(op[p].todo) = 0
    BY <2>1, NoTasks
  <2>. QED  BY <2>7, <2>8 DEF DestroyFiles, Deletes, Cleared, Swept
<1>. QED  BY <1>1, <1>2, <1>3, CompletionInvariant, PTL DEF Spec
===============================================================================
