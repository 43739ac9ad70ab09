--------------------------- MODULE OrderQueueProofs ---------------------------
(***************************************************************************)
(* Proofs about OrderQueue, for any number of orders, workers, retries and *)
(* troubles.  Where an order may yet be applied is counted: in the hands   *)
(* of a worker, by a script on its way, by the queue handing it out.       *)
(***************************************************************************)
EXTENDS OrderQueue, FiniteSetTheorems, TLAPS

-------------------------------------------------------------------------------
(* The inductive invariant. *)

State == {"none", "pending", "active", "retry", "completed", "archived"}

TaskSet == [st : State, retried : Nat, applied : Nat]

Shapes ==
  /\ ds \in [Node -> [Order -> TaskSet]]
  /\ serving \in Node
  /\ readonly \in {{}, {Other(serving)}}
  /\ view \in [Connection -> Node]
  /\ proc \in {"up", "stopping", "down"}
  /\ work \in [Worker -> [order : Order \cup {NoOrder},
                          phase : {"idle", "run", "done", "failed"}, at : Node]]
  /\ \A w \in Worker : work[w].phase # "idle" => work[w].order \in Order
  /\ flight \subseteq Order \X Node
  /\ asked \subseteq Order /\ torn \subseteq Order
  /\ troubles \in Nat

\* An order the writer has not made is in no queue.
NewOnesAreNew == \A n \in Node, o \in Order : o \notin asked => TaskAt(n, o).st = "none"

\* What a worker has done is there, on a node that still takes writes.
DoneIsApplied ==
  \A w \in Worker : work[w].phase = "done" =>
    \/ work[w].order \in torn
    \/ /\ work[w].at \notin readonly
       /\ TaskAt(work[w].at, work[w].order).applied > 0

InHand(o)   == {w \in Worker : work[w].order = o /\ work[w].phase \in {"run", "failed"}}
Underway(o) == {n \in Node : <<o, n>> \in flight}

\* How often the queue on a node may still hand an order out: an active task
\* that a worker has comes back through that worker only.
Offers(n, o) == IF \/ Settled(TaskAt(n, o))
                   \/ TaskAt(n, o).st = "active" /\ \E w \in Worker : work[w].order = o
                THEN 0 ELSE 1

\* The same for the queues the server will use.  While it has not followed a
\* failover the queue of the new master is still to come.  A process that stops
\* may put back whatever it has.
Chances(o) ==
  IF proc # "up" THEN 1
  ELSE IF view["server"] = serving THEN Offers(serving, o)
  ELSE IF readonly = {} THEN 1 + Offers(view["server"], o)
  ELSE 1

\* Every time an order may still be applied, beyond the first, is paid for.
TroublePays ==
  \A n \in Node, o \in Order :
    TaskAt(n, o).applied + Cardinality(InHand(o)) + Cardinality(Underway(o)) + Chances(o)
      <= 1 + troubles

IInv == Shapes /\ NewOnesAreNew /\ DoneIsApplied /\ CompletedIsApplied /\ TroublePays

-------------------------------------------------------------------------------
(* The two nodes; finite counts. *)

LEMMA OtherNode ==
  ASSUME NEW n \in Node
  PROVE  /\ Other(n) \in Node /\ Other(n) # n
         /\ \A m \in Node : m = n \/ m = Other(n)
<1>1. PICK replica \in Node : replica # Master /\ Node = {Master, replica}
  BY QueueAssumption
<1>2. \E m \in Node : m # n
  BY <1>1
<1>3. Other(n) \in Node /\ Other(n) # n
  BY <1>2 DEF Other
<1>. QED  BY <1>1, <1>3

LEMMA NodesFinite == IsFiniteSet(Node)
<1>1. PICK replica \in Node : Node = {Master, replica}
  BY QueueAssumption
<1>2. IsFiniteSet({Master} \cup {replica})
  BY FS_Singleton, FS_AddElement
<1>. QED  BY <1>1, <1>2

\* A worker that is not idle or an apply under way is one of finitely many.
LEMMA CountsAreNat ==
  ASSUME NEW o
  PROVE  /\ IsFiniteSet(InHand(o)) /\ Cardinality(InHand(o)) \in Nat
         /\ IsFiniteSet(Underway(o)) /\ Cardinality(Underway(o)) \in Nat
<1>1. InHand(o) \subseteq Worker /\ Underway(o) \subseteq Node
  BY DEF InHand, Underway
<1>. QED  BY <1>1, NodesFinite, QueueAssumption, FS_Subset, FS_CardinalityType

LEMMA CountsAreNatNext ==
  ASSUME NEW o
  PROVE  /\ IsFiniteSet(InHand(o)') /\ Cardinality(InHand(o)') \in Nat
         /\ IsFiniteSet(Underway(o)') /\ Cardinality(Underway(o)') \in Nat
<1>1. InHand(o)' \subseteq Worker /\ Underway(o)' \subseteq Node
  BY DEF InHand, Underway
<1>. QED  BY <1>1, NodesFinite, QueueAssumption, FS_Subset, FS_CardinalityType

\* An element more, an element less.
LEMMA CountWithin ==
  ASSUME NEW S, NEW T, IsFiniteSet(S), T \subseteq S
  PROVE  Cardinality(T) <= Cardinality(S)
BY FS_Subset

LEMMA CountOneMore ==
  ASSUME NEW S, NEW T, NEW x, IsFiniteSet(S), T \subseteq S \cup {x}
  PROVE  Cardinality(T) <= Cardinality(S) + 1
<1>1. IsFiniteSet(S \cup {x}) /\ Cardinality(S \cup {x}) <= Cardinality(S) + 1
      /\ Cardinality(S) \in Nat
  BY FS_AddElement, FS_CardinalityType
<1>2. /\ Cardinality(T) <= Cardinality(S \cup {x})
      /\ Cardinality(T) \in Nat /\ Cardinality(S \cup {x}) \in Nat
  BY <1>1, FS_Subset, FS_CardinalityType
<1>. QED  BY <1>1, <1>2

LEMMA CountOneLess ==
  ASSUME NEW S, NEW T, NEW x \in S, IsFiniteSet(S), T \subseteq S \ {x}
  PROVE  Cardinality(T) <= Cardinality(S) - 1
<1>1. IsFiniteSet(S \ {x}) /\ Cardinality(S \ {x}) = Cardinality(S) - 1
  BY FS_RemoveElement
<1>2. Cardinality(T) <= Cardinality(S \ {x})
  BY <1>1, FS_Subset
<1>. QED  BY <1>1, <1>2

LEMMA ChancesBound ==
  ASSUME NEW o
  PROVE  Chances(o) \in 0..2 /\ \A n : Offers(n, o) \in 0..1
BY DEF Chances, Offers

-------------------------------------------------------------------------------
(* The first state, and the shape of the state after a step. *)

LEMMA InitHolds == Init => IInv
<1>. SUFFICES ASSUME Init PROVE IInv
  OBVIOUS
<1>1. Shapes
  BY QueueAssumption, OtherNode DEF Init, Shapes, TaskSet, State, Connection, Idle
<1>2. NewOnesAreNew /\ DoneIsApplied /\ CompletedIsApplied
  BY DEF Init, NewOnesAreNew, DoneIsApplied, CompletedIsApplied, TaskAt, Idle
<1>3. ASSUME NEW n \in Node, NEW o \in Order
      PROVE  /\ TaskAt(n, o).applied = 0 /\ Cardinality(InHand(o)) = 0
             /\ Cardinality(Underway(o)) = 0 /\ Chances(o) <= 1
  <2>1. InHand(o) = {} /\ Underway(o) = {}
    BY DEF Init, InHand, Underway, Idle
  <2>2. view["server"] = serving /\ TaskAt(n, o).applied = 0
    BY DEF Init, Connection, TaskAt
  <2>. QED  BY <2>1, <2>2, ChancesBound, FS_EmptySet DEF Chances
<1>4. TroublePays
  BY <1>3, ChancesBound DEF TroublePays, Init
<1>. QED  BY <1>1, <1>2, <1>4 DEF IInv

\* What the updates of a task, a queue and a worker make of their fields.
LEMMA TaskFields ==
  ASSUME NEW t \in TaskSet
  PROVE  /\ t.st \in State /\ t.applied \in Nat
         /\ \A x \in State : LET u == [t EXCEPT !.st = x] IN
              u \in TaskSet /\ u.st = x /\ u.applied = t.applied
         /\ LET u == [t EXCEPT !.applied = @ + 1] IN
              u \in TaskSet /\ u.st = t.st /\ u.applied = t.applied + 1
         /\ Again(t) \in TaskSet /\ Again(t).st \in {"retry", "archived"}
         /\ Again(t).applied = t.applied
<1>1. t.st \in State /\ t.applied \in Nat /\ t.retried \in Nat
  BY DEF TaskSet
<1>2. \A x \in State : LET u == [t EXCEPT !.st = x] IN
              u \in TaskSet /\ u.st = x /\ u.applied = t.applied
  BY DEF TaskSet
<1>3. LET u == [t EXCEPT !.applied = @ + 1] IN
              u \in TaskSet /\ u.st = t.st /\ u.applied = t.applied + 1
  BY DEF TaskSet
<1>4. /\ Again(t) \in TaskSet /\ Again(t).st \in {"retry", "archived"}
      /\ Again(t).applied = t.applied
  <2>1. CASE t.retried < MaxRetry
    <3>1. t = [st |-> t.st, retried |-> t.retried, applied |-> t.applied]
      BY DEF TaskSet
    <3>2. Again(t) = [st |-> "retry", retried |-> t.retried + 1, applied |-> t.applied]
      BY <2>1, <3>1, Zenon DEF Again
    <3>3. t.retried + 1 \in Nat
      BY <1>1
    <3>. QED  BY <3>2, <3>3, <1>1 DEF TaskSet, State
  <2>2. CASE ~(t.retried < MaxRetry)
    <3>1. Again(t) = [t EXCEPT !.st = "archived"]
      BY <2>2 DEF Again
    <3>. QED  BY <3>1, <1>1 DEF TaskSet, State
  <2>. QED  BY <2>1, <2>2
<1>. QED  BY <1>1, <1>2, <1>3, <1>4

LEMMA PutFields ==
  ASSUME Shapes, NEW c \in Connection, NEW o \in Order, NEW t \in TaskSet
  PROVE  /\ view[c] \in Node
         /\ Put(c, o, t) \in [Node -> [Order -> TaskSet]]
         /\ \A n \in Node, p \in Order :
              Put(c, o, t)[n][p] = IF n = view[c] /\ p = o THEN t ELSE TaskAt(n, p)
BY DEF Shapes, Put, TaskAt

LEMMA AppliedFields ==
  ASSUME Shapes, NEW m \in Node, NEW o \in Order
  PROVE  /\ Applied(m, o) \in [Node -> [Order -> TaskSet]]
         /\ \A n \in Node, p \in Order :
              Applied(m, o)[n][p] = IF n = m /\ p = o THEN [TaskAt(m, o) EXCEPT !.applied = @ + 1]
                                    ELSE TaskAt(n, p)
<1>0. TaskAt(m, o) \in TaskSet
  BY DEF Shapes, TaskAt
<1>1. [TaskAt(m, o) EXCEPT !.applied = @ + 1] \in TaskSet
  BY <1>0, TaskFields
<1>2. Applied(m, o) = [ds EXCEPT ![m] = [ds[m] EXCEPT ![o] = [TaskAt(m, o) EXCEPT !.applied = @ + 1]]]
  BY DEF Applied, TaskAt
<1>. HIDE DEF TaskSet
<1>. QED  BY <1>0, <1>1, <1>2 DEF Shapes, TaskAt

Hands == [order : Order \cup {NoOrder}, phase : {"idle", "run", "done", "failed"}, at : Node]

\* What a worker turns to when it takes a task, when its handler fails or is through.
Started(o)     == [order |-> o, phase |-> "run", at |-> Master]
Failed(w)      == [order |-> work[w].order, phase |-> "failed", at |-> work[w].at]
Finished(w, n) == [order |-> work[w].order, phase |-> "done", at |-> n]

LEMMA WorkFields ==
  ASSUME Shapes, NEW w \in Worker
  PROVE  /\ work[w] \in Hands /\ Idle \in Hands /\ Idle.phase = "idle" /\ Idle.order = NoOrder
         /\ Release(w) = [work EXCEPT ![w] = Idle]
         /\ Phase(w, "failed") = [work EXCEPT ![w] = Failed(w)] /\ Failed(w) \in Hands
         /\ \A n \in Node :
              /\ [work EXCEPT ![w].phase = "done", ![w].at = n] = [work EXCEPT ![w] = Finished(w, n)]
              /\ Finished(w, n) \in Hands
         /\ \A o \in Order :
              /\ [work EXCEPT ![w] = [Idle EXCEPT !.order = o, !.phase = "run"]]
                   = [work EXCEPT ![w] = Started(o)]
              /\ Started(o) \in Hands
<1>1. Master \in Node
  BY QueueAssumption
<1>2. work[w] \in Hands /\ work \in [Worker -> Hands]
  BY DEF Shapes, Hands
<1>3. work[w] = [order |-> work[w].order, phase |-> work[w].phase, at |-> work[w].at]
  BY <1>2 DEF Hands
<1>4. [work[w] EXCEPT !.phase = "failed"] = Failed(w) /\ Failed(w) \in Hands
  BY <1>2, <1>3 DEF Failed, Hands
<1>5. Phase(w, "failed") = [work EXCEPT ![w] = Failed(w)]
  BY <1>4 DEF Phase
<1>6. ASSUME NEW n \in Node
      PROVE  /\ [work EXCEPT ![w].phase = "done", ![w].at = n] = [work EXCEPT ![w] = Finished(w, n)]
             /\ Finished(w, n) \in Hands
  <2>1. Finished(w, n) \in Hands
    BY <1>2 DEF Finished, Hands
  <2>a. [work[w] EXCEPT !.phase = "done"]
          = [order |-> work[w].order, phase |-> "done", at |-> work[w].at]
    BY <1>2, <1>3 DEF Hands
  <2>b. [[order |-> work[w].order, phase |-> "done", at |-> work[w].at] EXCEPT !.at = n]
          = Finished(w, n)
    BY DEF Finished
  <2>2. [[work[w] EXCEPT !.phase = "done"] EXCEPT !.at = n] = Finished(w, n)
    BY <2>a, <2>b, Zenon
  <2>. DEFINE a == [work[w] EXCEPT !.phase = "done"]
              f == [work EXCEPT ![w] = a]
  <2>. HIDE DEF a
  <2>3. f[w] = a /\ \A y \in Worker \ {w} : f[y] = work[y]
    BY <1>2
  <2>4. DOMAIN f = Worker /\ f = [y \in Worker |-> f[y]]
    BY <1>2
  <2>5. [f EXCEPT ![w] = [f[w] EXCEPT !.at = n]] = [f EXCEPT ![w] = Finished(w, n)]
    BY <2>2, <2>3, Zenon DEF a
  <2>. HIDE DEF f
  <2>6. [f EXCEPT ![w] = Finished(w, n)] = [work EXCEPT ![w] = Finished(w, n)]
    BY <2>3, <2>4, <1>2
  <2>7. [f EXCEPT ![w].at = n] = [work EXCEPT ![w] = Finished(w, n)]
    BY <2>5, <2>6
  <2>. QED  BY <2>1, <2>7, Zenon DEF f, a
<1>7. ASSUME NEW o \in Order
      PROVE  [Idle EXCEPT !.order = o, !.phase = "run"] = Started(o) /\ Started(o) \in Hands
  <2>1. [Idle EXCEPT !.order = o] = [order |-> o, phase |-> "idle", at |-> Master]
    BY DEF Idle
  <2>2. [[order |-> o, phase |-> "idle", at |-> Master] EXCEPT !.phase = "run"] = Started(o)
    BY DEF Started
  <2>3. [Idle EXCEPT !.order = o, !.phase = "run"] = Started(o)
    BY <2>1, <2>2, Zenon
  <2>. QED  BY <2>3, <1>1 DEF Started, Hands
<1>8. Idle \in Hands /\ Idle.phase = "idle" /\ Idle.order = NoOrder
  BY <1>1 DEF Idle, Hands
<1>9. Release(w) = [work EXCEPT ![w] = Idle]
  BY DEF Release
<1>. QED  BY <1>2, <1>4, <1>5, <1>6, <1>7, <1>8, <1>9, Zenon

LEMMA StepShapes ==
  ASSUME Shapes, Next
  PROVE  Shapes'
<1>. DEFINE Tasks == [Node -> [Order -> TaskSet]]
<1>0. /\ ds \in Tasks /\ work \in [Worker -> Hands] /\ serving \in Node
      /\ readonly \in {{}, {Other(serving)}} /\ view \in [Connection -> Node]
      /\ proc \in {"up", "stopping", "down"}
      /\ \A w \in Worker : work[w].phase # "idle" => work[w].order \in Order
      /\ flight \subseteq Order \X Node /\ asked \subseteq Order /\ torn \subseteq Order
      /\ troubles \in Nat
      /\ \A n \in Node, o \in Order : TaskAt(n, o) \in TaskSet
  BY DEF Shapes, Hands, TaskAt
<1>. SUFFICES
             /\ ds' \in Tasks /\ work' \in [Worker -> Hands] /\ serving' \in Node
             /\ readonly' \in {{}, {Other(serving')}} /\ view' \in [Connection -> Node]
             /\ proc' \in {"up", "stopping", "down"}
             /\ \A w \in Worker : work'[w].phase # "idle" => work'[w].order \in Order
             /\ flight' \subseteq Order \X Node /\ asked' \subseteq Order /\ torn' \subseteq Order
             /\ troubles' \in Nat
  BY DEF Shapes, Hands
<1>. HIDE DEF Tasks
<1>. USE DEF nodes, book, Trouble, NoTrouble
<1>a. ASSUME NEW c \in Connection, NEW o \in Order
      PROVE  /\ \A x \in State : Put(c, o, [TaskAt(view[c], o) EXCEPT !.st = x]) \in Tasks
             /\ Put(c, o, Again(TaskAt(view[c], o))) \in Tasks
             /\ Applied(view[c], o) \in Tasks
  <2>1. view[c] \in Node /\ TaskAt(view[c], o) \in TaskSet
    BY <1>0
  <2>2. /\ \A x \in State : [TaskAt(view[c], o) EXCEPT !.st = x] \in TaskSet
        /\ Again(TaskAt(view[c], o)) \in TaskSet
    BY <2>1, TaskFields
  <2>3. \A t \in TaskSet : Put(c, o, t) \in Tasks
    BY PutFields DEF Tasks
  <2>4. Applied(view[c], o) \in Tasks
    BY <2>1, AppliedFields DEF Tasks
  <2>. QED  BY <2>2, <2>3, <2>4
<1>b. /\ "server" \in Connection /\ "writer" \in Connection /\ "store" \in Connection
      /\ "pending" \in State /\ "active" \in State /\ "completed" \in State
  BY DEF Connection, State
<1>. DEFINE WorkOK(f) == /\ f \in [Worker -> Hands]
                       /\ \A w \in Worker : f[w].phase # "idle" => f[w].order \in Order
<1>c. ASSUME NEW w \in Worker, NEW x \in Hands, x.phase # "idle" => x.order \in Order
      PROVE  WorkOK([work EXCEPT ![w] = x])
  BY <1>0, <1>c
<1>d. ASSUME NEW w \in Worker
      PROVE  /\ WorkOK(Release(w))
             /\ \A o \in Order : WorkOK([work EXCEPT ![w] = [Idle EXCEPT !.order = o, !.phase = "run"]])
             /\ work[w].phase # "idle" =>
                  /\ WorkOK(Phase(w, "failed"))
                  /\ \A n \in Node : WorkOK([work EXCEPT ![w].phase = "done", ![w].at = n])
  <2>. HIDE DEF WorkOK
  <2>1. WorkOK([work EXCEPT ![w] = Idle])
    BY <1>c, WorkFields
  <2>2. \A o \in Order : WorkOK([work EXCEPT ![w] = Started(o)])
    BY <1>c, WorkFields DEF Started
  <2>3. ASSUME work[w].phase # "idle"
        PROVE  /\ WorkOK([work EXCEPT ![w] = Failed(w)])
               /\ \A n \in Node : WorkOK([work EXCEPT ![w] = Finished(w, n)])
    <3>1. work[w].order \in Order
      BY <1>0, <2>3
    <3>2. Failed(w).order \in Order /\ \A n \in Node : Finished(w, n).order \in Order
      BY <3>1 DEF Failed, Finished
    <3>. QED  BY <3>2, <1>c, WorkFields
  <2>. QED  BY <2>1, <2>2, <2>3, WorkFields, Zenon
<1>e. work \in [Worker -> Hands] /\ WorkOK(work)
  BY <1>0
<1>. SUFFICES
       /\ ds' \in Tasks /\ WorkOK(work') /\ serving' \in Node
       /\ readonly' \in {{}, {Other(serving')}} /\ view' \in [Connection -> Node]
       /\ proc' \in {"up", "stopping", "down"}
       /\ flight' \subseteq Order \X Node /\ asked' \subseteq Order /\ torn' \subseteq Order
       /\ troubles' \in Nat
  OBVIOUS
<1>. HIDE DEF WorkOK
<1>. DEFINE Same == UNCHANGED <<serving, readonly, view, proc, asked, torn>>
<1>1. CASE \E o \in Order : Enqueue(o)
  BY <1>1, <1>0, <1>a, <1>b, <1>e DEF Enqueue
<1>2. ASSUME NEW o \in Order, NEW n \in Node, Land(o, n)
      PROVE  /\ ds' \in Tasks /\ work' = work /\ flight' \subseteq flight /\ troubles' = troubles
             /\ Same
  <2>1. Applied(n, o) \in Tasks
    BY AppliedFields DEF Tasks
  <2>. QED  BY <2>1, <1>2, <1>0 DEF Land
<1>3. ASSUME NEW w \in Worker, NEW o \in Order, Fetch(w, o)
      PROVE  /\ ds' \in Tasks /\ WorkOK(work') /\ flight' = flight
             /\ troubles' \in Nat /\ Same
  <2>1. ds' \in Tasks
    BY <1>3, <1>a, <1>b DEF Fetch
  <2>2. WorkOK(work')
    BY <1>3, <1>d, <1>e DEF Fetch
  <2>. QED  BY <1>3, <1>0, <2>1, <2>2 DEF Fetch
<1>4. ASSUME NEW w \in Worker, handleOrder(w)
      PROVE  /\ ds' \in Tasks /\ WorkOK(work') /\ flight' = flight
             /\ troubles' \in Nat /\ Same
  <2>1. \/ work' = work
        \/ work' = Phase(w, "failed")
        \/ work' = [work EXCEPT ![w].phase = "done", ![w].at = view["store"]]
    BY <1>4 DEF handleOrder
  <2>2. work[w].phase # "idle" /\ work[w].order \in Order /\ view["store"] \in Node
    BY <1>4, <1>0, <1>b DEF handleOrder
  <2>3. ds' \in Tasks
    BY <2>2, <1>4, <1>0, <1>a, <1>b DEF handleOrder
  <2>4. WorkOK(work')
    BY <2>1, <2>2, <1>d, <1>e
  <2>5. troubles' \in Nat /\ Same /\ flight' = flight
    BY <1>4, <1>0 DEF handleOrder
  <2>. QED  BY <2>3, <2>4, <2>5
<1>5. ASSUME NEW w \in Worker, Timeout(w)
      PROVE  /\ ds' = ds /\ WorkOK(work') /\ flight' \subseteq Order \X Node
             /\ troubles' \in Nat /\ Same
  <2>1. work[w].phase # "idle" /\ work[w].order \in Order /\ view["store"] \in Node
    BY <1>5, <1>0, <1>b DEF Timeout
  <2>2. WorkOK(work')
    BY <1>5, <2>1, <1>d DEF Timeout
  <2>. QED  BY <1>5, <1>0, <2>1, <2>2 DEF Timeout
<1>6. ASSUME NEW w \in Worker, Complete(w)
      PROVE  /\ ds' \in Tasks /\ WorkOK(work') /\ flight' = flight /\ troubles' \in Nat
             /\ UNCHANGED <<serving, readonly, view, proc, asked>> /\ torn' \subseteq Order
  <2>1. work[w].order \in Order
    BY <1>6, <1>0 DEF Complete
  <2>2. ds' \in Tasks
    BY <2>1, <1>6, <1>0, <1>a, <1>b DEF Complete
  <2>3. WorkOK(work')
    BY <1>6, <1>d DEF Complete
  <2>4. torn' \subseteq Order
    BY <2>1, <1>6, <1>0 DEF Complete
  <2>5. flight' = flight /\ troubles' \in Nat /\ UNCHANGED <<serving, readonly, view, proc, asked>>
    BY <1>6, <1>0 DEF Complete
  <2>. QED  BY <2>2, <2>3, <2>4, <2>5
<1>7. ASSUME NEW w \in Worker, Retry(w)
      PROVE  ds' \in Tasks /\ WorkOK(work') /\ flight' = flight /\ troubles' \in Nat /\ Same
  <2>1. work[w].order \in Order
    BY <1>7, <1>0 DEF Retry
  <2>2. ds' \in Tasks
    BY <2>1, <1>7, <1>0, <1>a, <1>b DEF Retry
  <2>3. WorkOK(work')
    BY <1>7, <1>d DEF Retry
  <2>. QED  BY <2>2, <2>3, <1>7, <1>0 DEF Retry
<1>8. ASSUME NEW w \in Worker, Requeue(w)
      PROVE  /\ ds' \in Tasks /\ WorkOK(work') /\ flight' \subseteq Order \X Node
             /\ troubles' = troubles /\ Same
  <2>1. work[w].order \in Order
    BY <1>8, <1>0 DEF Requeue
  <2>2. ds' \in Tasks
    BY <2>1, <1>8, <1>0, <1>a, <1>b DEF Requeue
  <2>3. WorkOK(work')
    BY <1>8, <1>d DEF Requeue
  <2>4. view["store"] \in Node
    BY <1>0, <1>b
  <2>. QED  BY <2>1, <2>2, <2>3, <2>4, <1>8, <1>0 DEF Requeue
<1>9. CASE \E o \in Order : Forward(o) \/ Recover(o)
  BY <1>9, <1>0, <1>a, <1>b, <1>e DEF Forward, Recover
<1>10. CASE Shutdown \/ Restart
  BY <1>10, <1>0, <1>e DEF Shutdown, Restart
<1>11. CASE Exit
  <2>1. WorkOK(work')
    BY <1>11, QueueAssumption DEF Exit, Idle, Hands, WorkOK
  <2>2. flight' \subseteq Order \X Node
    BY <1>11, <1>0, <1>b DEF Exit
  <2>. QED  BY <1>11, <1>0, <2>1, <2>2 DEF Exit
<1>12. CASE Replicate
  BY <1>12, <1>0, <1>e, OtherNode DEF Replicate, Tasks
<1>13. CASE Failover
  BY <1>13, <1>0, <1>e, OtherNode DEF Failover
<1>14. CASE Demote
  <2>1. ds' \in Tasks
    BY <1>14, <1>0, OtherNode DEF Demote, Tasks
  <2>2. torn' \subseteq Order
    BY <1>14, <1>0 DEF Demote
  <2>. QED  BY <1>14, <1>0, <1>e, <2>1, <2>2, OtherNode DEF Demote
<1>15. CASE \E c \in Connection : SwitchMaster(c)
  BY <1>15, <1>0, <1>e DEF SwitchMaster
<1>16. \/ \E o \in Order : Enqueue(o) \/ \E n \in Node : Land(o, n)
       \/ \E w \in Worker : \/ Timeout(w) \/ handleOrder(w) \/ Complete(w) \/ Retry(w)
                           \/ Requeue(w) \/ \E o \in Order : Fetch(w, o)
       \/ \E o \in Order : Forward(o) \/ Recover(o)
       \/ Shutdown \/ Exit \/ Restart \/ Replicate \/ Failover \/ Demote
       \/ \E c \in Connection : SwitchMaster(c)
  BY Zenon DEF Next, Serve
<1>. QED
  BY <1>1, <1>2, <1>3, <1>4, <1>5, <1>6, <1>7, <1>8, <1>9, <1>10, <1>11, <1>12, <1>13, <1>14,
     <1>15, <1>16, <1>0, <1>e

-------------------------------------------------------------------------------
(* What each kind of write makes of the tasks. *)

LEMMA StatusWritten ==
  ASSUME Shapes, NEW c \in Connection, NEW o \in Order, NEW x \in State,
         ds' = Put(c, o, [TaskAt(view[c], o) EXCEPT !.st = x])
  PROVE  \A n \in Node, p \in Order :
           /\ TaskAt(n, p)'.applied = TaskAt(n, p).applied
           /\ TaskAt(n, p)'.st = IF n = view[c] /\ p = o THEN x ELSE TaskAt(n, p).st
<1>1. view[c] \in Node /\ TaskAt(view[c], o) \in TaskSet
  BY DEF Shapes, TaskAt
<1>. DEFINE t == [TaskAt(view[c], o) EXCEPT !.st = x]
<1>2. t \in TaskSet /\ t.st = x /\ t.applied = TaskAt(view[c], o).applied
  BY <1>1, TaskFields
<1>. HIDE DEF t
<1>3. \A n \in Node, p \in Order :
        TaskAt(n, p)' = IF n = view[c] /\ p = o THEN t ELSE TaskAt(n, p)
  BY <1>2, PutFields DEF TaskAt, t
<1>. QED  BY <1>2, <1>3

LEMMA AgainWritten ==
  ASSUME Shapes, NEW c \in Connection, NEW o \in Order,
         ds' = Put(c, o, Again(TaskAt(view[c], o)))
  PROVE  \A n \in Node, p \in Order :
           /\ TaskAt(n, p)'.applied = TaskAt(n, p).applied
           /\ TaskAt(n, p)'.st # TaskAt(n, p).st =>
                /\ n = view[c] /\ p = o
                /\ TaskAt(n, p)'.st \in {"retry", "archived"}
<1>1. view[c] \in Node /\ TaskAt(view[c], o) \in TaskSet
  BY DEF Shapes, TaskAt
<1>. DEFINE t == Again(TaskAt(view[c], o))
<1>2. t \in TaskSet /\ t.st \in {"retry", "archived"} /\ t.applied = TaskAt(view[c], o).applied
  BY <1>1, TaskFields
<1>. HIDE DEF t
<1>3. \A n \in Node, p \in Order :
        TaskAt(n, p)' = IF n = view[c] /\ p = o THEN t ELSE TaskAt(n, p)
  BY <1>2, PutFields DEF TaskAt, t
<1>. QED  BY <1>2, <1>3

LEMMA ApplyWritten ==
  ASSUME Shapes, NEW m \in Node, NEW o \in Order, ds' = Applied(m, o)
  PROVE  \A n \in Node, p \in Order :
           /\ TaskAt(n, p)'.st = TaskAt(n, p).st
           /\ TaskAt(n, p)'.applied = IF n = m /\ p = o THEN TaskAt(n, p).applied + 1
                                      ELSE TaskAt(n, p).applied
<1>1. TaskAt(m, o) \in TaskSet
  BY DEF Shapes, TaskAt
<1>. DEFINE t == [TaskAt(m, o) EXCEPT !.applied = @ + 1]
<1>2. t.st = TaskAt(m, o).st /\ t.applied = TaskAt(m, o).applied + 1
  BY <1>1, TaskFields
<1>. HIDE DEF t
<1>3. \A n \in Node, p \in Order :
        TaskAt(n, p)' = IF n = m /\ p = o THEN t ELSE TaskAt(n, p)
  BY AppliedFields DEF TaskAt, t
<1>. QED  BY <1>2, <1>3

LEMMA CopyWritten ==
  ASSUME Shapes, ds' = [ds EXCEPT ![Other(serving)] = ds[serving]]
  PROVE  \A n \in Node, p \in Order : TaskAt(n, p)' = TaskAt(serving, p)
<1>1. serving \in Node /\ Other(serving) \in Node /\ Other(serving) # serving
      /\ \A n \in Node : n = serving \/ n = Other(serving)
  BY OtherNode DEF Shapes
<1>2. DOMAIN ds = Node
  BY DEF Shapes
<1>3. ds'[serving] = ds[serving] /\ ds'[Other(serving)] = ds[serving]
  BY <1>1, <1>2
<1>. QED  BY <1>1, <1>3 DEF TaskAt

-------------------------------------------------------------------------------
(* The actions one by one. *)

LEMMA Actions ==
  ASSUME Next
  PROVE  \/ \E o \in Order : Enqueue(o) \/ \E n \in Node : Land(o, n)
         \/ \E w \in Worker : \/ Timeout(w) \/ handleOrder(w) \/ Complete(w) \/ Retry(w)
                             \/ Requeue(w) \/ \E o \in Order : Fetch(w, o)
         \/ \E o \in Order : Forward(o) \/ Recover(o)
         \/ Shutdown \/ Exit \/ Restart \/ Replicate \/ Failover \/ Demote
         \/ \E c \in Connection : SwitchMaster(c)
BY Zenon DEF Next, Serve

\* What a worker has in hand is an order, and the three connections are what they are.
LEMMA Actors ==
  ASSUME Shapes
  PROVE  /\ "server" \in Connection /\ "writer" \in Connection /\ "store" \in Connection
         /\ {"pending", "active", "completed"} \subseteq State
         /\ serving \in Node /\ Other(serving) \in Node /\ Other(serving) # serving
         /\ \A n \in Node : n = serving \/ n = Other(serving)
         /\ readonly \in {{}, {Other(serving)}}
         /\ \A c \in Connection : view[c] \in Node
         /\ \A w \in Worker : /\ work[w].order \in Order \cup {NoOrder}
                              /\ work[w].phase # "idle" => work[w].order \in Order
         /\ \A n \in Node, o \in Order : TaskAt(n, o).st \in State /\ TaskAt(n, o).applied \in Nat
         /\ troubles \in Nat
<1>1. \A n \in Node, o \in Order : TaskAt(n, o) \in TaskSet
  BY DEF Shapes, TaskAt
<1>2. \A n \in Node, o \in Order : TaskAt(n, o).st \in State /\ TaskAt(n, o).applied \in Nat
  BY <1>1, TaskFields
<1>3. \A w \in Worker : work[w].order \in Order \cup {NoOrder}
  BY DEF Shapes
<1>4. serving \in Node /\ Other(serving) \in Node /\ Other(serving) # serving
      /\ \A n \in Node : n = serving \/ n = Other(serving)
  BY OtherNode DEF Shapes
<1>. QED  BY <1>2, <1>3, <1>4 DEF Shapes, Connection, State

LEMMA StepNewOnesAreNew ==
  ASSUME Shapes, NewOnesAreNew, Next
  PROVE  NewOnesAreNew'
<1>. SUFFICES ASSUME NEW n \in Node, NEW p \in Order, p \notin asked'
              PROVE  TaskAt(n, p)'.st = "none"
  BY DEF NewOnesAreNew
<1>. USE DEF nodes, book, Trouble, NoTrouble
<1>0. \A m \in Node, q \in Order : q \notin asked => TaskAt(m, q).st = "none"
  BY DEF NewOnesAreNew
<1>s. ds' = ds /\ asked' = asked => TaskAt(n, p)'.st = "none"
  BY <1>0 DEF TaskAt
<1>1. ASSUME NEW o \in Order, Enqueue(o) PROVE TaskAt(n, p)'.st = "none"
  <2>1. p # o /\ p \notin asked
    BY <1>1 DEF Enqueue
  <2>2. \/ ds' = ds
        \/ ds' = Put("writer", o, [TaskAt(view["writer"], o) EXCEPT !.st = "pending"])
    BY <1>1 DEF Enqueue
  <2>3. CASE ds' = ds
    BY <2>3, <2>1, <1>0 DEF TaskAt
  <2>4. CASE ds' = Put("writer", o, [TaskAt(view["writer"], o) EXCEPT !.st = "pending"])
    <3>1. TaskAt(n, p)'.st = TaskAt(n, p).st
      BY <2>1, <2>4, StatusWritten, Actors
    <3>. QED  BY <3>1, <2>1, <1>0
  <2>. QED  BY <2>2, <2>3, <2>4
<1>2. ASSUME NEW o \in Order, NEW m \in Node, ds' = Applied(m, o), asked' = asked
      PROVE  TaskAt(n, p)'.st = "none"
  BY <1>2, <1>0, ApplyWritten
<1>3. ASSUME NEW o \in Order, NEW x \in State, asked' = asked,
             TaskAt(view["server"], o).st # "none",
             ds' = Put("server", o, [TaskAt(view["server"], o) EXCEPT !.st = x])
      PROVE  TaskAt(n, p)'.st = "none"
  BY <1>3, <1>0, StatusWritten, Actors
<1>4. ASSUME NEW o \in Order, asked' = asked, TaskAt(view["server"], o).st # "none",
             ds' = Put("server", o, Again(TaskAt(view["server"], o)))
      PROVE  TaskAt(n, p)'.st = "none"
  BY <1>4, <1>0, AgainWritten, Actors
<1>5. ASSUME asked' = asked, ds' = [ds EXCEPT ![Other(serving)] = ds[serving]]
      PROVE  TaskAt(n, p)'.st = "none"
  BY <1>5, <1>0, CopyWritten, Actors
<1>6. ASSUME NEW o \in Order, NEW m \in Node, Land(o, m) PROVE TaskAt(n, p)'.st = "none"
  BY <1>6, <1>2, <1>s DEF Land
<1>7. ASSUME NEW w \in Worker, NEW o \in Order, Fetch(w, o) PROVE TaskAt(n, p)'.st = "none"
  BY <1>7, <1>3, Actors DEF Fetch
<1>8. ASSUME NEW w \in Worker, handleOrder(w) PROVE TaskAt(n, p)'.st = "none"
  <2>1. work[w].order \in Order /\ view["store"] \in Node
    BY <1>8, Actors DEF handleOrder
  <2>2. asked' = asked /\ (ds' = ds \/ ds' = Applied(view["store"], work[w].order))
    BY <1>8 DEF handleOrder
  <2>. QED  BY <2>1, <2>2, <1>2, <1>s
<1>9. ASSUME NEW w \in Worker, Complete(w) PROVE TaskAt(n, p)'.st = "none"
  <2>1. work[w].order \in Order
    BY <1>9, Actors DEF Complete
  <2>. QED  BY <2>1, <1>9, <1>3, <1>s, Actors DEF Complete
<1>10. ASSUME NEW w \in Worker, Retry(w) PROVE TaskAt(n, p)'.st = "none"
  <2>1. work[w].order \in Order
    BY <1>10, Actors DEF Retry
  <2>. QED  BY <2>1, <1>10, <1>4, <1>s, Actors DEF Retry
<1>11. ASSUME NEW w \in Worker, Requeue(w) PROVE TaskAt(n, p)'.st = "none"
  <2>1. work[w].order \in Order
    BY <1>11, Actors DEF Requeue
  <2>. QED  BY <2>1, <1>11, <1>3, <1>s, Actors DEF Requeue
<1>12. ASSUME NEW o \in Order, Forward(o) \/ Recover(o) PROVE TaskAt(n, p)'.st = "none"
  BY <1>12, <1>3, <1>4, Actors DEF Forward, Recover
<1>13. CASE Replicate \/ Demote
  BY <1>13, <1>5 DEF Replicate, Demote
<1>14. ASSUME \/ Shutdown \/ Exit \/ Restart \/ Failover
              \/ \E w \in Worker : Timeout(w)
              \/ \E c \in Connection : SwitchMaster(c)
       PROVE  TaskAt(n, p)'.st = "none"
  <2>1. ds' = ds /\ asked' = asked
    BY <1>14 DEF Shutdown, Exit, Restart, Failover, Timeout, SwitchMaster
  <2>. QED  BY <2>1, <1>s
<1>. QED
  BY Actions, <1>1, <1>6, <1>7, <1>8, <1>9, <1>10, <1>11, <1>12, <1>13, <1>14

\* What each kind of step makes of the workers.
LEMMA HandChanged ==
  ASSUME Shapes, NEW w \in Worker, NEW x, work' = [work EXCEPT ![w] = x]
  PROVE  work'[w] = x /\ \A y \in Worker : y # w => work'[y] = work[y]
BY DEF Shapes

LEMMA HandReleased ==
  ASSUME Shapes, NEW w \in Worker, work' = Release(w)
  PROVE  /\ work'[w].phase = "idle" /\ work'[w].order = NoOrder
         /\ \A y \in Worker : y # w => work'[y] = work[y]
<1>1. work'[w] = Idle /\ \A y \in Worker : y # w => work'[y] = work[y]
  BY HandChanged DEF Release
<1>. QED  BY <1>1 DEF Idle

LEMMA HandFailed ==
  ASSUME Shapes, NEW w \in Worker, work' = Phase(w, "failed")
  PROVE  /\ work'[w].phase = "failed" /\ work'[w].order = work[w].order
         /\ \A y \in Worker : y # w => work'[y] = work[y]
<1>1. work' = [work EXCEPT ![w] = Failed(w)]
  BY WorkFields, Zenon
<1>2. work'[w] = Failed(w) /\ \A y \in Worker : y # w => work'[y] = work[y]
  BY <1>1, HandChanged, Zenon
<1>. QED  BY <1>2 DEF Failed

LEMMA HandStarted ==
  ASSUME Shapes, NEW w \in Worker, NEW o \in Order,
         work' = [work EXCEPT ![w] = [Idle EXCEPT !.order = o, !.phase = "run"]]
  PROVE  /\ work'[w].phase = "run" /\ work'[w].order = o
         /\ \A y \in Worker : y # w => work'[y] = work[y]
<1>1. work' = [work EXCEPT ![w] = Started(o)]
  BY WorkFields, Zenon
<1>2. work'[w] = Started(o) /\ \A y \in Worker : y # w => work'[y] = work[y]
  BY <1>1, HandChanged, Zenon
<1>. QED  BY <1>2 DEF Started

LEMMA HandFinished ==
  ASSUME Shapes, NEW w \in Worker, NEW n \in Node,
         work' = [work EXCEPT ![w].phase = "done", ![w].at = n]
  PROVE  /\ work'[w].phase = "done" /\ work'[w].order = work[w].order /\ work'[w].at = n
         /\ \A y \in Worker : y # w => work'[y] = work[y]
<1>1. work' = [work EXCEPT ![w] = Finished(w, n)]
  BY WorkFields, Zenon
<1>2. work'[w] = Finished(w, n) /\ \A y \in Worker : y # w => work'[y] = work[y]
  BY <1>1, HandChanged, Zenon
<1>3. /\ Finished(w, n).phase = "done" /\ Finished(w, n).order = work[w].order
      /\ Finished(w, n).at = n
  BY DEF Finished
<1>. QED  BY <1>2, <1>3

\* Applies are never taken back, except where a node takes over the data of another.
LEMMA AppliedStays ==
  ASSUME Shapes, Next, ~Replicate, ~Demote
  PROVE  \A n \in Node, p \in Order : TaskAt(n, p)'.applied >= TaskAt(n, p).applied
<1>. SUFFICES ASSUME NEW n \in Node, NEW p \in Order
              PROVE  TaskAt(n, p)'.applied >= TaskAt(n, p).applied
  OBVIOUS
<1>. USE DEF nodes, book, Trouble, NoTrouble
<1>. DEFINE Kept == TaskAt(n, p)'.applied >= TaskAt(n, p).applied
<1>0. TaskAt(n, p).applied \in Nat
  BY Actors
<1>1. ASSUME ds' = ds PROVE Kept
  BY <1>1, <1>0 DEF TaskAt
<1>2. ASSUME NEW o \in Order, NEW m \in Node, ds' = Applied(m, o) PROVE Kept
  BY <1>2, <1>0, ApplyWritten
<1>3. ASSUME NEW c \in Connection, NEW o \in Order, NEW x \in State,
             ds' = Put(c, o, [TaskAt(view[c], o) EXCEPT !.st = x])
      PROVE  Kept
  BY <1>3, <1>0, StatusWritten
<1>4. ASSUME NEW c \in Connection, NEW o \in Order, ds' = Put(c, o, Again(TaskAt(view[c], o)))
      PROVE  Kept
  BY <1>4, <1>0, AgainWritten
<1>. HIDE DEF Kept
<1>5. ASSUME NEW o \in Order, Enqueue(o) PROVE Kept
  BY <1>5, <1>1, <1>3, Actors DEF Enqueue
<1>6. ASSUME NEW o \in Order, NEW m \in Node, Land(o, m) PROVE Kept
  BY <1>6, <1>2, <1>1 DEF Land
<1>7. ASSUME NEW w \in Worker, NEW o \in Order, Fetch(w, o) PROVE Kept
  BY <1>7, <1>3, Actors DEF Fetch
<1>8. ASSUME NEW w \in Worker, handleOrder(w) PROVE Kept
  <2>1. work[w].order \in Order /\ view["store"] \in Node
    BY <1>8, Actors DEF handleOrder
  <2>2. ds' = ds \/ ds' = Applied(view["store"], work[w].order)
    BY <1>8 DEF handleOrder
  <2>. QED  BY <2>1, <2>2, <1>2, <1>1
<1>9. ASSUME NEW w \in Worker, Complete(w) PROVE Kept
  <2>1. work[w].order \in Order
    BY <1>9, Actors DEF Complete
  <2>. QED  BY <2>1, <1>9, <1>3, <1>1, Actors DEF Complete
<1>10. ASSUME NEW w \in Worker, Retry(w) PROVE Kept
  <2>1. work[w].order \in Order
    BY <1>10, Actors DEF Retry
  <2>. QED  BY <2>1, <1>10, <1>4, <1>1, Actors DEF Retry
<1>11. ASSUME NEW w \in Worker, Requeue(w) PROVE Kept
  <2>1. work[w].order \in Order
    BY <1>11, Actors DEF Requeue
  <2>. QED  BY <2>1, <1>11, <1>3, <1>1, Actors DEF Requeue
<1>12. ASSUME NEW o \in Order, Forward(o) \/ Recover(o) PROVE Kept
  BY <1>12, <1>3, <1>4, Actors DEF Forward, Recover
<1>13. ASSUME \/ Shutdown \/ Exit \/ Restart \/ Failover
              \/ \E w \in Worker : Timeout(w)
              \/ \E c \in Connection : SwitchMaster(c)
       PROVE  Kept
  <2>1. ds' = ds
    BY <1>13 DEF Shutdown, Exit, Restart, Failover, Timeout, SwitchMaster
  <2>. QED  BY <2>1, <1>1
<1>14. Kept
  BY Actions, <1>5, <1>6, <1>7, <1>8, <1>9, <1>10, <1>11, <1>12, <1>13
<1>. QED  BY <1>14 DEF Kept

LEMMA StepDoneIsApplied ==
  ASSUME Shapes, DoneIsApplied, Next
  PROVE  DoneIsApplied'
<1>. DEFINE Good(y) == \/ work'[y].order \in torn'
                       \/ /\ work'[y].at \notin readonly'
                          /\ ds'[work'[y].at][work'[y].order].applied > 0
<1>. SUFFICES ASSUME NEW y \in Worker, work'[y].phase = "done" PROVE Good(y)
  BY DEF DoneIsApplied, TaskAt
<1>. USE DEF nodes, book, Trouble, NoTrouble
<1>0. /\ work[y].phase = "done" =>
           \/ work[y].order \in torn
           \/ work[y].at \notin readonly /\ ds[work[y].at][work[y].order].applied > 0
      /\ work[y].at \in Node
      /\ work[y].phase = "done" => work[y].order \in Order
  BY Actors DEF DoneIsApplied, Shapes, TaskAt
<1>1. ASSUME work'[y] = work[y], torn \subseteq torn', readonly' \subseteq readonly,
             ~Replicate, ~Demote
      PROVE  Good(y)
  <2>1. work[y].phase = "done" /\ work[y].order \in Order
    BY <1>1, <1>0
  <2>2. CASE work[y].order \in torn
    BY <2>2, <1>1
  <2>3. CASE work[y].at \notin readonly /\ ds[work[y].at][work[y].order].applied > 0
    <3>1. \A n \in Node, p \in Order : ds'[n][p].applied >= ds[n][p].applied /\ ds[n][p].applied \in Nat
      BY <1>1, AppliedStays, Actors DEF TaskAt
    <3>a. ds[work[y].at][work[y].order].applied \in Nat
          /\ ds'[work[y].at][work[y].order].applied >= ds[work[y].at][work[y].order].applied
      BY <3>1, <2>1, <1>0
    <3>b. ds'[work[y].at][work[y].order].applied \in Nat
      BY <2>1, <1>0, StepShapes, Actors DEF Shapes, TaskSet
    <3>2. ds'[work[y].at][work[y].order].applied > 0
      BY <3>a, <3>b, <2>3
    <3>. QED  BY <3>2, <2>3, <1>1
  <2>. QED  BY <2>1, <2>2, <2>3, <1>0
<1>. HIDE DEF Good
<1>2. Idle.phase # "done"
  BY DEF Idle
<1>4. CASE Replicate
  <2>1. work' = work /\ readonly' = readonly /\ torn' = torn /\ Other(serving) \in readonly
        /\ ds' = [ds EXCEPT ![Other(serving)] = ds[serving]]
    BY <1>4 DEF Replicate
  <2>2. work[y].at \in Node /\ (work[y].at \notin readonly => work[y].at = serving)
    BY <2>1, <1>0, Actors
  <2>3. \A n \in Node, p \in Order : ds'[n][p] = ds[serving][p]
    BY <2>1, CopyWritten DEF TaskAt
  <2>. QED  BY <2>1, <2>2, <2>3, <1>0 DEF Good
<1>5. CASE Demote
  <2>1. work' = work /\ readonly' = {Other(serving)}
        /\ ds' = [ds EXCEPT ![Other(serving)] = ds[serving]]
        /\ torn \subseteq torn'
        /\ (work[y].phase = "done" /\ work[y].at = Other(serving) => work[y].order \in torn')
    BY <1>5 DEF Demote
  <2>2. work[y].at \in Node /\ (work[y].at # Other(serving) => work[y].at = serving)
    BY <1>0, Actors
  <2>3. \A n \in Node, p \in Order : ds'[n][p] = ds[serving][p]
    BY <2>1, CopyWritten DEF TaskAt
  <2>. QED  BY <2>1, <2>2, <2>3, <1>0, Actors DEF Good
<1>6. CASE ~Replicate /\ ~Demote
  <2>1. ASSUME \/ Shutdown \/ Restart \/ Failover
               \/ \E o \in Order : \/ Enqueue(o) \/ Forward(o) \/ Recover(o)
                                   \/ \E n \in Node : Land(o, n)
               \/ \E c \in Connection : SwitchMaster(c)
        PROVE  work' = work /\ torn' = torn /\ readonly' \subseteq readonly
    BY <2>1 DEF Shutdown, Restart, Failover, Enqueue, Forward, Recover, Land, SwitchMaster
  <2>2. ASSUME Exit PROVE Good(y)
    <3>1. work'[y] = Idle
      BY <2>2 DEF Exit
    <3>. QED  BY <3>1, <1>2
  <2>3. ASSUME NEW w \in Worker, Timeout(w) \/ Retry(w) \/ Requeue(w) \/ Complete(w)
        PROVE  Good(y)
    <3>1. readonly' = readonly /\ torn \subseteq torn'
      BY <2>3 DEF Timeout, Retry, Requeue, Complete
    <3>2. work' = Phase(w, "failed") \/ work' = Release(w)
      BY <2>3 DEF Timeout, Retry, Requeue, Complete
    <3>3. work'[y] = work[y]
      BY <3>2, HandFailed, HandReleased
    <3>. QED  BY <3>1, <3>3, <1>1, <1>6
  <2>4. ASSUME NEW w \in Worker, NEW o \in Order, Fetch(w, o) PROVE Good(y)
    <3>1. readonly' = readonly /\ torn' = torn
          /\ (work' = work \/ work' = [work EXCEPT ![w] = [Idle EXCEPT !.order = o, !.phase = "run"]])
      BY <2>4 DEF Fetch
    <3>2. work'[y] = work[y]
      BY <3>1, HandStarted
    <3>. QED  BY <3>1, <3>2, <1>1, <1>6
  <2>5. ASSUME NEW w \in Worker, handleOrder(w) PROVE Good(y)
    <3>1. readonly' = readonly /\ torn' = torn
      BY <2>5 DEF handleOrder
    <3>2. CASE work' = work \/ work' = Phase(w, "failed")
      <4>1. work'[y] = work[y]
        BY <3>2, HandFailed, HandReleased
      <4>. QED  BY <3>1, <4>1, <1>1, <1>6
    <3>3. CASE /\ work' = [work EXCEPT ![w].phase = "done", ![w].at = view["store"]]
               /\ Writes("store") /\ ds' = Applied(view["store"], work[w].order)
      <4>1. view["store"] \in Node /\ view["store"] \notin readonly /\ work[w].order \in Order
        BY <2>5, <3>3, Actors DEF handleOrder, Writes
      <4>2. /\ work'[w].order = work[w].order /\ work'[w].at = view["store"]
            /\ y # w => work'[y] = work[y]
        BY <3>3, <4>1, HandFinished, Zenon
      <4>3. CASE y = w
        <5>1. work'[y].order = work[w].order /\ work'[y].at = view["store"]
          BY <4>2, <4>3
        <5>2. ds'[view["store"]][work[w].order].applied > 0
          BY <4>1, <3>3, ApplyWritten, Actors DEF TaskAt
        <5>. QED  BY <5>1, <5>2, <4>1, <3>1 DEF Good
      <4>4. CASE y # w
        <5>1. work'[y] = work[y]
          BY <4>2, <4>4
        <5>. QED  BY <5>1, <3>1, <1>1, <1>6
      <4>. QED  BY <4>3, <4>4
    <3>4. \/ work' = work \/ work' = Phase(w, "failed")
          \/ /\ work' = [work EXCEPT ![w].phase = "done", ![w].at = view["store"]]
             /\ Writes("store") /\ ds' = Applied(view["store"], work[w].order)
      BY <2>5 DEF handleOrder
    <3>. QED  BY <3>2, <3>3, <3>4
  <2>. QED  BY Actions, <1>6, <1>1, <2>1, <2>2, <2>3, <2>4, <2>5
<1>. QED  BY <1>4, <1>5, <1>6

\* Only Complete completes a task, for a worker that has applied it.
LEMMA StepCompletedIsApplied ==
  ASSUME Shapes, DoneIsApplied, CompletedIsApplied, Next
  PROVE  CompletedIsApplied'
<1>. DEFINE Sound(n, p) == TaskAt(n, p)'.st = "completed" /\ TaskAt(n, p)'.applied = 0 => p \in torn'
<1>. SUFFICES ASSUME NEW n \in Node, NEW p \in Order PROVE Sound(n, p)
  BY DEF CompletedIsApplied
<1>. USE DEF nodes, book, Trouble, NoTrouble
<1>0. /\ \A m \in Node : TaskAt(m, p).st = "completed" /\ TaskAt(m, p).applied = 0 => p \in torn
      /\ TaskAt(n, p).applied \in Nat
  BY Actors DEF CompletedIsApplied
<1>1. ASSUME torn \subseteq torn', TaskAt(n, p)'.st = "completed" => TaskAt(n, p).st = "completed",
             TaskAt(n, p)'.applied = 0 => TaskAt(n, p).applied = 0
      PROVE  Sound(n, p)
  BY <1>0, <1>1
<1>. HIDE DEF Sound
<1>2. ASSUME ds' = ds, torn \subseteq torn' PROVE Sound(n, p)
  BY <1>1, <1>2 DEF TaskAt
<1>3. ASSUME NEW c \in Connection, NEW o \in Order, NEW x \in State, x # "completed",
             ds' = Put(c, o, [TaskAt(view[c], o) EXCEPT !.st = x]), torn' = torn
      PROVE  Sound(n, p)
  BY <1>1, <1>3, StatusWritten
<1>4. ASSUME NEW c \in Connection, NEW o \in Order, torn' = torn,
             ds' = Put(c, o, Again(TaskAt(view[c], o)))
      PROVE  Sound(n, p)
  BY <1>1, <1>4, AgainWritten
<1>5. ASSUME NEW m \in Node, NEW o \in Order, ds' = Applied(m, o), torn' = torn PROVE Sound(n, p)
  BY <1>0, <1>1, <1>5, ApplyWritten
<1>6. ASSUME NEW o \in Order, Enqueue(o) PROVE Sound(n, p)
  BY <1>6, <1>2, <1>3, Actors DEF Enqueue
<1>7. ASSUME NEW o \in Order, NEW m \in Node, Land(o, m) PROVE Sound(n, p)
  BY <1>7, <1>5, <1>2 DEF Land
<1>8. ASSUME NEW w \in Worker, NEW o \in Order, Fetch(w, o) PROVE Sound(n, p)
  BY <1>8, <1>3, Actors DEF Fetch
<1>9. ASSUME NEW w \in Worker, handleOrder(w) PROVE Sound(n, p)
  <2>1. work[w].order \in Order /\ view["store"] \in Node
    BY <1>9, Actors DEF handleOrder
  <2>2. torn' = torn /\ (ds' = ds \/ ds' = Applied(view["store"], work[w].order))
    BY <1>9 DEF handleOrder
  <2>. QED  BY <2>1, <2>2, <1>2, <1>5
<1>10. ASSUME NEW w \in Worker, Complete(w) PROVE Sound(n, p)
  <2>. DEFINE o == work[w].order
              s == view["server"]
  <2>1. o \in Order /\ s \in Node /\ work[w].phase = "done" /\ torn \subseteq torn'
    BY <1>10, Actors DEF Complete
  <2>2. CASE ds' = ds
    BY <2>1, <2>2, <1>2
  <2>3. CASE ds' # ds
    <3>1. /\ ds' = Put("server", o, [TaskAt(s, o) EXCEPT !.st = "completed"])
          /\ work[w].at # s => o \in torn'
      BY <1>10, <2>3 DEF Complete
    <3>2. /\ TaskAt(n, p)'.applied = TaskAt(n, p).applied
          /\ ~(n = s /\ p = o) => TaskAt(n, p)'.st = TaskAt(n, p).st
      BY <3>1, <2>1, StatusWritten, Actors
    <3>3. CASE ~(n = s /\ p = o)
      BY <3>2, <3>3, <2>1, <1>1
    <3>4. CASE n = s /\ p = o
      <4>1. o \in torn' \/ TaskAt(s, o).applied > 0
        BY <3>1, <2>1 DEF DoneIsApplied
      <4>. QED  BY <4>1, <3>2, <3>4, <1>0 DEF Sound
    <3>. QED  BY <3>3, <3>4
  <2>. QED  BY <2>2, <2>3
<1>11. ASSUME NEW w \in Worker, Retry(w) PROVE Sound(n, p)
  <2>1. work[w].order \in Order
    BY <1>11, Actors DEF Retry
  <2>. QED  BY <2>1, <1>11, <1>4, <1>2, Actors DEF Retry
<1>12. ASSUME NEW w \in Worker, Requeue(w) PROVE Sound(n, p)
  <2>1. work[w].order \in Order
    BY <1>12, Actors DEF Requeue
  <2>. QED  BY <2>1, <1>12, <1>3, <1>2, Actors DEF Requeue
<1>13. ASSUME NEW o \in Order, Forward(o) \/ Recover(o) PROVE Sound(n, p)
  BY <1>13, <1>3, <1>4, Actors DEF Forward, Recover
<1>14. CASE Replicate \/ Demote
  <2>1. torn \subseteq torn' /\ ds' = [ds EXCEPT ![Other(serving)] = ds[serving]]
    BY <1>14 DEF Replicate, Demote
  <2>2. TaskAt(n, p)' = TaskAt(serving, p) /\ serving \in Node
    BY <2>1, CopyWritten, Actors
  <2>. QED  BY <2>1, <2>2, <1>0 DEF Sound
<1>15. ASSUME \/ Shutdown \/ Exit \/ Restart \/ Failover
              \/ \E w \in Worker : Timeout(w)
              \/ \E c \in Connection : SwitchMaster(c)
       PROVE  Sound(n, p)
  <2>1. ds' = ds /\ torn' = torn
    BY <1>15 DEF Shutdown, Exit, Restart, Failover, Timeout, SwitchMaster
  <2>. QED  BY <2>1, <1>2
<1>. QED
  BY Actions, <1>6, <1>7, <1>8, <1>9, <1>10, <1>11, <1>12, <1>13, <1>14, <1>15

-------------------------------------------------------------------------------
(* How the counts change. *)

LEMMA HandsCount ==
  ASSUME NEW w \in Worker, NEW o, \A y \in Worker : y # w => work'[y] = work[y]
  PROVE  /\ Cardinality(InHand(o)') <= Cardinality(InHand(o)) + 1
         /\ (w \in InHand(o)' => w \in InHand(o)) =>
              Cardinality(InHand(o)') <= Cardinality(InHand(o))
         /\ w \in InHand(o) /\ w \notin InHand(o)' =>
              Cardinality(InHand(o)') <= Cardinality(InHand(o)) - 1
<1>1. \A y \in Worker : y # w => (y \in InHand(o)' <=> y \in InHand(o))
  BY DEF InHand
<1>2. InHand(o) \subseteq Worker /\ InHand(o)' \subseteq Worker
  BY DEF InHand
<1>3. IsFiniteSet(InHand(o))
  BY CountsAreNat
<1>. HIDE DEF InHand
<1>4. Cardinality(InHand(o)') <= Cardinality(InHand(o)) + 1
  <2>1. InHand(o)' \subseteq InHand(o) \cup {w}
    BY <1>1, <1>2
  <2>. QED  BY <2>1, <1>3, CountOneMore
<1>5. ASSUME w \in InHand(o)' => w \in InHand(o)
      PROVE  Cardinality(InHand(o)') <= Cardinality(InHand(o))
  <2>1. InHand(o)' \subseteq InHand(o)
    BY <1>1, <1>2, <1>5
  <2>. QED  BY <2>1, <1>3, CountWithin
<1>6. ASSUME w \in InHand(o), w \notin InHand(o)'
      PROVE  Cardinality(InHand(o)') <= Cardinality(InHand(o)) - 1
  <2>1. InHand(o)' \subseteq InHand(o) \ {w}
    BY <1>1, <1>2, <1>6
  <2>. QED  BY <2>1, <1>3, <1>6, CountOneLess
<1>. QED  BY <1>4, <1>5, <1>6

\* The queue hands an order out as before when neither its task nor its holder changed.
Held(o) == \E w \in Worker : work[w].order = o

LEMMA OffersSame ==
  ASSUME NEW n, NEW o, TaskAt(n, o)'.st = TaskAt(n, o).st, Held(o)' <=> Held(o)
  PROVE  Offers(n, o)' = Offers(n, o)
BY DEF Offers, Held, Settled

\* As long as no connection, node or process changes, only a write to the queue
\* the server uses changes the chances of an order.
LEMMA ChancesChange ==
  ASSUME Shapes, NEW o, UNCHANGED <<serving, readonly, view, proc>>
  PROVE  /\ \/ Chances(o)' = Chances(o)
            \/ /\ proc = "up" /\ Writes("server")
               /\ Chances(o)' - Chances(o)
                    = Offers(view["server"], o)' - Offers(view["server"], o)
         /\ proc = "up" /\ Writes("server") =>
              Chances(o)' - Chances(o) = Offers(view["server"], o)' - Offers(view["server"], o)
<1>. DEFINE s == view["server"]
<1>1. serving \notin readonly /\ s \in Node /\ (readonly # {} => readonly = {Other(serving)})
      /\ \A n \in Node : n = serving \/ n = Other(serving)
  BY Actors
<1>2. CASE proc # "up"
  BY <1>2 DEF Chances
<1>3. CASE proc = "up" /\ ~Writes("server")
  <2>1. s # serving /\ readonly # {}
    BY <1>1, <1>3 DEF Writes
  <2>. QED  BY <2>1, <1>3 DEF Chances
<1>4. CASE proc = "up" /\ Writes("server")
  <2>1. s = serving \/ readonly = {}
    BY <1>1, <1>4 DEF Writes
  <2>2. CASE s = serving
    <3>1. Chances(o) = Offers(s, o)
      BY <2>2, <1>4 DEF Chances
    <3>2. Chances(o)' = Offers(s, o)'
      BY <2>2, <1>4 DEF Chances
    <3>. QED  BY <3>1, <3>2, <1>4
  <2>3. CASE s # serving
    <3>1. Chances(o) = 1 + Offers(s, o)
      BY <2>1, <2>3, <1>4 DEF Chances
    <3>2. Chances(o)' = 1 + Offers(s, o)'
      BY <2>1, <2>3, <1>4 DEF Chances
    <3>3. Offers(s, o) \in 0..1 /\ Offers(s, o)' \in 0..1
      BY DEF Offers
    <3>. QED  BY <3>1, <3>2, <3>3, <1>4
  <2>. QED  BY <2>2, <2>3
<1>. QED  BY <1>2, <1>3, <1>4

LEMMA ChancesSame ==
  ASSUME Shapes, NEW o, UNCHANGED <<serving, readonly, view, proc>>,
         TaskAt(view["server"], o)'.st = TaskAt(view["server"], o).st, Held(o)' <=> Held(o)
  PROVE  Chances(o)' = Chances(o)
<1>1. Offers(view["server"], o)' = Offers(view["server"], o)
  BY OffersSame DEF TaskAt, Offers, Held, Settled
<1>2. Offers(view["server"], o) \in 0..1 /\ Chances(o) \in 0..2 /\ Chances(o)' \in 0..2
  BY ChancesBound DEF Chances, Offers
<1>. QED  BY <1>1, <1>2, ChancesChange

-------------------------------------------------------------------------------
(* Troubles pay for every time an order may yet be applied. *)

Hand(o) == Cardinality(InHand(o))
Way(o)  == Cardinality(Underway(o))

\* The counts are numbers, before and after the step.
LEMMA Counts ==
  ASSUME Shapes, Shapes', NEW n \in Node, NEW p \in Order
  PROVE  /\ TaskAt(n, p).applied \in Nat /\ Hand(p) \in Nat /\ Way(p) \in Nat
         /\ Chances(p) \in 0..2 /\ troubles \in Nat
         /\ TaskAt(n, p)'.applied \in Nat /\ Hand(p)' \in Nat /\ Way(p)' \in Nat
         /\ Chances(p)' \in 0..2 /\ troubles' \in Nat
<1>1. TaskAt(n, p) \in TaskSet /\ TaskAt(n, p)' \in TaskSet
  BY DEF Shapes, TaskAt
<1>2. Chances(p)' \in 0..2
  BY DEF Chances, Offers
<1>. QED  BY <1>1, <1>2, TaskFields, CountsAreNat, CountsAreNatNext, ChancesBound
          DEF Shapes, Hand, Way, TaskSet

LEMMA HandSame ==
  ASSUME NEW o, work' = work PROVE Hand(o)' = Hand(o) /\ (Held(o)' <=> Held(o))
BY DEF Hand, InHand, Held

LEMMA WaySame ==
  ASSUME NEW o, flight' = flight PROVE Way(o)' = Way(o)
BY DEF Way, Underway

LEMMA WayCount ==
  ASSUME NEW o, NEW q, NEW n \in Node, flight' \subseteq flight \cup {<<q, n>>}
  PROVE  /\ Way(o)' <= Way(o) + 1
         /\ o # q => Way(o)' <= Way(o)
<1>1. Underway(o)' \subseteq Underway(o) \cup {n} /\ (o # q => Underway(o)' \subseteq Underway(o))
  BY DEF Underway
<1>. QED  BY <1>1, CountsAreNat, CountOneMore, CountWithin DEF Way

\* The total of an order on a node, and what the step may add to it.
Total(n, o) == TaskAt(n, o).applied + Hand(o) + Way(o) + Chances(o)

LEMMA PaysOnEnqueue ==
  ASSUME Shapes, Shapes', NewOnesAreNew, NEW n \in Node, NEW p \in Order, NEW o \in Order,
         Enqueue(o), Total(n, p) <= 1 + troubles
  PROVE  Total(n, p)' <= 1 + troubles'
<1>. USE DEF nodes, book, Trouble, NoTrouble
<1>1. work' = work /\ flight' = flight /\ UNCHANGED <<serving, readonly, view, proc>>
      /\ troubles' \in {troubles, troubles + 1} /\ o \notin asked
  BY DEF Enqueue
<1>2. \/ ds' = ds
      \/ ds' = Put("writer", o, [TaskAt(view["writer"], o) EXCEPT !.st = "pending"])
  BY DEF Enqueue
<1>3. Hand(p)' = Hand(p) /\ Way(p)' = Way(p) /\ (Held(p)' <=> Held(p))
  BY <1>1, HandSame, WaySame
<1>4. \A m \in Node, q \in Order :
        /\ TaskAt(m, q)'.applied = TaskAt(m, q).applied
        /\ q # o => TaskAt(m, q)'.st = TaskAt(m, q).st
  BY <1>2, StatusWritten, Actors DEF TaskAt
<1>5. Chances(p)' <= Chances(p)
  <2>1. view["server"] \in Node
    BY Actors
  <2>2. CASE p # o
    <3>1. TaskAt(view["server"], p)'.st = TaskAt(view["server"], p).st
      BY <1>1, <1>4, <2>1, <2>2 DEF TaskAt
    <3>. QED  BY <3>1, <1>1, <1>3, ChancesSame, Counts
  <2>3. CASE p = o
    <3>1. TaskAt(view["server"], p).st = "none"
      BY <1>1, <2>1, <2>3 DEF NewOnesAreNew
    <3>2. Offers(view["server"], p) = 1
      BY <3>1 DEF Offers, Settled
    <3>3. Offers(view["server"], p)' \in 0..1
      BY DEF Offers
    <3>. QED  BY <3>2, <3>3, <1>1, ChancesChange, Counts
  <2>. QED  BY <2>2, <2>3
<1>. QED  BY <1>1, <1>3, <1>4, <1>5, Counts DEF Total

LEMMA PaysOnLand ==
  ASSUME Shapes, Shapes', NEW n \in Node, NEW p \in Order, NEW o \in Order, NEW m \in Node,
         Land(o, m), Total(n, p) <= 1 + troubles
  PROVE  Total(n, p)' <= 1 + troubles'
<1>. USE DEF nodes, book, Trouble, NoTrouble
<1>1. work' = work /\ UNCHANGED <<serving, readonly, view, proc>> /\ troubles' = troubles
      /\ <<o, m>> \in flight /\ flight' = flight \ {<<o, m>>}
      /\ (ds' = ds \/ ds' = Applied(m, o))
  BY DEF Land
<1>2. Hand(p)' = Hand(p) /\ (Held(p)' <=> Held(p))
  BY <1>1, HandSame
<1>3. \A k \in Node, q \in Order :
        /\ TaskAt(k, q)'.st = TaskAt(k, q).st
        /\ TaskAt(k, q)'.applied <= TaskAt(k, q).applied + 1
        /\ q # o => TaskAt(k, q)'.applied <= TaskAt(k, q).applied
  BY <1>1, ApplyWritten, Actors DEF TaskAt
<1>4. Chances(p)' = Chances(p)
  <2>1. TaskAt(view["server"], p)'.st = TaskAt(view["server"], p).st
    BY <1>1, <1>3, Actors DEF TaskAt
  <2>. QED  BY <2>1, <1>1, <1>2, ChancesSame
<1>5. CASE p = o
  <2>1. m \in Underway(p) /\ Underway(p)' \subseteq Underway(p) \ {m}
    BY <1>1, <1>5 DEF Underway
  <2>2. Way(p)' <= Way(p) - 1
    BY <2>1, CountsAreNat, CountOneLess DEF Way
  <2>. QED  BY <2>2, <1>1, <1>2, <1>3, <1>4, Counts DEF Total
<1>6. CASE p # o
  <2>1. Way(p)' <= Way(p)
    BY <1>1, <1>6, WayCount
  <2>. QED  BY <2>1, <1>6, <1>1, <1>2, <1>3, <1>4, Counts DEF Total
<1>. QED  BY <1>5, <1>6

LEMMA PaysOnFetch ==
  ASSUME Shapes, Shapes', NEW n \in Node, NEW p \in Order, NEW w \in Worker, NEW o \in Order,
         Fetch(w, o), Total(n, p) <= 1 + troubles
  PROVE  Total(n, p)' <= 1 + troubles'
<1>. USE DEF nodes, book, Trouble, NoTrouble
<1>. DEFINE s == view["server"]
<1>1. /\ proc = "up" /\ Writes("server") /\ work[w].order = NoOrder
      /\ TaskAt(s, o).st = "pending" /\ flight' = flight
      /\ UNCHANGED <<serving, readonly, view, proc>>
      /\ ds' = Put("server", o, [TaskAt(s, o) EXCEPT !.st = "active"])
  BY DEF Fetch, Busy
<1>2. \/ /\ work' = [work EXCEPT ![w] = [Idle EXCEPT !.order = o, !.phase = "run"]]
         /\ troubles' = troubles
      \/ work' = work /\ troubles' = troubles + 1
  BY DEF Fetch
<1>3. s \in Node /\ \A m \in Node, q \in Order :
        /\ TaskAt(m, q)'.applied = TaskAt(m, q).applied
        /\ TaskAt(m, q)'.st = IF m = s /\ q = o THEN "active" ELSE TaskAt(m, q).st
  BY <1>1, StatusWritten, Actors
<1>4. Way(p)' = Way(p)
  BY <1>1, WaySame
<1>5. CASE p = o
  <2>1. Offers(s, o) = 1
    BY <1>1 DEF Offers, Settled
  <2>2. CASE work' = work /\ troubles' = troubles + 1
    <3>1. Hand(p)' = Hand(p)
      BY <2>2, HandSame
    <3>2. Offers(s, o)' \in 0..1
      BY DEF Offers
    <3>3. Chances(p)' <= Chances(p)
      BY <1>1, <1>5, <2>1, <3>2, ChancesChange, Counts
    <3>. QED  BY <2>2, <3>1, <3>3, <1>3, <1>4, Counts DEF Total
  <2>3. CASE /\ work' = [work EXCEPT ![w] = [Idle EXCEPT !.order = o, !.phase = "run"]]
             /\ troubles' = troubles
    <3>1. work'[w].order = o /\ \A y \in Worker : y # w => work'[y] = work[y]
      BY <2>3, HandStarted
    <3>2. Hand(p)' <= Hand(p) + 1
      BY <3>1, HandsCount DEF Hand
    <3>3. Offers(s, o)' = 0
      <4>1. TaskAt(s, o)'.st = "active"
        BY <1>1, <1>3 DEF TaskAt
      <4>. QED  BY <3>1, <4>1 DEF Offers
    <3>4. Chances(p)' <= Chances(p) - 1
      BY <1>1, <1>5, <2>1, <3>3, ChancesChange, Counts
    <3>. QED  BY <2>3, <3>2, <3>4, <1>3, <1>4, Counts DEF Total
  <2>. QED  BY <2>2, <2>3, <1>2
<1>6. CASE p # o
  <2>1. Hand(p)' <= Hand(p) /\ (Held(p)' <=> Held(p))
    <3>1. CASE work' = work
      BY <3>1, HandSame, Counts
    <3>2. CASE work' = [work EXCEPT ![w] = [Idle EXCEPT !.order = o, !.phase = "run"]]
      <4>1. work'[w].order = o /\ \A y \in Worker : y # w => work'[y] = work[y]
        BY <3>2, HandStarted
      <4>2. w \notin InHand(p)'
        BY <4>1, <1>6 DEF InHand
      <4>3. p # NoOrder
        BY QueueAssumption
      <4>. QED  BY <4>1, <4>2, <4>3, <1>1, <1>6, HandsCount DEF Hand, Held
    <3>. QED  BY <3>1, <3>2, <1>2
  <2>2. TaskAt(s, p)'.st = TaskAt(s, p).st
    BY <1>1, <1>3, <1>6 DEF TaskAt
  <2>3. Chances(p)' = Chances(p)
    BY <2>1, <2>2, <1>1, ChancesSame
  <2>. QED  BY <2>1, <2>3, <1>2, <1>3, <1>4, Counts DEF Total
<1>. QED  BY <1>5, <1>6

LEMMA PaysOnHandleOrder ==
  ASSUME Shapes, Shapes', NEW n \in Node, NEW p \in Order, NEW w \in Worker,
         handleOrder(w), Total(n, p) <= 1 + troubles
  PROVE  Total(n, p)' <= 1 + troubles'
<1>. USE DEF nodes, book, Trouble, NoTrouble
<1>. DEFINE o == work[w].order
            m == view["store"]
<1>1. /\ work[w].phase = "run" /\ flight' = flight
      /\ UNCHANGED <<serving, readonly, view, proc>>
  BY DEF handleOrder
<1>2. \/ /\ ds' = Applied(m, o) /\ troubles' = troubles
         /\ work' = [work EXCEPT ![w].phase = "done", ![w].at = m]
      \/ /\ ds' = Applied(m, o) /\ troubles' = troubles + 1
         /\ work' = work \/ work' = Phase(w, "failed")
      \/ /\ ds' = ds /\ troubles' \in {troubles, troubles + 1}
         /\ work' = Phase(w, "failed")
  BY DEF handleOrder
<1>3. o \in Order /\ m \in Node
  BY <1>1, Actors
<1>4. \A k \in Node, q \in Order :
        /\ TaskAt(k, q)'.st = TaskAt(k, q).st
        /\ TaskAt(k, q)'.applied <= TaskAt(k, q).applied + 1
        /\ q # o \/ ds' = ds => TaskAt(k, q)'.applied <= TaskAt(k, q).applied
  BY <1>2, <1>3, ApplyWritten, Actors DEF TaskAt
<1>5. /\ \A y \in Worker : y # w => work'[y] = work[y]
      /\ work'[w].order = o
      /\ \/ work'[w] = work[w]
         \/ work'[w].phase = "failed"
         \/ work'[w].phase = "done" /\ troubles' = troubles
  <2>1. CASE work' = work
    BY <2>1
  <2>2. CASE work' = Phase(w, "failed")
    BY <2>2, HandFailed
  <2>3. CASE work' = [work EXCEPT ![w].phase = "done", ![w].at = m] /\ troubles' = troubles
    BY <2>3, <1>3, HandFinished, Zenon
  <2>. QED  BY <2>1, <2>2, <2>3, <1>2
<1>6. Held(p)' <=> Held(p)
  BY <1>5 DEF Held
<1>7. Chances(p)' = Chances(p) /\ Way(p)' = Way(p)
  <2>1. TaskAt(view["server"], p)'.st = TaskAt(view["server"], p).st
    BY <1>1, <1>4, Actors DEF TaskAt
  <2>. QED  BY <2>1, <1>1, <1>6, ChancesSame, WaySame
<1>8. Hand(p)' <= Hand(p)
  <2>1. w \in InHand(p)' => w \in InHand(p)
    BY <1>1, <1>5 DEF InHand
  <2>. QED  BY <2>1, <1>5, HandsCount DEF Hand
<1>9. CASE p # o \/ ds' = ds
  BY <1>9, <1>2, <1>4, <1>7, <1>8, Counts DEF Total
<1>10. CASE troubles' = troubles + 1
  BY <1>10, <1>4, <1>7, <1>8, Counts DEF Total
<1>11. CASE /\ p = o /\ troubles' = troubles
            /\ work' = [work EXCEPT ![w].phase = "done", ![w].at = m]
  <2>1. w \in InHand(p)
    BY <1>1, <1>11 DEF InHand
  <2>2. work'[w].phase = "done"
    BY <1>11, <1>3, HandFinished, Zenon
  <2>3. w \notin InHand(p)'
    BY <2>2 DEF InHand
  <2>4. Hand(p)' <= Hand(p) - 1
    BY <2>1, <2>3, <1>5, HandsCount DEF Hand
  <2>. QED  BY <2>4, <1>11, <1>4, <1>7, Counts DEF Total
<1>. QED  BY <1>2, <1>9, <1>10, <1>11

LEMMA PaysOnTimeout ==
  ASSUME Shapes, Shapes', NEW n \in Node, NEW p \in Order, NEW w \in Worker,
         Timeout(w), Total(n, p) <= 1 + troubles
  PROVE  Total(n, p)' <= 1 + troubles'
<1>. USE DEF nodes, book, Trouble, NoTrouble
<1>. DEFINE o == work[w].order
            m == view["store"]
<1>1. /\ work[w].phase = "run" /\ work' = Phase(w, "failed") /\ ds' = ds
      /\ UNCHANGED <<serving, readonly, view, proc>> /\ troubles' = troubles + 1
      /\ flight' \subseteq flight \cup {<<o, m>>}
  BY DEF Timeout
<1>2. /\ work'[w].phase = "failed" /\ work'[w].order = o
      /\ \A y \in Worker : y # w => work'[y] = work[y]
  BY <1>1, HandFailed
<1>3. Held(p)' <=> Held(p)
  BY <1>2 DEF Held
<1>4. Chances(p)' = Chances(p) /\ TaskAt(n, p)'.applied = TaskAt(n, p).applied
  BY <1>1, <1>3, ChancesSame DEF TaskAt
<1>5. Hand(p)' <= Hand(p)
  <2>1. w \in InHand(p)' => w \in InHand(p)
    BY <1>1, <1>2 DEF InHand
  <2>. QED  BY <2>1, <1>2, HandsCount DEF Hand
<1>6. Way(p)' <= Way(p) + 1
  BY <1>1, WayCount, Actors
<1>. QED  BY <1>1, <1>4, <1>5, <1>6, Counts DEF Total

LEMMA PaysOnComplete ==
  ASSUME Shapes, Shapes', NEW n \in Node, NEW p \in Order, NEW w \in Worker,
         Complete(w), Total(n, p) <= 1 + troubles
  PROVE  Total(n, p)' <= 1 + troubles'
<1>. USE DEF nodes, book, Trouble, NoTrouble
<1>. DEFINE o == work[w].order
            s == view["server"]
<1>1. /\ work[w].phase = "done" /\ work' = Release(w) /\ flight' = flight
      /\ UNCHANGED <<serving, readonly, view, proc>>
      /\ \/ /\ troubles' = troubles
            /\ \/ /\ TaskAt(s, o).st = "active"
                  /\ ds' = Put("server", o, [TaskAt(s, o) EXCEPT !.st = "completed"])
               \/ TaskAt(s, o).st # "active" /\ ds' = ds
         \/ troubles' = troubles + 1 /\ ds' = ds
  BY DEF Complete
<1>2. o \in Order /\ s \in Node
  BY <1>1, Actors
<1>3. \A k \in Node, q \in Order :
        /\ TaskAt(k, q)'.applied = TaskAt(k, q).applied
        /\ q # o \/ ds' = ds => TaskAt(k, q)'.st = TaskAt(k, q).st
        /\ /\ k = s /\ q = o
           /\ ds' = Put("server", o, [TaskAt(s, o) EXCEPT !.st = "completed"])
           => TaskAt(k, q)'.st = "completed"
  <2>1. ds' = ds => \A k \in Node, q \in Order : TaskAt(k, q)' = TaskAt(k, q)
    BY DEF TaskAt
  <2>2. CASE ds' = Put("server", o, [TaskAt(s, o) EXCEPT !.st = "completed"])
    <3>1. \A k \in Node, q \in Order :
            /\ TaskAt(k, q)'.applied = TaskAt(k, q).applied
            /\ TaskAt(k, q)'.st = IF k = s /\ q = o THEN "completed" ELSE TaskAt(k, q).st
      BY <2>2, <1>2, StatusWritten, Actors
    <3>. QED  BY <3>1, <2>1
  <2>3. ds' = ds \/ ds' = Put("server", o, [TaskAt(s, o) EXCEPT !.st = "completed"])
    BY <1>1
  <2>4. CASE ds' # Put("server", o, [TaskAt(s, o) EXCEPT !.st = "completed"])
    BY <2>1, <2>3, <2>4
  <2>. QED  BY <2>2, <2>4
<1>4. /\ work'[w].phase = "idle" /\ work'[w].order = NoOrder
      /\ \A y \in Worker : y # w => work'[y] = work[y]
  BY <1>1, HandReleased
<1>5. Hand(p)' <= Hand(p) /\ Way(p)' = Way(p)
  <2>1. w \in InHand(p)' => w \in InHand(p)
    BY <1>4 DEF InHand
  <2>. QED  BY <2>1, <1>1, <1>4, HandsCount, WaySame DEF Hand
<1>6. Offers(s, p) \in 0..1 /\ Offers(s, p)' \in 0..1
  BY DEF Offers
<1>7. CASE p # o
  <2>1. p # NoOrder
    BY QueueAssumption
  <2>2. Held(p)' <=> Held(p)
    BY <1>4, <1>7, <2>1 DEF Held
  <2>3. Chances(p)' = Chances(p)
    <3>1. TaskAt(s, p)'.st = TaskAt(s, p).st
      BY <1>1, <1>2, <1>3, <1>7 DEF TaskAt
    <3>. QED  BY <3>1, <2>2, <1>1, ChancesSame
  <2>. QED  BY <2>3, <1>1, <1>3, <1>5, Counts DEF Total
<1>8. CASE troubles' = troubles + 1
  <2>1. Chances(p)' <= Chances(p) + 1
    BY <1>1, <1>6, ChancesChange, Counts
  <2>. QED  BY <2>1, <1>8, <1>3, <1>5, Counts DEF Total
<1>9. CASE p = o /\ troubles' = troubles
  <2>1. Offers(s, p)' <= Offers(s, p)
    <3>0. view' = view
      BY <1>1
    <3>1. CASE ds' = Put("server", o, [TaskAt(s, o) EXCEPT !.st = "completed"])
      <4>1. TaskAt(s, p)'.st = "completed"
        BY <1>2, <1>3, <3>0, <3>1, <1>9 DEF TaskAt
      <4>2. Offers(s, p)' = 0
        BY <4>1 DEF Offers, Settled
      <4>3. 0 <= Offers(s, p)
        BY <1>6
      <4>. QED  BY <4>2, <4>3, SMTT(30)
    <3>2. CASE ds' = ds /\ TaskAt(s, o).st # "active"
      <4>1. TaskAt(s, p)'.st = TaskAt(s, p).st /\ TaskAt(s, p).st # "active"
        BY <1>1, <3>2, <1>9 DEF TaskAt
      <4>2. Offers(s, p)' = Offers(s, p)
        BY <4>1 DEF Offers, Settled, TaskAt
      <4>. QED  BY <4>2, <1>6
    <3>3. troubles' # troubles + 1
      BY <1>9, Actors
    <3>. QED  BY <3>1, <3>2, <3>3, <1>1, Zenon
  <2>2. Chances(p)' <= Chances(p)
    BY <1>1, <2>1, <1>6, ChancesChange, Counts
  <2>. QED  BY <2>2, <1>9, <1>3, <1>5, Counts DEF Total
<1>. QED  BY <1>1, <1>7, <1>8, <1>9

\* A worker gives its order up: one hand less, at most one offer or script more.
LEMMA PaysOnGivingUp ==
  ASSUME Shapes, Shapes', NEW n \in Node, NEW p \in Order, NEW w \in Worker,
         Retry(w) \/ Requeue(w), Total(n, p) <= 1 + troubles
  PROVE  Total(n, p)' <= 1 + troubles'
<1>. USE DEF nodes, book, Trouble, NoTrouble
<1>. DEFINE o == work[w].order
            s == view["server"]
<1>1. /\ work[w].phase \in {"run", "failed"} /\ work' = Release(w)
      /\ UNCHANGED <<serving, readonly, view, proc>> /\ troubles' \in {troubles, troubles + 1}
      /\ \/ ds' = ds
         \/ ds' = Put("server", o, Again(TaskAt(s, o)))
         \/ ds' = Put("server", o, [TaskAt(s, o) EXCEPT !.st = "pending"])
      /\ \/ flight' = flight
         \/ proc = "stopping" /\ flight' \subseteq flight \cup {<<o, view["store"]>>}
  BY DEF Retry, Requeue
<1>2. o \in Order /\ s \in Node /\ view["store"] \in Node
  BY <1>1, Actors
<1>3. \A k \in Node, q \in Order :
        /\ TaskAt(k, q)'.applied = TaskAt(k, q).applied
        /\ q # o => TaskAt(k, q)'.st = TaskAt(k, q).st
  <2>1. CASE ds' = ds
    BY <2>1 DEF TaskAt
  <2>2. CASE ds' = Put("server", o, [TaskAt(s, o) EXCEPT !.st = "pending"])
    BY <2>2, <1>2, StatusWritten, Actors
  <2>3. CASE ds' = Put("server", o, Again(TaskAt(s, o)))
    BY <2>3, <1>2, AgainWritten, Actors
  <2>. QED  BY <2>1, <2>2, <2>3, <1>1
<1>4. /\ work'[w].phase = "idle" /\ work'[w].order = NoOrder
      /\ \A y \in Worker : y # w => work'[y] = work[y]
  BY <1>1, HandReleased
<1>5. CASE p # o
  <2>1. p # NoOrder
    BY QueueAssumption
  <2>2. Held(p)' <=> Held(p)
    BY <1>4, <1>5, <2>1 DEF Held
  <2>3. Chances(p)' = Chances(p)
    <3>1. TaskAt(s, p)'.st = TaskAt(s, p).st
      BY <1>1, <1>2, <1>3, <1>5 DEF TaskAt
    <3>. QED  BY <3>1, <2>2, <1>1, ChancesSame
  <2>4. Hand(p)' <= Hand(p)
    <3>1. w \notin InHand(p)'
      BY <1>4 DEF InHand
    <3>. QED  BY <3>1, <1>4, HandsCount DEF Hand
  <2>5. Way(p)' <= Way(p)
    BY <1>1, <1>2, <1>5, WayCount, WaySame, Counts
  <2>. QED  BY <2>3, <2>4, <2>5, <1>1, <1>3, Counts DEF Total
<1>6. CASE p = o
  <2>1. w \in InHand(p) /\ w \notin InHand(p)'
    BY <1>1, <1>4, <1>6 DEF InHand
  <2>2. Hand(p)' <= Hand(p) - 1
    BY <2>1, <1>4, HandsCount DEF Hand
  <2>3. CASE flight' = flight
    <3>1. Offers(s, p) \in 0..1 /\ Offers(s, p)' \in 0..1
      BY DEF Offers
    <3>2. Chances(p)' <= Chances(p) + 1
      BY <1>1, <3>1, ChancesChange, Counts
    <3>. QED  BY <3>2, <2>2, <2>3, <1>1, <1>3, WaySame, Counts DEF Total
  <2>4. CASE proc = "stopping" /\ flight' \subseteq flight \cup {<<o, view["store"]>>}
    <3>1. Chances(p) = 1 /\ Chances(p)' = 1
      BY <1>1, <2>4 DEF Chances
    <3>2. Way(p)' <= Way(p) + 1
      BY <2>4, <1>2, WayCount
    <3>. QED  BY <3>1, <3>2, <2>2, <1>1, <1>3, Counts DEF Total
  <2>. QED  BY <2>3, <2>4, <1>1
<1>. QED  BY <1>5, <1>6

LEMMA PaysOnForward ==
  ASSUME Shapes, Shapes', NEW n \in Node, NEW p \in Order, NEW o \in Order,
         Forward(o) \/ Recover(o), Total(n, p) <= 1 + troubles
  PROVE  Total(n, p)' <= 1 + troubles'
<1>. USE DEF nodes, book, Trouble, NoTrouble
<1>. DEFINE s == view["server"]
<1>1. /\ work' = work /\ flight' = flight /\ troubles' = troubles
      /\ UNCHANGED <<serving, readonly, view, proc>>
      /\ \/ ds' = Put("server", o, Again(TaskAt(s, o)))
         \/ ds' = Put("server", o, [TaskAt(s, o) EXCEPT !.st = "pending"])
      /\ TaskAt(s, o).st = "retry" \/ (TaskAt(s, o).st = "active" /\ ~Held(o))
  BY DEF Forward, Recover, Held
<1>2. s \in Node /\ \A k \in Node, q \in Order :
        /\ TaskAt(k, q)'.applied = TaskAt(k, q).applied
        /\ q # o => TaskAt(k, q)'.st = TaskAt(k, q).st
  BY <1>1, StatusWritten, AgainWritten, Actors
<1>3. Hand(p)' = Hand(p) /\ Way(p)' = Way(p) /\ (Held(p)' <=> Held(p))
  BY <1>1, HandSame, WaySame
<1>4. Chances(p)' <= Chances(p)
  <2>1. CASE p # o
    <3>1. TaskAt(s, p)'.st = TaskAt(s, p).st
      BY <1>1, <1>2, <2>1 DEF TaskAt
    <3>. QED  BY <3>1, <1>1, <1>3, ChancesSame, Counts
  <2>2. CASE p = o
    <3>1. Offers(s, p) = 1 /\ Offers(s, p)' \in 0..1
      BY <1>1, <2>2 DEF Offers, Held, Settled
    <3>. QED  BY <3>1, <1>1, ChancesChange, Counts
  <2>. QED  BY <2>1, <2>2
<1>. QED  BY <1>1, <1>2, <1>3, <1>4, Counts DEF Total

\* The process stops and comes back.
LEMMA PaysOnStopping ==
  ASSUME Shapes, Shapes', NEW n \in Node, NEW p \in Order,
         Shutdown \/ Exit \/ Restart, Total(n, p) <= 1 + troubles
  PROVE  Total(n, p)' <= 1 + troubles'
<1>. USE DEF nodes, book, Trouble, NoTrouble
<1>1. TaskAt(n, p)'.applied = TaskAt(n, p).applied
  BY DEF Shutdown, Exit, Restart, TaskAt
<1>2. CASE Shutdown
  <2>1. /\ work' = work /\ flight' = flight /\ troubles' = troubles + 1
        /\ Chances(p)' = 1
    BY <1>2 DEF Shutdown, Chances
  <2>2. Hand(p)' = Hand(p) /\ Way(p)' = Way(p)
    BY <2>1, HandSame, WaySame
  <2>. QED  BY <1>1, <2>1, <2>2, Counts DEF Total
<1>3. CASE Restart
  <2>1. work' = work /\ flight' = flight /\ troubles' = troubles /\ Chances(p) = 1
    BY <1>3 DEF Restart, Chances
  <2>2. Chances(p)' <= 1
    <3>1. view'["server"] = serving' /\ proc' = "up"
      BY <1>3, Actors DEF Restart
    <3>2. Offers(serving, p)' \in 0..1
      BY DEF Offers
    <3>. QED  BY <3>1, <3>2 DEF Chances
  <2>3. Hand(p)' = Hand(p) /\ Way(p)' = Way(p)
    BY <2>1, HandSame, WaySame
  <2>. QED  BY <1>1, <2>1, <2>2, <2>3, Counts DEF Total
<1>4. CASE Exit
  <2>1. Chances(p)' = 1 /\ ((troubles' = troubles /\ Chances(p) = 1) \/ troubles' = troubles + 1)
    BY <1>4 DEF Exit, Chances
  <2>2. Hand(p)' = 0
    <3>1. \A w \in Worker : work'[w].phase = "idle"
      BY <1>4 DEF Exit, Idle
    <3>2. InHand(p)' = {}
      BY <3>1 DEF InHand
    <3>. QED  BY <3>2, FS_EmptySet DEF Hand
  <2>3. PICK S \in SUBSET {<<work[w].order, view["store"]>> :
                            w \in {x \in Worker : work[x].phase = "run"}} :
          flight' = flight \cup S
    BY <1>4 DEF Exit
  <2>4. Way(p)' <= Way(p) + Hand(p)
    <3>1. CASE \E w \in Worker : work[w].phase = "run" /\ work[w].order = p
      <4>1. Underway(p)' \subseteq Underway(p) \cup {view["store"]}
        BY <2>3 DEF Underway
      <4>2. Way(p)' <= Way(p) + 1
        BY <4>1, CountsAreNat, CountOneMore DEF Way
      <4>3. InHand(p) # {}
        BY <3>1 DEF InHand
      <4>4. Hand(p) # 0
        BY <4>3, CountsAreNat, FS_EmptySet DEF Hand
      <4>. QED  BY <4>2, <4>4, Counts
    <3>2. CASE ~\E w \in Worker : work[w].phase = "run" /\ work[w].order = p
      <4>1. Underway(p)' \subseteq Underway(p)
        BY <2>3, <3>2 DEF Underway
      <4>2. Way(p)' <= Way(p)
        BY <4>1, CountsAreNat, CountWithin DEF Way
      <4>. QED  BY <4>2, Counts
    <3>. QED  BY <3>1, <3>2
  <2>. QED  BY <1>1, <2>1, <2>2, <2>4, Counts DEF Total
<1>. QED  BY <1>2, <1>3, <1>4

\* The nodes and the connections to them change.
LEMMA PaysOnNodes ==
  ASSUME Shapes, Shapes', NEW n \in Node, NEW p \in Order,
         Replicate \/ Failover \/ Demote \/ \E c \in Connection : SwitchMaster(c),
         \A m \in Node : Total(m, p) <= 1 + troubles
  PROVE  Total(n, p)' <= 1 + troubles'
<1>. USE DEF nodes, book, Trouble, NoTrouble
<1>. DEFINE s == view["server"]
<1>0. /\ work' = work /\ flight' = flight /\ proc' = proc
      /\ Hand(p)' = Hand(p) /\ Way(p)' = Way(p) /\ (Held(p)' <=> Held(p))
  <2>1. work' = work /\ flight' = flight /\ proc' = proc
    BY DEF Replicate, Failover, Demote, SwitchMaster
  <2>. QED  BY <2>1, HandSame, WaySame
<1>1. s \in Node /\ serving \in Node /\ Other(serving) \in Node /\ Other(serving) # serving
      /\ \A m \in Node : m = serving \/ m = Other(serving)
  BY Actors
<1>2. \A m : Offers(m, p) \in 0..1
  BY ChancesBound
<1>3. CASE Replicate \/ Demote
  <2>1. /\ ds' = [ds EXCEPT ![Other(serving)] = ds[serving]]
        /\ serving' = serving /\ view' = view /\ readonly' = {Other(serving)}
        /\ troubles' = troubles
    BY <1>3, Actors DEF Replicate, Demote
  <2>2. \A m \in Node : TaskAt(m, p)' = TaskAt(serving, p)
    BY <2>1, CopyWritten
  <2>3. Offers(serving, p)' = Offers(serving, p)
    <3>1. TaskAt(serving, p)' = TaskAt(serving, p)
      BY <1>1, <2>1, <2>2 DEF TaskAt
    <3>. QED  BY <3>1, <1>0 DEF Offers, Held
  <2>4. Chances(p)' <= Chances(p)
    <3>1. CASE proc # "up"
      BY <3>1, <1>0 DEF Chances
    <3>2. CASE proc = "up" /\ s = serving
      BY <3>2, <1>0, <2>1, <2>3, Counts DEF Chances
    <3>3. CASE proc = "up" /\ s # serving
      <4>1. Chances(p)' = 1
        BY <3>3, <1>0, <2>1 DEF Chances
      <4>2. Chances(p) >= 1
        BY <3>3, <1>2 DEF Chances
      <4>. QED  BY <4>1, <4>2, Counts
    <3>. QED  BY <3>1, <3>2, <3>3
  <2>5. TaskAt(n, p)'.applied = TaskAt(serving, p).applied /\ Total(serving, p) <= 1 + troubles
    BY <1>1, <2>2
  <2>6. TaskAt(serving, p).applied \in Nat
    BY <1>1, Counts
  <2>. QED  BY <1>0, <2>1, <2>4, <2>5, <2>6, Counts DEF Total
<1>4. CASE Failover
  <2>1. /\ ds' = ds /\ view' = view /\ serving' = Other(serving) /\ readonly' = {} /\ readonly # {}
        /\ troubles' = troubles + 1
    BY <1>4 DEF Failover
  <2>2. Chances(p)' <= Chances(p) + 1
    <3>1. CASE proc # "up"
      BY <3>1, <1>0, Counts DEF Chances
    <3>2. CASE proc = "up" /\ s = serving
      <4>1. Offers(s, p)' = Offers(s, p)
        BY <1>0, <2>1 DEF Offers, Held, TaskAt
      <4>2. Chances(p)' = 1 + Offers(s, p)'
        BY <3>2, <1>0, <1>1, <2>1 DEF Chances
      <4>3. Chances(p) = Offers(s, p)
        BY <3>2 DEF Chances
      <4>. QED  BY <4>1, <4>2, <4>3, <1>2
    <3>3. CASE proc = "up" /\ s # serving
      <4>1. s = serving'
        BY <3>3, <1>1, <2>1
      <4>2. Offers(serving, p)' \in 0..1
        BY DEF Offers
      <4>3. Chances(p)' = Offers(serving, p)'
        BY <3>3, <4>1, <1>0, <2>1 DEF Chances
      <4>. QED  BY <4>2, <4>3, Counts
    <3>. QED  BY <3>1, <3>2, <3>3
  <2>3. TaskAt(n, p)'.applied = TaskAt(n, p).applied /\ Total(n, p) <= 1 + troubles
    BY <2>1 DEF TaskAt
  <2>. QED  BY <1>0, <2>1, <2>2, <2>3, Counts DEF Total
<1>5. ASSUME NEW c \in Connection, SwitchMaster(c) PROVE Total(n, p)' <= 1 + troubles'
  <2>1. /\ ds' = ds /\ serving' = serving /\ readonly' = readonly /\ troubles' = troubles
        /\ view' = [view EXCEPT ![c] = serving] /\ view[c] # serving
    BY <1>5 DEF SwitchMaster
  <2>2. Chances(p)' <= Chances(p)
    <3>1. CASE proc # "up"
      BY <3>1, <1>0 DEF Chances
    <3>2. CASE proc = "up" /\ c = "server"
      <4>1. view'["server"] = serving
        BY <2>1, <3>2 DEF Shapes
      <4>2. Chances(p)' = Offers(serving, p)' /\ Offers(serving, p)' \in 0..1
        BY <3>2, <4>1, <1>0, <2>1 DEF Chances, Offers
      <4>3. Chances(p) >= 1
        BY <3>2, <2>1, <1>2 DEF Chances
      <4>. QED  BY <4>2, <4>3, Counts
    <3>3. CASE proc = "up" /\ c # "server"
      <4>1. view'["server"] = view["server"]
        BY <2>1, <3>3, Actors DEF Shapes
      <4>2. Offers(serving, p)' = Offers(serving, p)
            /\ Offers(view["server"], p)' = Offers(view["server"], p)
        BY <1>0, <2>1, <4>1 DEF Offers, Held, TaskAt
      <4>. QED  BY <4>1, <4>2, <1>0, <2>1, Counts DEF Chances
    <3>. QED  BY <3>1, <3>2, <3>3
  <2>3. TaskAt(n, p)'.applied = TaskAt(n, p).applied /\ Total(n, p) <= 1 + troubles
    BY <2>1 DEF TaskAt
  <2>. QED  BY <1>0, <2>1, <2>2, <2>3, Counts DEF Total
<1>. QED  BY <1>3, <1>4, <1>5

LEMMA StepTroublePays ==
  ASSUME Shapes, Shapes', NewOnesAreNew, TroublePays, Next
  PROVE  TroublePays'
<1>. SUFFICES ASSUME NEW n \in Node, NEW p \in Order PROVE Total(n, p)' <= 1 + troubles'
  BY DEF TroublePays, Total, Hand, Way
<1>1. \A m \in Node : Total(m, p) <= 1 + troubles
  BY DEF TroublePays, Total, Hand, Way
<1>2. ASSUME NEW o \in Order, Enqueue(o) \/ \E m \in Node : Land(o, m)
      PROVE  Total(n, p)' <= 1 + troubles'
  BY <1>1, <1>2, PaysOnEnqueue, PaysOnLand
<1>3. ASSUME NEW w \in Worker, \/ Timeout(w) \/ handleOrder(w) \/ Complete(w) \/ Retry(w)
                               \/ Requeue(w) \/ \E o \in Order : Fetch(w, o)
      PROVE  Total(n, p)' <= 1 + troubles'
  BY <1>1, <1>3, PaysOnTimeout, PaysOnHandleOrder, PaysOnComplete, PaysOnGivingUp, PaysOnFetch
<1>4. ASSUME NEW o \in Order, Forward(o) \/ Recover(o) PROVE Total(n, p)' <= 1 + troubles'
  BY <1>1, <1>4, PaysOnForward
<1>5. CASE Shutdown \/ Exit \/ Restart
  BY <1>1, <1>5, PaysOnStopping
<1>6. CASE Replicate \/ Failover \/ Demote \/ \E c \in Connection : SwitchMaster(c)
  BY <1>1, <1>6, PaysOnNodes
<1>. QED  BY Actions, <1>2, <1>3, <1>4, <1>5, <1>6

-------------------------------------------------------------------------------
(* The theorems. *)

LEMMA Stutter ==
  ASSUME IInv, UNCHANGED vars
  PROVE  IInv'
<1>. USE DEF vars
<1>1. Shapes' /\ NewOnesAreNew' /\ DoneIsApplied' /\ CompletedIsApplied'
  BY DEF IInv, Shapes, NewOnesAreNew, DoneIsApplied, CompletedIsApplied, TaskAt
<1>2. \A n \in Node, o \in Order :
        /\ TaskAt(n, o)' = TaskAt(n, o) /\ InHand(o)' = InHand(o) /\ Underway(o)' = Underway(o)
        /\ Chances(o)' = Chances(o)
  BY DEF TaskAt, InHand, Underway, Chances, Offers
<1>3. TroublePays'
  BY <1>2 DEF IInv, TroublePays
<1>. QED  BY <1>1, <1>3 DEF IInv

LEMMA Inductive == Spec => []IInv
<1>1. Init => IInv
  BY InitHolds
<1>2. IInv /\ [Next]_vars => IInv'
  <2>1. ASSUME IInv, Next PROVE IInv'
    BY <2>1, StepShapes, StepNewOnesAreNew, StepDoneIsApplied, StepCompletedIsApplied,
       StepTroublePays DEF IInv
  <2>. QED  BY <2>1, Stutter
<1>. QED  BY <1>1, <1>2, PTL DEF Spec

\* What the queue says is completed is in the aggregates on every node, unless a
\* failover came between the apply and the acknowledgement (processor.go:89-104).
THEOREM CompletedApplied == Spec => []CompletedIsApplied
<1>1. IInv => CompletedIsApplied
  BY DEF IInv
<1>. QED  BY <1>1, Inductive, PTL

\* However many workers retry, time out and restart in whatever order, an order
\* is applied at most once, and once more for each trouble (processor.go:86-88).
THEOREM OncePerTrouble == Spec => []AppliedOncePerTrouble
<1>1. ASSUME IInv PROVE AppliedOncePerTrouble
  <2>. SUFFICES ASSUME NEW n \in Node, NEW o \in Order
                PROVE  TaskAt(n, o).applied <= 1 + troubles
    BY DEF AppliedOncePerTrouble
  <2>1. TaskAt(n, o).applied + Cardinality(InHand(o)) + Cardinality(Underway(o)) + Chances(o)
          <= 1 + troubles
    BY <1>1 DEF IInv, TroublePays
  <2>. QED  BY <1>1, <2>1, CountsAreNat, ChancesBound, Actors DEF IInv
<1>. QED  BY <1>1, Inductive, PTL

\* While the sentinels name the same master, no late acknowledgement, retry,
\* requeue or replication moves a task that is completed or archived.
THEOREM SettledTasksStay == Spec => SettledStays
<1>. DEFINE Stays == \A o \in Order : Settled(TaskAt(serving, o)) /\ serving' = serving =>
                       TaskAt(serving, o)'.st = TaskAt(serving, o).st
<1>1. IInv /\ Next => Stays
  <2>. SUFFICES ASSUME IInv, Next, NEW p \in Order, Settled(TaskAt(serving, p)), serving' = serving
                PROVE  TaskAt(serving, p)'.st = TaskAt(serving, p).st
    OBVIOUS
  <2>. DEFINE Same == TaskAt(serving, p)'.st = TaskAt(serving, p).st
  <2>. USE DEF nodes, book, Trouble, NoTrouble
  <2>0. Shapes /\ NewOnesAreNew /\ serving \in Node /\ TaskAt(serving, p).st \in {"completed", "archived"}
    BY Actors DEF IInv, Settled
  <2>1. ASSUME ds' = ds PROVE Same
    BY <2>1 DEF TaskAt
  <2>2. ASSUME NEW c \in Connection, NEW o \in Order, NEW x \in State,
               TaskAt(view[c], o).st \notin {"completed", "archived"},
               ds' = Put(c, o, [TaskAt(view[c], o) EXCEPT !.st = x])
        PROVE  Same
    <3>1. ds'[serving][p].st = TaskAt(serving, p).st
      BY <2>0, <2>2, StatusWritten DEF TaskAt
    <3>. QED  BY <3>1 DEF TaskAt
  <2>3. ASSUME NEW c \in Connection, NEW o \in Order,
               TaskAt(view[c], o).st \notin {"completed", "archived"},
               ds' = Put(c, o, Again(TaskAt(view[c], o)))
        PROVE  Same
    <3>1. ds'[serving][p].st = TaskAt(serving, p).st
      BY <2>0, <2>3, AgainWritten DEF TaskAt
    <3>. QED  BY <3>1 DEF TaskAt
  <2>4. ASSUME NEW m \in Node, NEW o \in Order, ds' = Applied(m, o) PROVE Same
    <3>1. ds'[serving][p].st = TaskAt(serving, p).st
      BY <2>0, <2>4, ApplyWritten DEF TaskAt
    <3>. QED  BY <3>1 DEF TaskAt
  <2>5. ASSUME ds' = [ds EXCEPT ![Other(serving)] = ds[serving]] PROVE Same
    <3>1. ds'[serving][p] = TaskAt(serving, p)
      BY <2>0, <2>5, CopyWritten DEF TaskAt
    <3>. QED  BY <3>1 DEF TaskAt
  <2>. HIDE DEF Same
  <2>6. ASSUME NEW o \in Order, Enqueue(o) PROVE Same
    <3>1. TaskAt(view["writer"], o).st = "none"
      BY <2>0, <2>6, Actors DEF Enqueue, NewOnesAreNew
    <3>. QED  BY <3>1, <2>0, <2>6, <2>1, <2>2, Actors DEF Enqueue
  <2>7. ASSUME NEW o \in Order, NEW m \in Node, Land(o, m) PROVE Same
    BY <2>7, <2>4, <2>1 DEF Land
  <2>8. ASSUME NEW w \in Worker, NEW o \in Order, Fetch(w, o) PROVE Same
    BY <2>0, <2>8, <2>2, Actors DEF Fetch
  <2>9. ASSUME NEW w \in Worker, handleOrder(w) PROVE Same
    <3>1. work[w].order \in Order /\ view["store"] \in Node
      BY <2>0, <2>9, Actors DEF handleOrder
    <3>2. ds' = ds \/ ds' = Applied(view["store"], work[w].order)
      BY <2>9 DEF handleOrder
    <3>. QED  BY <3>1, <3>2, <2>4, <2>1
  <2>10. ASSUME NEW w \in Worker, Complete(w) PROVE Same
    <3>1. work[w].order \in Order
      BY <2>0, <2>10, Actors DEF Complete
    <3>. QED  BY <3>1, <2>0, <2>10, <2>2, <2>1, Actors DEF Complete
  <2>11. ASSUME NEW w \in Worker, Retry(w) PROVE Same
    <3>1. work[w].order \in Order
      BY <2>0, <2>11, Actors DEF Retry
    <3>. QED  BY <3>1, <2>0, <2>11, <2>3, <2>1, Actors DEF Retry
  <2>12. ASSUME NEW w \in Worker, Requeue(w) PROVE Same
    <3>1. work[w].order \in Order
      BY <2>0, <2>12, Actors DEF Requeue
    <3>. QED  BY <3>1, <2>0, <2>12, <2>2, <2>1, Actors DEF Requeue
  <2>13. ASSUME NEW o \in Order, Forward(o) \/ Recover(o) PROVE Same
    BY <2>0, <2>13, <2>2, <2>3, Actors DEF Forward, Recover
  <2>14. ASSUME Replicate \/ Demote PROVE Same
    BY <2>14, <2>5 DEF Replicate, Demote
  <2>15. ASSUME \/ Shutdown \/ Exit \/ Restart \/ Failover
                \/ \E w \in Worker : Timeout(w)
                \/ \E c \in Connection : SwitchMaster(c)
         PROVE  Same
    BY <2>15, <2>1 DEF Shutdown, Exit, Restart, Failover, Timeout, SwitchMaster
  <2>16. Same
    BY Actions, <2>6, <2>7, <2>8, <2>9, <2>10, <2>11, <2>12, <2>13, <2>14, <2>15
  <2>. QED  BY <2>16 DEF Same
<1>2. IInv /\ [Next]_vars => [Stays]_vars
  BY <1>1
<1>. QED  BY <1>2, Inductive, PTL DEF Spec, SettledStays
===============================================================================
