------------------------------ MODULE OrderQueue ------------------------------
(***************************************************************************)
(* The order:process tasks of the workload, from the writer that enqueues  *)
(* them to the processor that applies them, across lost replies, timeouts, *)
(* restarts of the container and a sentinel failover.  The queue is asynq, *)
(* modelled from how the writer and the processor use it: it lives in the  *)
(* same dataset as the aggregates, but the writer, the asynq server and    *)
(* the store each have their own connection, which finds the new master in *)
(* its own time.                                                           *)
(***************************************************************************)
EXTENDS Integers, FiniteSets

CONSTANTS
  Order,
  Worker,       \* --concurrency
  Node,         \* the master and a replica
  Master,
  NoOrder,
  MaxRetry,     \* --task-max-retry
  MaxTroubles   \* bound on faults, failovers and restarts

ASSUME QueueAssumption ==
  /\ MaxRetry \in Nat /\ MaxTroubles \in Nat
  /\ NoOrder \notin Order
  /\ IsFiniteSet(Worker)
  /\ \E replica \in Node : replica # Master /\ Node = {Master, replica}

VARIABLES
  ds,        \* per node and order: the task and how often it was applied
  serving,   \* the node the sentinels call master
  readonly,  \* the nodes that refuse writes
  view,      \* the node each connection writes to
  proc,      \* the process: "up", "stopping" or "down"
  work,      \* what each worker does
  flight,    \* <<order, node>>: applies sent whose sender no longer waits
  asked,     \* orders the writer made
  sent,      \* orders whose enqueueing succeeded for the writer
  torn,      \* history: orders acknowledged elsewhere than applied, or not in time
  troubles

vars == <<ds, serving, readonly, view, proc, work, flight, asked, sent, torn, troubles>>

Connection == {"writer", "server", "store"}

Idle      == [order |-> NoOrder, phase |-> "idle", at |-> Master]
Busy(w)   == work[w].order # NoOrder
Writes(c) == view[c] \notin readonly
Other(n)  == CHOOSE m \in Node : m # n

TaskAt(n, o)    == ds[n][o]
Settled(t)      == t.st \in {"completed", "archived"}
Put(c, o, task) == [ds EXCEPT ![view[c]][o] = task]
Phase(w, ph)    == [work EXCEPT ![w].phase = ph]
Release(w)      == [work EXCEPT ![w] = Idle]

Trouble   == troubles < MaxTroubles /\ troubles' = troubles + 1
NoTrouble == UNCHANGED troubles

nodes == <<serving, readonly, view>>
book  == <<asked, sent, torn>>

-------------------------------------------------------------------------------
(* The writer. *)

\* emit: one attempt per order, each order with an id of its own; an error is
\* counted and the order forgotten, also when only the reply was lost.
Enqueue(o) ==
  /\ proc = "up"
  /\ o \notin asked
  /\ asked' = asked \cup {o}
  /\ \/ /\ Writes("writer")
        /\ ds' = Put("writer", o, [TaskAt(view["writer"], o) EXCEPT !.st = "pending"])
        /\ \/ sent' = sent \cup {o} /\ NoTrouble
           \/ UNCHANGED sent /\ Trouble
     \/ /\ Trouble \/ (~Writes("writer") /\ NoTrouble)
        /\ UNCHANGED <<ds, sent>>
  /\ UNCHANGED <<nodes, proc, work, flight, torn>>

-------------------------------------------------------------------------------
(* The processor: the asynq server and its handler. *)

\* A worker takes a task; when the reply is lost nobody works on it.
Fetch(w, o) ==
  /\ proc = "up"
  /\ ~Busy(w)
  /\ Writes("server")
  /\ TaskAt(view["server"], o).st = "pending"
  /\ ds' = Put("server", o, [TaskAt(view["server"], o) EXCEPT !.st = "active"])
  /\ \/ /\ work' = [work EXCEPT ![w] = [Idle EXCEPT !.order = o, !.phase = "run"]]
        /\ NoTrouble
     \/ UNCHANGED work /\ Trouble
  /\ UNCHANGED <<nodes, proc, flight, book>>

Applied(n, o) == [ds EXCEPT ![n][o].applied = @ + 1]

\* Mutant: a failed apply is logged and the task acknowledged.
handleOrderIgnoringErrors(w) ==
  /\ work[w].phase = "run"
  /\ \/ /\ Writes("store")
        /\ ds' = Applied(view["store"], work[w].order)
        /\ NoTrouble
     \/ /\ Trouble \/ (~Writes("store") /\ NoTrouble)
        /\ UNCHANGED ds
  /\ work' = [work EXCEPT ![w].phase = "done", ![w].at = view["store"]]
  /\ UNCHANGED <<nodes, proc, flight, book>>

\* Mutant: applied one time more when the metrics are updated.
handleOrderTwice(w) ==
  /\ work[w].phase = "run"
  /\ Writes("store")
  /\ ds' = [ds EXCEPT ![view["store"]][work[w].order].applied = @ + 2]
  /\ work' = [work EXCEPT ![w].phase = "done", ![w].at = view["store"]]
  /\ NoTrouble
  /\ UNCHANGED <<nodes, proc, flight, book>>

\* handleOrder: ApplyOrder is one atomic script.  An error of it is an error of the handler.
handleOrder(w) ==
  /\ work[w].phase = "run"
  /\ LET o == work[w].order
         n == view["store"]
     IN \/ /\ Writes("store")
           /\ ds' = Applied(n, o)
           /\ \/ work' = [work EXCEPT ![w].phase = "done", ![w].at = n] /\ NoTrouble
              \/ work' \in {work, Phase(w, "failed")} /\ Trouble  \* the reply is lost: the
                                                                  \* client sends it again or gives up
        \/ /\ Trouble \/ (~Writes("store") /\ NoTrouble)
           /\ work' = Phase(w, "failed")
           /\ UNCHANGED ds
  /\ UNCHANGED <<nodes, proc, flight, book>>

\* The task's timeout or lease ends the wait; the script may still run.
Timeout(w) ==
  /\ work[w].phase = "run"
  /\ Trouble
  /\ work' = Phase(w, "failed")
  /\ flight' \in {flight, flight \cup {<<work[w].order, view["store"]>>}}
  /\ UNCHANGED <<ds, nodes, proc, book>>

Land(o, n) ==
  /\ <<o, n>> \in flight
  /\ flight' = flight \ {<<o, n>>}
  /\ ds' = IF n \in readonly THEN ds ELSE Applied(n, o)
  /\ UNCHANGED <<nodes, proc, work, book>> /\ NoTrouble

\* The handler returned nil: an active task is completed, kept for its
\* retention.  The server tries again until the lease ends.
Complete(w) ==
  /\ work[w].phase = "done"
  /\ LET o == work[w].order
         t == TaskAt(view["server"], o)
     IN \/ /\ Writes("server") /\ NoTrouble
           /\ ds' = IF t.st = "active" THEN Put("server", o, [t EXCEPT !.st = "completed"]) ELSE ds
           /\ torn' = IF t.st = "active" /\ work[w].at # view["server"]
                      THEN torn \cup {o} ELSE torn
        \/ Trouble /\ UNCHANGED <<ds, torn>>
  /\ work' = Release(w)
  /\ UNCHANGED <<nodes, proc, flight, asked, sent>>

Again(t) == IF t.retried < MaxRetry THEN [t EXCEPT !.st = "retry", !.retried = @ + 1]
            ELSE [t EXCEPT !.st = "archived"]

\* Mutant: whatever became of the task.
RetryAnyway(w) ==
  /\ work[w].phase = "failed"
  /\ Writes("server") /\ NoTrouble
  /\ ds' = Put("server", work[w].order, Again(TaskAt(view["server"], work[w].order)))
  /\ work' = Release(w)
  /\ UNCHANGED <<nodes, proc, flight, book>>

\* The handler failed: an active task waits for its retry or is archived.
Retry(w) ==
  /\ work[w].phase = "failed"
  /\ LET o == work[w].order
         t == TaskAt(view["server"], o)
     IN \/ /\ Writes("server") /\ NoTrouble
           /\ ds' = IF t.st = "active" THEN Put("server", o, Again(t)) ELSE ds
        \/ Trouble /\ UNCHANGED ds
  /\ work' = Release(w)
  /\ UNCHANGED <<nodes, proc, flight, book>>

\* A retry falls due.
Forward(o) ==
  /\ proc = "up" /\ Writes("server")
  /\ TaskAt(view["server"], o).st = "retry"
  /\ ds' = Put("server", o, [TaskAt(view["server"], o) EXCEPT !.st = "pending"])
  /\ UNCHANGED <<nodes, proc, work, flight, book>> /\ NoTrouble

\* The lease of an active task ran out, as no worker extends it.
Recover(o) ==
  /\ proc = "up" /\ Writes("server")
  /\ TaskAt(view["server"], o).st = "active"
  /\ \A w \in Worker : work[w].order # o
  /\ ds' = Put("server", o, Again(TaskAt(view["server"], o)))
  /\ UNCHANGED <<nodes, proc, work, flight, book>> /\ NoTrouble

-------------------------------------------------------------------------------
(* The process and its container. *)

\* Processor.Run: the context ends and the server is shut down; what is still
\* running when its grace period ends goes back to the queue.
Shutdown ==
  /\ proc = "up"
  /\ Trouble
  /\ proc' = "stopping"
  /\ UNCHANGED <<ds, nodes, work, flight, book>>

Requeue(w) ==
  /\ proc = "stopping"
  /\ work[w].phase = "run"
  /\ LET o == work[w].order
         t == TaskAt(view["server"], o)
     IN /\ ds' = IF Writes("server") /\ t.st = "active"
                 THEN Put("server", o, [t EXCEPT !.st = "pending"]) ELSE ds
        /\ flight' \in {flight, flight \cup {<<o, view["store"]>>}}
  /\ work' = Release(w)
  /\ UNCHANGED <<nodes, proc, book>> /\ NoTrouble

\* The process ends, by itself or killed; a script already sent may still run.
\* It may end with handlers at work: see ClientProcess.
Exit ==
  /\ \/ proc = "stopping" /\ NoTrouble
     \/ proc = "up" /\ Trouble
  /\ proc' = "down"
  /\ \E S \in SUBSET {<<work[w].order, view["store"]>> : w \in {x \in Worker : work[x].phase = "run"}} :
       flight' = flight \cup S
  /\ work' = [w \in Worker |-> Idle]
  /\ UNCHANGED <<ds, nodes, book>>

\* Mutant: without a restart policy.
NoRestart == FALSE /\ UNCHANGED vars

\* The container is restarted unless it was stopped, and client workload start
\* replaces a stopped one; the new process asks the sentinels for the master.
Restart ==
  /\ proc = "down"
  /\ proc' = "up"
  /\ view' = [c \in Connection |-> serving]
  /\ UNCHANGED <<ds, serving, readonly, work, flight, book>> /\ NoTrouble

-------------------------------------------------------------------------------
(* Redis: asynchronous replication and one failover at a time. *)

Replicate ==
  /\ Other(serving) \in readonly
  /\ ds[Other(serving)] # ds[serving]
  /\ ds' = [ds EXCEPT ![Other(serving)] = ds[serving]]
  /\ UNCHANGED <<nodes, proc, work, flight, book>> /\ NoTrouble

\* The replica takes over with what it has; the old master still takes writes.
Failover ==
  /\ readonly # {}
  /\ Trouble
  /\ serving' = Other(serving)
  /\ readonly' = {}
  /\ UNCHANGED <<ds, view, proc, work, flight, book>>

\* The sentinels make the old master a replica: it drops what it had.
Demote ==
  /\ readonly = {}
  /\ readonly' = {Other(serving)}
  /\ ds' = [ds EXCEPT ![Other(serving)] = ds[serving]]
  /\ torn' = torn \cup {work[w].order : w \in {x \in Worker : work[x].phase = "done"
                                                          /\ work[x].at = Other(serving)}}
  /\ UNCHANGED <<serving, view, proc, work, flight, asked, sent>> /\ NoTrouble

SwitchMaster(c) ==
  /\ view[c] # serving
  /\ view' = [view EXCEPT ![c] = serving]
  /\ UNCHANGED <<ds, serving, readonly, proc, work, flight, book>> /\ NoTrouble

-------------------------------------------------------------------------------
Init ==
  /\ ds = [n \in Node |-> [o \in Order |-> [st |-> "none", retried |-> 0, applied |-> 0]]]
  /\ serving = Master
  /\ readonly = Node \ {Master}
  /\ view = [c \in Connection |-> Master]
  /\ proc = "up"
  /\ work = [w \in Worker |-> Idle]
  /\ flight = {} /\ asked = {} /\ sent = {} /\ torn = {}
  /\ troubles = 0

Serve ==
  \/ \E w \in Worker : \/ \E o \in Order : Fetch(w, o)
                       \/ handleOrder(w) \/ Complete(w) \/ Retry(w) \/ Requeue(w)
  \/ \E o \in Order : Forward(o) \/ Recover(o)

Next ==
  \/ \E o \in Order : Enqueue(o) \/ \E n \in Node : Land(o, n)
  \/ \E w \in Worker : Timeout(w)
  \/ Serve
  \/ Shutdown \/ Exit \/ Restart
  \/ Replicate \/ Failover \/ Demote
  \/ \E c \in Connection : SwitchMaster(c)

\* The server works on as long as the process is up, Docker restarts the
\* container, the sentinels finish a failover and each connection follows it.
Fairness ==
  /\ WF_vars(Serve) /\ WF_vars(Exit /\ proc = "stopping") /\ WF_vars(Restart)
  /\ WF_vars(Demote) /\ \A c \in Connection : WF_vars(SwitchMaster(c))

Spec == Init /\ [][Next]_vars /\ Fairness

-------------------------------------------------------------------------------
\* An order whose task is completed is in the aggregates, on every node, unless
\* the apply and the acknowledgement went to different nodes during a failover,
\* or the node dropped its data between them
\* (processor.go:89-104: the handler returns nil after the apply only).
CompletedIsApplied ==
  \A n \in Node, o \in Order :
    TaskAt(n, o).st = "completed" /\ TaskAt(n, o).applied = 0 => o \in torn

\* Each trouble makes an order count at most once more; without any it counts
\* at most once (processor.go:86-88; the store keeps no order ids).
AppliedOncePerTrouble ==
  \A n \in Node, o \in Order : TaskAt(n, o).applied <= 1 + troubles

\* A settled task stays as it is, whatever late workers report; only a failover
\* or a resynchronisation brings an earlier state back.
SettledStays ==
  [][\A o \in Order : Settled(TaskAt(serving, o)) /\ serving' = serving =>
       TaskAt(serving, o)'.st = TaskAt(serving, o).st]_vars

\* Every order the writer counts as enqueued is completed or archived in the
\* end, or a failover lost it (writer.go:182-190; docker/client.go:96).
EveryOrderSettles ==
  \A o \in Order : o \in sent ~>
    (Settled(TaskAt(serving, o)) \/ TaskAt(serving, o).st = "none")
===============================================================================
