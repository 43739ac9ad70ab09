----------------------------- MODULE ClientProcess -----------------------------
(***************************************************************************)
(* The russ-client process: writer, processor and api under one errgroup,  *)
(* or one of them alone, from the search for the master to the exit.  A    *)
(* signal reaches both the context of the parts and the asynq server.      *)
(***************************************************************************)
EXTENDS Integers, Sequences, FiniteSets

CONSTANTS
  Cluster,
  NoCluster,    \* no --cluster, and no master chosen
  MaxClients,   \* --max-clients
  Concurrency,  \* --concurrency
  MaxRequests   \* bound on API requests at a time

ASSUME ProcessAssumption ==
  /\ MaxClients \in Nat \ {0} /\ Concurrency \in Nat \ {0} /\ MaxRequests \in Nat
  /\ NoCluster \notin Cluster

VARIABLES
  mode,     \* the subcommand
  parts,    \* the parts it runs
  burst,    \* --burst
  main,     \* "resolving", "running" or "exited"
  master,   \* the cluster it chose
  result,   \* of the process: "none", "ok" or "error"
  sig,      \* SIGINT or SIGTERM was delivered
  failed,   \* parts that returned an error
  writer,   \* the coordinator: "select", "fill", "waiting" for the pool, "done"
  target,   \* the enqueuers it wants
  running,  \* the enqueuers that run
  proc,     \* Processor.Run: "select", "shutdown", "done" or "missed"
  runner,   \* the goroutine in asynq's Run: "start", "signal", "shutdown", "done"
  srv,      \* the asynq server: "new", "active" or "closed"
  held,     \* tasks in the hands of workers
  api,      \* "start", "serving" or "done"
  requests  \* requests being answered

setup == <<mode, parts, burst>>
outer == <<main, master, result, sig>>
wvars == <<writer, target, running>>
pvars == <<proc, runner, srv, held>>
avars == <<api, requests>>
vars  == <<mode, parts, burst, main, master, result, sig, failed, writer, target, running,
           proc, runner, srv, held, api, requests>>

Part == {"writer", "processor", "api"}
Silent == {NoCluster}  \* what an unreachable sentinel is known for

\* The context of the parts ends with a signal or the first error of one.
CtxDone == sig \/ failed # {}
Up(p)   == main = "running" /\ p \in parts

-------------------------------------------------------------------------------
(* discover.go: the first sentinel that answers decides. *)

Answering(sentinels) == {i \in DOMAIN sentinels : sentinels[i] # Silent}

DiscoverMasters(sentinels) ==
  IF Answering(sentinels) = {} THEN {}
  ELSE sentinels[CHOOSE i \in Answering(sentinels) : \A j \in Answering(sentinels) : i <= j]

\* The named master, or the only one; NoCluster is an error.
PickMaster(masters, name) ==
  IF name \in masters THEN name
  ELSE IF name = NoCluster /\ Cardinality(masters) = 1 THEN CHOOSE c \in masters : TRUE
  ELSE NoCluster

ResolveMaster(sentinels, name) ==
  /\ main = "resolving"
  /\ master' = PickMaster(IF sig THEN {} ELSE DiscoverMasters(sentinels), name)
  /\ IF master' = NoCluster
     THEN main' = "exited" /\ result' = "error"
     ELSE main' = "running" /\ UNCHANGED result
  /\ UNCHANGED <<setup, sig, failed, wvars, pvars, avars>>

Signal ==
  /\ main # "exited" /\ ~sig
  /\ sig' = TRUE
  /\ UNCHANGED <<setup, main, master, result, failed, wvars, pvars, avars>>

-------------------------------------------------------------------------------
(* The writer. *)

Writing(w) == Up("writer") /\ writer = w

\* A tick and the end of the context may be ready together: either is taken.
Tick ==
  /\ Writing("select")
  /\ target' \in (IF burst THEN {MaxClients} ELSE 1..MaxClients)
  /\ writer' = "fill"
  /\ UNCHANGED <<setup, outer, failed, running, pvars, avars>>

\* The fill loop looks at the pool only, not at the context.
Submit ==
  /\ Writing("fill")
  /\ running < target
  /\ running' = running + 1
  /\ UNCHANGED <<setup, outer, failed, writer, target, pvars, avars>>

Filled ==
  /\ Writing("fill")
  /\ running >= target
  /\ writer' = "select"
  /\ UNCHANGED <<setup, outer, failed, target, running, pvars, avars>>

\* Mutant: an enqueuer in burst mode does not look at the context.
EnqueuerDownByAge ==
  /\ Up("writer") /\ running > 0
  /\ ~burst
  /\ running' = running - 1
  /\ UNCHANGED <<setup, outer, failed, writer, target, pvars, avars>>

\* An enqueuer ends with its lifetime, if it has one, or with the context.
EnqueuerDown ==
  /\ Up("writer") /\ running > 0
  /\ ~burst \/ CtxDone
  /\ running' = running - 1
  /\ UNCHANGED <<setup, outer, failed, writer, target, pvars, avars>>

WriterStops ==
  /\ Writing("select")
  /\ CtxDone
  /\ writer' = "waiting"
  /\ UNCHANGED <<setup, outer, failed, target, running, pvars, avars>>

\* StopAndWait; then the client is closed.
WriterDone ==
  /\ Writing("waiting")
  /\ running = 0
  /\ writer' = "done"
  /\ UNCHANGED <<setup, outer, failed, target, running, pvars, avars>>

-------------------------------------------------------------------------------
(* The processor. *)

ServerStarts ==
  /\ Up("processor") /\ runner = "start"
  /\ runner' = "signal"
  /\ srv' = "active"
  /\ UNCHANGED <<setup, outer, failed, wvars, proc, held, avars>>

TakeTask ==
  /\ Up("processor") /\ srv = "active"
  /\ held < Concurrency
  /\ held' = held + 1
  /\ UNCHANGED <<setup, outer, failed, wvars, proc, runner, srv, avars>>

HandlerReturns ==
  /\ Up("processor") /\ held > 0
  /\ held' = held - 1
  /\ UNCHANGED <<setup, outer, failed, wvars, proc, runner, srv, avars>>

\* Only the first Shutdown of an active server waits for the workers; any other
\* returns at once, also one that comes before the server started.
SrvShutdown == IF srv = "active" THEN "closed" ELSE srv
AfterCall   == IF srv = "active" THEN "shutdown" ELSE IF srv = "new" THEN "missed" ELSE "done"

RunnerSignalled ==
  /\ Up("processor") /\ runner = "signal" /\ sig
  /\ srv' = SrvShutdown
  /\ runner' = AfterCall
  /\ UNCHANGED <<setup, outer, failed, wvars, proc, held, avars>>

RunnerDone ==
  /\ Up("processor") /\ runner = "shutdown" /\ held = 0
  /\ runner' = "done"
  /\ UNCHANGED <<setup, outer, failed, wvars, proc, srv, held, avars>>

\* The grace period of the shutdown ends: the tasks go back to the queue.
Abort ==
  /\ Up("processor") /\ srv = "closed" /\ held > 0
  /\ held' = 0
  /\ UNCHANGED <<setup, outer, failed, wvars, proc, runner, srv, avars>>

\* Mutant: Run returns when the context ends.
ProcessorCancelledAtOnce ==
  /\ Up("processor") /\ proc = "select" /\ CtxDone
  /\ proc' = "done"
  /\ UNCHANGED <<setup, outer, failed, wvars, runner, srv, held, avars>>

ProcessorCancelled ==
  /\ Up("processor") /\ proc = "select" /\ CtxDone
  /\ srv' = SrvShutdown
  /\ proc' = AfterCall
  /\ UNCHANGED <<setup, outer, failed, wvars, runner, held, avars>>

ProcessorShut ==
  /\ Up("processor") /\ proc = "shutdown" /\ held = 0
  /\ proc' = "done"
  /\ UNCHANGED <<setup, outer, failed, wvars, runner, srv, held, avars>>

\* The server's Run returned first.
ProcessorServed ==
  /\ Up("processor") /\ proc = "select" /\ runner = "done"
  /\ proc' = "done"
  /\ UNCHANGED <<setup, outer, failed, wvars, runner, srv, held, avars>>

-------------------------------------------------------------------------------
(* The api. *)

ApiServing ==
  /\ Up("api") /\ api = "start"
  /\ api' = "serving"
  /\ UNCHANGED <<setup, outer, failed, wvars, pvars, requests>>

\* Mutant: the error of the listener is dropped with ErrServerClosed.
ListenFailsQuietly ==
  /\ Up("api") /\ api \in {"start", "serving"}
  /\ api' = "done"
  /\ UNCHANGED <<setup, outer, failed, wvars, pvars, requests>>

\* The port is taken, or accepting connections fails.
ListenFails ==
  /\ Up("api") /\ api \in {"start", "serving"}
  /\ api' = "done"
  /\ failed' = failed \cup {"api"}
  /\ UNCHANGED <<setup, outer, wvars, pvars, requests>>

Request ==
  /\ Up("api") /\ api = "serving"
  /\ requests < MaxRequests
  /\ requests' = requests + 1
  /\ UNCHANGED <<setup, outer, failed, wvars, pvars, api>>

Answer ==
  /\ Up("api") /\ requests > 0
  /\ requests' = requests - 1
  /\ UNCHANGED <<setup, outer, failed, wvars, pvars, api>>

\* Serve returns ErrServerClosed as soon as Shutdown is called, requests may be
\* under way.  The group takes it for nil, the api command for an error.
ApiShutdown ==
  /\ Up("api") /\ api # "done" /\ CtxDone
  /\ api' = "done"
  /\ failed' = IF mode = "api" THEN failed \cup {"api"} ELSE failed
  /\ UNCHANGED <<setup, outer, wvars, pvars, requests>>

-------------------------------------------------------------------------------
Ended(p) == \/ p = "writer" /\ writer = "done"
            \/ p = "processor" /\ proc \in {"done", "missed"}
            \/ p = "api" /\ api = "done"

\* The group has returned: the store's client is closed and the process ends.
Exit ==
  /\ main = "running" /\ \A p \in parts : Ended(p)
  /\ main' = "exited"
  /\ result' = IF failed = {} THEN "ok" ELSE "error"
  /\ UNCHANGED <<setup, master, sig, failed, wvars, pvars, avars>>

Init ==
  /\ \/ mode = "run" /\ parts \in SUBSET Part
     \/ mode \in Part /\ parts = {mode}
  /\ burst \in BOOLEAN
  /\ main = "resolving" /\ master = NoCluster /\ result = "none"
  /\ sig = FALSE /\ failed = {}
  /\ writer = "select" /\ target = 0 /\ running = 0
  /\ proc = "select" /\ runner = "start" /\ srv = "new" /\ held = 0
  /\ api = "start" /\ requests = 0

Work ==
  \/ Tick \/ Submit \/ Filled \/ EnqueuerDown \/ WriterStops \/ WriterDone
  \/ ServerStarts \/ TakeTask \/ HandlerReturns \/ Abort
  \/ RunnerSignalled \/ RunnerDone
  \/ ProcessorCancelled \/ ProcessorShut \/ ProcessorServed
  \/ ApiServing \/ ListenFails \/ Request \/ Answer \/ ApiShutdown

Next ==
  \/ \E sentinels \in [1..2 -> {Silent} \cup SUBSET Cluster], name \in Cluster \cup {NoCluster} :
       ResolveMaster(sentinels, name)
  \/ Signal \/ Work \/ Exit

\* Every goroutine runs on.  Go's select takes a case that is ready time and
\* again at last, and the fill loop does not for ever lose the race against
\* enqueuers that end.
Fairness ==
  /\ WF_vars(EnqueuerDown) /\ WF_vars(WriterDone) /\ SF_vars(WriterStops)
  /\ SF_vars(Filled) /\ \A k \in 0..MaxClients : SF_vars(Submit /\ running = k)
  /\ WF_vars(Abort) /\ WF_vars(RunnerSignalled) /\ WF_vars(RunnerDone)
  /\ WF_vars(ProcessorCancelled) /\ WF_vars(ProcessorShut)
  /\ WF_vars(ApiShutdown) /\ WF_vars(Exit)

Spec == Init /\ [][Next]_vars /\ Fairness

-------------------------------------------------------------------------------
\* No part ends on its own and leaves the others running without it
\* (main.go:299-347: an error of a part ends the group).
NoPartEndsQuietly ==
  main = "running" /\ (\E p \in parts : Ended(p)) => CtxDone

\* The process ends with no enqueuer at work on the closed client and, unless a
\* signal was delivered, no task in the hands of a worker: after a signal both
\* asynq and Processor.Run shut the server down, and the second does not wait.
\* A server that starts after the context ended is missed by both
\* (processor.go:72-84).
ExitIsOrderly ==
  main = "exited" => running = 0 /\ (held > 0 => sig \/ proc = "missed")

\* Once a signal came or a part failed, the process ends (main.go:105-107).
EndsWhenTold == (main = "running" /\ CtxDone) ~> (main = "exited")
===============================================================================
