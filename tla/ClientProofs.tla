------------------------------ MODULE ClientProofs ------------------------------
(***************************************************************************)
(* Theorems about ClientProcess: no part of the process ends quietly, and  *)
(* what the process may leave behind when it exits.                        *)
(***************************************************************************)
EXTENDS ClientProcess, TLAPS

\* Why a part has ended, or is ending: the context has, and if the server was
\* shut down before Processor.Run asked for it, a signal did it.
EndsForAReason ==
  /\ writer \in {"waiting", "done"} => CtxDone
  /\ proc # "select" => CtxDone
  /\ api = "done" => CtxDone
  /\ runner \in {"shutdown", "done"} => sig
  /\ srv = "closed" /\ proc = "select" => sig
  /\ runner = "start" => srv = "new"

\* What a part that has ended holds.
NothingHeld ==
  /\ writer = "done" => running = 0
  /\ proc = "shutdown" => srv = "closed"
  /\ proc = "done" => sig \/ (srv = "closed" /\ held = 0)
  /\ "writer" \notin parts => running = 0
  /\ "processor" \notin parts => held = 0

\* Before the parts start and after they ended nothing moves.
Framed ==
  /\ main = "resolving" => running = 0 /\ held = 0
  /\ main = "exited" => running = 0 /\ (held > 0 => sig \/ proc = "missed")
  /\ running \in Nat /\ held \in Nat
  /\ srv \in {"new", "active", "closed"}

ProcessInv == EndsForAReason /\ NothingHeld /\ Framed

USE ProcessAssumption

LEMMA InitHolds == Init => ProcessInv
BY SMT DEF Init, ProcessInv, EndsForAReason, NothingHeld, Framed, CtxDone

\* The steps of the writer.
LEMMA WriterKeeps ==
  ASSUME ProcessInv,
         Tick \/ Submit \/ Filled \/ EnqueuerDown \/ WriterStops \/ WriterDone
  PROVE  ProcessInv'
<1>1. CASE Tick
  BY <1>1, SMT DEF Tick, Writing, Up, ProcessInv, EndsForAReason, NothingHeld, Framed, CtxDone,
                   setup, outer, pvars, avars
<1>2. CASE Submit
  BY <1>2, SMT DEF Submit, Writing, Up, ProcessInv, EndsForAReason, NothingHeld, Framed, CtxDone,
                   setup, outer, pvars, avars
<1>3. CASE Filled
  BY <1>3, SMT DEF Filled, Writing, Up, ProcessInv, EndsForAReason, NothingHeld, Framed, CtxDone,
                   setup, outer, pvars, avars
<1>4. CASE EnqueuerDown
  BY <1>4, SMT DEF EnqueuerDown, Up, ProcessInv, EndsForAReason, NothingHeld, Framed, CtxDone,
                   setup, outer, pvars, avars
<1>5. CASE WriterStops
  BY <1>5, SMT DEF WriterStops, Writing, Up, ProcessInv, EndsForAReason, NothingHeld, Framed,
                   CtxDone, setup, outer, pvars, avars
<1>6. CASE WriterDone
  BY <1>6, SMT DEF WriterDone, Writing, Up, ProcessInv, EndsForAReason, NothingHeld, Framed,
                   CtxDone, setup, outer, pvars, avars
<1> QED BY <1>1, <1>2, <1>3, <1>4, <1>5, <1>6

\* The steps of the asynq server.
LEMMA ServerKeeps ==
  ASSUME ProcessInv,
         ServerStarts \/ TakeTask \/ HandlerReturns \/ Abort \/ RunnerSignalled \/ RunnerDone
  PROVE  ProcessInv'
<1> USE DEF Up, ProcessInv, EndsForAReason, NothingHeld, Framed, CtxDone, setup, outer,
            wvars, avars
<1>1. CASE ServerStarts
  BY <1>1, SMT DEF ServerStarts
<1>2. CASE TakeTask
  BY <1>2, SMT DEF TakeTask
<1>3. CASE HandlerReturns
  BY <1>3, SMT DEF HandlerReturns
<1>4. CASE Abort
  BY <1>4, SMT DEF Abort
<1>5. CASE RunnerSignalled
  BY <1>5, SMT DEF RunnerSignalled, SrvShutdown, AfterCall
<1>6. CASE RunnerDone
  BY <1>6, SMT DEF RunnerDone
<1> QED BY <1>1, <1>2, <1>3, <1>4, <1>5, <1>6

\* The steps of Processor.Run and of the api.
LEMMA PartsKeep ==
  ASSUME ProcessInv,
         \/ ProcessorCancelled \/ ProcessorShut \/ ProcessorServed
         \/ ApiServing \/ ListenFails \/ Request \/ Answer \/ ApiShutdown
  PROVE  ProcessInv'
<1> USE DEF Up, ProcessInv, EndsForAReason, NothingHeld, Framed, CtxDone, setup, outer,
            wvars, pvars, avars
<1>1. CASE ProcessorCancelled
  BY <1>1, SMT DEF ProcessorCancelled, SrvShutdown, AfterCall
<1>2. CASE ProcessorShut
  BY <1>2, SMT DEF ProcessorShut
<1>3. CASE ProcessorServed
  BY <1>3, SMT DEF ProcessorServed
<1>4. CASE ApiServing
  BY <1>4, SMT DEF ApiServing
<1>5. CASE ListenFails
  BY <1>5, SMT DEF ListenFails
<1>6. CASE Request \/ Answer
  BY <1>6, SMT DEF Request, Answer
<1>7. CASE ApiShutdown
  BY <1>7, SMT DEF ApiShutdown
<1> QED BY <1>1, <1>2, <1>3, <1>4, <1>5, <1>6, <1>7

\* The search for the master, a signal and the exit.
LEMMA MainKeeps ==
  ASSUME ProcessInv,
         \/ \E sentinels \in [1..2 -> {Silent} \cup SUBSET Cluster],
               name \in Cluster \cup {NoCluster} : ResolveMaster(sentinels, name)
         \/ Signal \/ Exit
  PROVE  ProcessInv'
<1> USE DEF ProcessInv, EndsForAReason, NothingHeld, Framed, CtxDone, setup, outer,
            wvars, pvars, avars
<1>1. CASE \E sentinels \in [1..2 -> {Silent} \cup SUBSET Cluster],
              name \in Cluster \cup {NoCluster} : ResolveMaster(sentinels, name)
  <2>1. /\ main = "resolving"
        /\ main' \in {"running", "exited"}
        /\ UNCHANGED <<setup, sig, failed, wvars, pvars, avars>>
    BY <1>1, Zenon DEF ResolveMaster
  <2> QED BY <2>1, SMT
<1>2. CASE Signal
  BY <1>2, SMT DEF Signal
<1>3. CASE Exit
  <2>1. "writer" \in parts => writer = "done"
    BY <1>3 DEF Exit, Ended
  <2>2. "processor" \in parts => proc \in {"done", "missed"}
    BY <1>3, SMT DEF Exit, Ended
  <2> QED BY <1>3, <2>1, <2>2, SMT DEF Exit
<1> QED BY <1>1, <1>2, <1>3

LEMMA StepKeeps == ProcessInv /\ [Next]_vars => ProcessInv'
<1> SUFFICES ASSUME ProcessInv, [Next]_vars PROVE ProcessInv'
  OBVIOUS
<1>1. CASE UNCHANGED vars
  BY <1>1, SMT DEF vars, ProcessInv, EndsForAReason, NothingHeld, Framed, CtxDone
<1>2. CASE Next
  BY <1>2, WriterKeeps, ServerKeeps, PartsKeep, MainKeeps DEF Next, Work
<1> QED BY <1>1, <1>2

LEMMA ProcessInvariant == Spec => []ProcessInv
BY InitHolds, StepKeeps, PTL DEF Spec

\* While the process runs, no part has ended unless a signal came or a part
\* failed, for any number of enqueuers, workers and requests.
THEOREM PartsEndTogether == Spec => []NoPartEndsQuietly
<1>1. ProcessInv => NoPartEndsQuietly
  BY SMT DEF ProcessInv, EndsForAReason, NoPartEndsQuietly, Ended, CtxDone
<1> QED BY <1>1, ProcessInvariant, PTL

\* A process that exits has no enqueuer at work, and tasks in the hands of its
\* workers only after a signal or when the server started after the end.
THEOREM OrderlyExit == Spec => []ExitIsOrderly
<1>1. ProcessInv => ExitIsOrderly
  BY SMT DEF ProcessInv, Framed, ExitIsOrderly
<1> QED BY <1>1, ProcessInvariant, PTL
===============================================================================
