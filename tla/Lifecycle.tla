------------------------------ MODULE Lifecycle ------------------------------
(***************************************************************************)
(* What the persisted lifecycle state of a cluster promises, however many  *)
(* russ processes act on it: the abstract specification the commands in    *)
(* Upgrade implement.  `stage` is what the state file holds; `reached`     *)
(* remembers every stage it ever held.                                     *)
(***************************************************************************)
EXTENDS UpgradeFSM

VARIABLES stage, reached

lifecycleVars == <<stage, reached>>

Torn == "torn"   \* a state file that was truncated and not yet written

LifecycleTypeOK ==
  /\ stage \in Stage \cup {Torn}
  /\ reached \subseteq Stage

Init == stage = InitialStage /\ reached = {InitialStage}

\* The cluster moves along one edge of the FSM.
Advance(t) ==
  /\ CanFire(stage, t)
  /\ stage' = To[t]
  /\ reached' = reached \cup {To[t]}

\* A process that loaded an earlier stage completes its transition late, over
\* whatever was saved meanwhile.
LateAdvance(t) ==
  /\ From[t] \in reached
  /\ stage' = To[t]
  /\ reached' = reached \cup {To[t]}

\* The process dies between truncating the state file and writing it.
Tear == stage' = Torn /\ UNCHANGED reached

\* One process at a time: the stage only ever advances, by one edge.
SequentialNext == Tear \/ \E t \in Trigger : Advance(t)
SequentialSpec == Init /\ [][SequentialNext]_lifecycleVars

\* Any number of processes.
Next == Tear \/ \E t \in Trigger : LateAdvance(t)
Spec == Init /\ [][Next]_lifecycleVars

\* No stage is reached before the stage the FSM requires it to come from, in
\* any interleaving of commands (machine.go, Fire).
NoStageSkipped == \A t \in Trigger : To[t] \in reached => From[t] \in reached
=============================================================================
