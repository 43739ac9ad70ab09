-------------------------- MODULE ManagedLifecycle --------------------------
(***************************************************************************)
(* The state file of one cluster name over the lives of several clusters:  *)
(* Lifecycle, with the file created by cluster create and deleted by       *)
(* cluster rm.  A missing file counts as the initial stage.                *)
(***************************************************************************)
EXTENDS Lifecycle

Missing == "missing"

ManagedInit == stage = Missing /\ reached = {InitialStage}

\* A v6 cluster starts its upgrade, a v8 cluster has none to do.
Create(s) ==
  /\ s \in {InitialStage, "Done"}
  /\ stage' = s
  /\ reached' = reached \cup {s}

Remove == stage' = Missing /\ UNCHANGED reached

ManagedNext == Next \/ Remove \/ \E s \in Stage : Create(s)
ManagedSpec == ManagedInit /\ [][ManagedNext]_lifecycleVars
=============================================================================
