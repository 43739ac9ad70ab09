----------------------------- MODULE UpgradeFSM -----------------------------
(***************************************************************************)
(* The upgrade lifecycle of one cluster as internal/state/machine.go       *)
(* configures it: eight stages in a line, each left by one trigger.        *)
(***************************************************************************)

\* The stages store.go declares, in the order an upgrade passes through them.
Stage == {"AllV6", "MixedVersions", "V8Prioritized", "FailoverComplete",
          "ReplicationBroken", "V6Destroyed", "V8SentinelsAdded", "Done"}

Trigger == {"AddV8Instance", "PromoteV8", "Failover", "BreakReplication",
            "DestroyV6", "AddV8Sentinels", "RemoveV6Sentinels"}

InitialStage == "AllV6"

\* configure() calls Permit once per trigger, so an edge is its trigger: the
\* stage the trigger is permitted in, and the stage it leads to.
From == [AddV8Instance     |-> "AllV6",
         PromoteV8         |-> "MixedVersions",
         Failover          |-> "V8Prioritized",
         BreakReplication  |-> "FailoverComplete",
         DestroyV6         |-> "ReplicationBroken",
         AddV8Sentinels    |-> "V6Destroyed",
         RemoveV6Sentinels |-> "V8SentinelsAdded"]

To == [AddV8Instance     |-> "MixedVersions",
       PromoteV8         |-> "V8Prioritized",
       Failover          |-> "FailoverComplete",
       BreakReplication  |-> "ReplicationBroken",
       DestroyV6         |-> "V6Destroyed",
       AddV8Sentinels    |-> "V8SentinelsAdded",
       RemoveV6Sentinels |-> "Done"]

\* A machine loaded in stage s accepts trigger t. An unparsable state file
\* gives no machine, and "torn" is the source of no edge.
CanFire(s, t) == From[t] = s
=============================================================================
