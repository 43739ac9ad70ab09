--------------------------- MODULE MCSentinelFleet ---------------------------
(***************************************************************************)
(* Instances of SentinelFleet for TLC: sentinels on a few consecutive      *)
(* ports, one or two clusters, one or two russ processes.                  *)
(***************************************************************************)
EXTENDS SentinelFleet, TLC

CONSTANTS c1, c2, op1, op2

Ports3 == 1 .. 3
TwoClusters == {c1, c2}
ClusterSymmetry == Permutations(TwoClusters)
OneProc == {op1}
=============================================================================
