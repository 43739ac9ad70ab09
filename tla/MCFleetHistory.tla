---------------------------- MODULE MCFleetHistory ----------------------------
(***************************************************************************)
(* Instances of FleetHistory for TLC.                                      *)
(***************************************************************************)
EXTENDS FleetHistory, TLC

CONSTANTS c1, op1, op2

OnePort == {1}
OneCluster == {c1}
TwoProcs == {op1, op2}
ProcSymmetry == Permutations(TwoProcs)
===============================================================================
