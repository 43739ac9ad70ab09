---------------------------- MODULE MCClientProcess ----------------------------
(***************************************************************************)
(* ClientProcess for TLC: two clusters.                                    *)
(***************************************************************************)
EXTENDS ClientProcess

CONSTANTS A, B

Clusters == {A, B}
===============================================================================
