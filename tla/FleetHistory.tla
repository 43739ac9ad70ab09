---------------------------- MODULE FleetHistory ----------------------------
(***************************************************************************)
(* SentinelFleet with a history of the stages each state file ever held,   *)
(* which relates it to ManagedLifecycle.                                   *)
(***************************************************************************)
EXTENDS SentinelFleet

VARIABLE reached   \* reached[c]: every stage the state file of c ever held

HistoryInit == Init /\ reached = [c \in Cluster |-> {InitialStage}]

HistoryNext ==
  /\ Next
  /\ reached' = [c \in Cluster |-> reached[c] \cup ({file'[c]} \cap Stage)]

HistorySpec == HistoryInit /\ [][HistoryNext]_<<vars, reached>>

L(c) == INSTANCE ManagedLifecycle WITH stage <- file[c], reached <- reached[c]

\* However many sentinel and cluster commands run at once, and whichever of
\* their calls fail, a state file only ever moves to the successor of a stage
\* it held, apart from being created, torn and deleted (sentinel.go 342-366).
FilesImplementLifecycle ==
  /\ \A c \in Cluster : L(c)!ManagedInit
  /\ [][\A c \in Cluster : L(c)!ManagedNext \/ UNCHANGED <<file[c], reached[c]>>]_<<file, reached>>
=============================================================================
