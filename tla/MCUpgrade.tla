------------------------------ MODULE MCUpgrade ------------------------------
(***************************************************************************)
(* Instances of Upgrade for TLC: ports p1, p2, p3, sentinels s1 (s2), one *)
(* or two russ processes.                                                  *)
(***************************************************************************)
EXTENDS Upgrade

CONSTANTS p1, p2, p3, s1, s2, op1, op2

Ports3 == {p1, p2, p3}
FirstMaster == p1
OneReplica == {p2}
Ports2 == {p1, p2}
NoReplica == {}
OneSentinel == {s1}
FirstSentinel == s1
OneProc == {op1}
TwoProcs == {op1, op2}
TwoSentinels == {s1, s2}

\* Bound: the second sentinel reads no priorities.  Without outages only the
\* commands start failovers, through the first one, and nothing else looks at
\* what it read.
FirstLeads == cached[s2] = [p \in Port |-> NotRead]
=============================================================================
