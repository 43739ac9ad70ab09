----------------------------- MODULE MCContainers -----------------------------
(***************************************************************************)
(* Containers for TLC: two clusters, three instance ports, two sentinels.  *)
(***************************************************************************)
EXTENDS Containers

CONSTANTS A, B, op1, op2

Clusters   == {A, B}
RedisPorts == {1, 2, 3}
SentPorts  == {8, 9}

Create(c, count, persistence) ==
  [do |-> "cluster create", cluster |-> c, count |-> count, persistence |-> persistence]

On(cmd, c) == [do |-> cmd, cluster |-> c]

Quick == [do |-> "quickstart", cluster |-> A, sentinels |-> 2, count |-> 2, adds |-> 1]

AddA == [do |-> "instance add", cluster |-> A, persistence |-> TRUE]

\* The second operator creates what takes the ports of the first one.
TwoOperators ==
  op1 :> {Quick, Create(A, 2, TRUE), Create(B, 1, TRUE), Create(B, 1, FALSE), AddA,
          On("cluster rm", A), On("workload start", A), On("workload start", B),
          On("workload stop", A), On("workload stop", NoCluster),
          [do |-> "instance rm", name |-> Redis(A, 2)],
          [do |-> "instance rm", name |-> Workload(A)],
          [do |-> "sentinel add", count |-> 1],
          [do |-> "sentinel rm", name |-> Sentinel(8)],
          Task("obs start"), Task("obs stop"), Task("destroy")}
    @@ op2 :> {Create(B, 1, TRUE), AddA}

\* Bound: quickstart is followed only while no other command runs, which is
\* when QuickstartDelivers speaks of it; the commands it consists of are not
\* bounded in this way.
QuickstartAlone == \A p \in Proc : op[p].cmd.do = "quickstart" => op[p].alone

\* The observability stack alone.
ObsOperator == op1 :> {Task("obs start"), Task("obs stop")}
===============================================================================
