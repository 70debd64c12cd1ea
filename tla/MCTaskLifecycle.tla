-------------------------- MODULE MCTaskLifecycle --------------------------
(***************************************************************************)
(* Small instances of TaskLifecycle: two agents, one of them the requester *)
(* and the admin; t1 is a high-risk contract, t2 a distribution task.      *)
(***************************************************************************)
EXTENDS TaskLifecycle

MCAgents == {"a", "b"}
MCTwoTasks == {"t1", "t2"}
MCOneTask == {"t1"}
MCOneGateway == {"g"}
MCTwoGateways == {"g", "h"}
MCCandidates == [t \in Tasks |-> IF t = "t1" THEN Agents ELSE {"a"}]
MCRequester == [t \in Tasks |-> "b"]
MCAdmin == [r \in Replicas |-> "b"]
MCDistribution == Tasks \intersect {"t2"}
MCReplicaRank == [r \in Replicas |-> IF r = "g" THEN 1 ELSE 2]
=============================================================================
