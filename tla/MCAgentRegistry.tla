-------------------------- MODULE MCAgentRegistry --------------------------
(***************************************************************************)
(* A small instance of AgentRegistry: two gateways, one agent left over    *)
(* from a renamed node, one agent not registered yet.  g is its own admin; *)
(* the admin of h is by its configuration the one not registered.          *)
(***************************************************************************)
EXTENDS AgentRegistry

MCGatewayRank == [x \in Gateways |-> IF x = "g" THEN 1 ELSE 2]
MCCanonical == [x \in Agents \union GatewayIds |-> IF x = "g-host" THEN "g" ELSE x]
MCLocals == [x \in Gateways |-> {x}]
MCResidue == [x \in Legacy |-> {x}]
MCConfigAdmin == [x \in Gateways |-> IF x = "h" THEN "x" ELSE x]
=============================================================================
