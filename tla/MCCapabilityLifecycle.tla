----------------------- MODULE MCCapabilityLifecycle -----------------------
(***************************************************************************)
(* Small instances of CapabilityLifecycle: two gateways with one agent     *)
(* each, two versions; offers that publish, update and withdraw, and two   *)
(* that a gate must refuse.                                                *)
(***************************************************************************)
EXTENDS CapabilityLifecycle

MCGateways == {"g", "h"}
MCGatewayRank == [x \in Gateways |-> IF x = "g" THEN 1 ELSE 2]
MCAgents == {"a", "b"}
MCHost == [x \in Agents |-> IF x = "a" THEN "g" ELSE "h"]
MCAdmin == [x \in Gateways |-> "a"]
MCVersionOrder == <<"v1", "v2">>

First ==
  [version |-> "v1", owner |-> "a", standbys |-> {"b"}, risk |-> "low",
   signedRequired |-> FALSE, signature |-> "unsigned", publisher |-> "a",
   approver |-> NoAgent, status |-> "active"]
Update ==
  [First EXCEPT !.version = "v2", !.owner = "b", !.standbys = {}, !.risk = "high",
                !.signedRequired = TRUE, !.signature = "key", !.approver = "a"]
MCOffers ==
  {First, Update,
   [First EXCEPT !.status = "disabled"],
   [Update EXCEPT !.approver = NoAgent],
   [Update EXCEPT !.signature = "unsigned"]}
MCFirstOnly == {First}
=============================================================================
