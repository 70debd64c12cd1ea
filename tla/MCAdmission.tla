---------------------------- MODULE MCAdmission ----------------------------
(***************************************************************************)
(* A small instance of Admission: two gateways and a node without one.     *)
(***************************************************************************)
EXTENDS Admission

MCGatewayRank == [x \in Gateways |-> IF x = "g" THEN 1 ELSE 2]
=============================================================================
