------------------------------ MODULE MCSweeps ------------------------------
(***************************************************************************)
(* Small instances of Sweeps: two gateways; a task with a contract and     *)
(* three recipients.  The role may also go to e, which does not sweep.     *)
(***************************************************************************)
EXTENDS Sweeps

MCGatewayRank == [x \in Gateways |-> IF x = "g" THEN 1 ELSE 2]
MCOneTask == <<"t1">>
MCRecipients == [t \in Tasks |-> 3]
=============================================================================
