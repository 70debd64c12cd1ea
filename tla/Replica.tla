------------------------------ MODULE Replica ------------------------------
(***************************************************************************)
(* One key of a map of the shared document (Yjs), as the replica of a      *)
(* gateway holds it.  A write replaces the value; of two concurrent writes *)
(* the one of the higher client wins everywhere.  A deletion is no write:  *)
(* it deletes what it has seen, and a write it has not seen survives it.   *)
(***************************************************************************)
EXTENDS Integers, FiniteSetsExt

CONSTANTS
  Gateways,      \* the nodes that hold a replica
  GatewayRank,   \* the order of their client ids
  Gone           \* the value of a deleted key

ASSUME ReplicaAssumption ==
  /\ IsFiniteSet(Gateways) /\ Gateways # {}
  /\ GatewayRank \in [Gateways -> Nat]
  /\ \A g, h \in Gateways : GatewayRank[g] = GatewayRank[h] => g = h

\* The entry of a key: the value, how many writes of each gateway it has seen, and
\* whose write the value is.
IsEntry(e, Values) ==
  /\ e = [val |-> e.val, seen |-> e.seen, by |-> e.by]
  /\ e.val \in Values \/ e.val = Gone
  /\ e.seen \in [Gateways -> Nat] /\ e.by \in Gateways

First(v) ==
  [val |-> v, seen |-> [g \in Gateways |-> 0], by |-> CHOOSE g \in Gateways : TRUE]

Set(e, g, v) == [val |-> v, seen |-> [e.seen EXCEPT ![g] = @ + 1], by |-> g]

Delete(e) == [e EXCEPT !.val = Gone]

Includes(e, f) == \A g \in Gateways : f.seen[g] <= e.seen[g]

\* Entry e after f was received.
Merge(e, f) ==
  LET fWins == f.val # Gone /\ (e.val = Gone \/ GatewayRank[f.by] > GatewayRank[e.by])
  IN IF Includes(e, f) /\ ~(Includes(f, e) /\ f.val = Gone) THEN e
     ELSE IF Includes(f, e) THEN f
     ELSE [val |-> IF fWins THEN f.val ELSE e.val,
           seen |-> [g \in Gateways |-> Max({e.seen[g], f.seen[g]})],
           by |-> IF fWins THEN f.by ELSE e.by]
=============================================================================
