---------------------------- MODULE MCDispatcher ----------------------------
(***************************************************************************)
(* Small instances of Dispatcher for TLC: a gateway "n" with one further   *)
(* local agent "a", and a peer "r".                                        *)
(***************************************************************************)
EXTENDS Dispatcher, TLC

MCLocal == {"n", "a"}
MCRemote == {"r"}
MCAgentRank == [x \in MCLocal |-> IF x = "a" THEN 1 ELSE 2]
MCRank == [i \in Items |-> IF i \in Msgs THEN (IF i = "m1" THEN 1 ELSE 2)
                                         ELSE 3]

\* Messages: m1 is addressed to a, m2 is a broadcast.
MCMsgs == {"m1", "m2"}
MCNone == {}
MCOneMsg == {"m1"}
MCTasks == {"t1"}
MCFrom == [i \in Items |-> "r"]
MCTo == [i \in Items |-> CASE i = "m1" -> {"a"}
                           [] i = "m2" -> {}
                           [] i = "t1" -> {"a", "n"}]
\* Every message for a only.
MCToA == [i \in Items |-> {"a"}]

Symmetry == Permutations(Passes)
=============================================================================
