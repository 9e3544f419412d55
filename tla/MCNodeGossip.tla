---------------------------- MODULE MCNodeGossip ----------------------------
(* Instances of NodeGossip for TLC. *)
EXTENDS NodeGossip, TLC

CONSTANTS n1, n2, n3, m1, m2

\* Two nodes that were told of each other.
PairPeers == (n1 :> {n2}) @@ (n2 :> {n1})

\* n1 may ban n2.
BanOther == {<<n1, n2>>}

\* n1's objects may reject a message or fail half way, n2's take every message.
MixedVerdict ==
    [n \in Nodes |-> [m \in Messages |-> IF n = n1 THEN Verdict ELSE {"apply"}]]

\* Objects that take every message.
AlwaysApply == [n \in Nodes |-> [m \in Messages |-> {"apply"}]]
=============================================================================
