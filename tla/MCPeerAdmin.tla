----------------------------- MODULE MCPeerAdmin -----------------------------
(* Instances of PeerAdmin for TLC.  All ids are of one address, as when a peer *)
(* is added twice: connect_to_peer makes a fresh id for each call.            *)
EXTENDS PeerAdmin, TLC

CONSTANTS a1, p1, p2, r1, l2

SmallAddress == [i \in {p1, p2, r1, l2} |-> a1]

\* Callers are alike, and so are the ids that callers use.
CallSymmetry == Permutations(Callers) \cup Permutations(CallerIds)
=============================================================================
