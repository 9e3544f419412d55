----------------------------- MODULE MCDigestSync -----------------------------
(* Instances of DigestSync for TLC: every node knows every other. *)
EXTENDS DigestSync

CONSTANTS n1, n2, n3

AllPeers == [n \in Nodes |-> Nodes \ {n}]

\* n1, which creates all entries and is ahead of n2 until it restarts, asks for
\* digests only from then on.
AheadAsksNothing ==
    \A d \in net : d.type = "REQUEST_DIGEST" /\ d.src = n1 => born[n1] > 0
=============================================================================
