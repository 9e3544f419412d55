------------------------------ MODULE AppNetwork ------------------------------
(***************************************************************************)
(* What an application object sees of the gossip layer.  The nodes of      *)
(* src/examples keep messages in a MemoryStorage, whose operations return  *)
(* no error, and register one object each, so that a node gives a message  *)
(* to its object at most once (RepeatsFollowErrors of NodeGossip, without  *)
(* errors).  Nodes take messages in any order, and a message may never     *)
(* come.  The node that publishes a message is the first whose object      *)
(* takes it, in create_shared_message_with_data, before it is broadcast.   *)
(* Publishing the same data again makes another message: messages that may *)
(* be published twice carry a field that tells the copies apart.           *)
(*                                                                         *)
(* The pipeline of such a node is is_valid followed by add_message of the  *)
(* object under the write guard of the registry: one step.  A message that *)
(* is_valid lets through and add_message ignores is stored like any other  *)
(* and never comes back.                                                   *)
(***************************************************************************)
EXTENDS Participants, Naturals, Sequences, FiniteSets

VARIABLE got   \* got[n]: messages that the object of n took

NetInit == got = [n \in Nodes |-> {}]

Published == UNION {got[n] : n \in Nodes}

Receive(n, m) ==
    /\ m \notin got[n]
    /\ got' = [got EXCEPT ![n] = @ \cup {m}]

\* The node keeps its messages, and what the object took never comes again.
Reset(n) ==
    /\ n \in MayReset
    /\ UNCHANGED got

\* A map, with the entry of k anew, and without it.
NoMap == [k \in {} |-> {}]
With(f, k, v) == [x \in DOMAIN f \cup {k} |-> IF x = k THEN v ELSE f[x]]
Without(f, k) == [x \in DOMAIN f \ {k} |-> f[x]]

\* Messages whose kind is k.
OfKind(messages, k) == {m \in messages : m.kind = k}
=============================================================================
