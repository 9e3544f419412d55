---------------------------- MODULE Dissemination ----------------------------
(***************************************************************************)
(* What the gossip layer promises, with the tasks, the peers, the network, *)
(* the failures of storage and the restarts left out: a message is         *)
(* published once, by the node whose application created it and that makes *)
(* it durable first; every other node gets a copy only after that; nothing *)
(* that is durable is ever dropped.                                        *)
(***************************************************************************)

CONSTANTS Nodes, Messages, NoNode

VARIABLES
    holders,   \* holders[m]: the nodes that hold m durably
    author     \* author[m]: the node that published m, or NoNode

vars == <<holders, author>>

Init ==
    /\ holders = [m \in Messages |-> {}]
    /\ author = [m \in Messages |-> NoNode]

\* Node n publishes some messages that nobody holds and gets copies of some
\* that their authors hold; a flush makes all of them durable at once.
Store(n, published, copied) ==
    /\ \A m \in published : holders[m] = {}
    /\ \A m \in copied : author[m] \in holders[m]
    /\ holders' = [m \in Messages |->
                      IF m \in published \cup copied THEN holders[m] \cup {n}
                                                     ELSE holders[m]]
    /\ author' = [m \in Messages |-> IF m \in published THEN n ELSE author[m]]

Next ==
    \E n \in Nodes : \E published, copied \in SUBSET Messages :
        Store(n, published, copied)

Spec == Init /\ [][Next]_vars
=============================================================================
