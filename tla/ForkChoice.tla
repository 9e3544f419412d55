------------------------------ MODULE ForkChoice ------------------------------
(***************************************************************************)
(* What a ledger object promises about forks, whatever order blocks reach  *)
(* it in: it keeps a tree that only grows, a block enters above a parent   *)
(* that is there, and the tip is the best block of the whole tree.         *)
(***************************************************************************)
EXTENDS Naturals

CONSTANTS Digests, Genesis

VARIABLES
    tree,    \* digests in the tree
    height,  \* height[d]: the height of d in the tree
    tip      \* the canonical tip

vars == <<tree, height, tip>>

\* d is preferred to e: it is higher, or as high with the smaller digest.
Preferred(h, d, e) == h[d] > h[e] \/ (h[d] = h[e] /\ d < e)

Best(set, h, d) == d \in set /\ \A e \in set \ {d} : Preferred(h, d, e)

Init ==
    /\ tree = {Genesis}
    /\ height = [d \in Digests |-> 0]
    /\ tip = Genesis

Grow(d, parent) ==
    /\ d \in Digests \ tree
    /\ parent \in tree
    /\ tree' = tree \cup {d}
    /\ height' = [height EXCEPT ![d] = height[parent] + 1]
    /\ Best(tree', height', tip')

Restart ==
    /\ tree' = {Genesis}
    /\ tip' = Genesis
    /\ height' = [d \in Digests |-> 0]

Next == (\E d, parent \in Digests : Grow(d, parent)) \/ Restart

Spec == Init /\ [][Next]_vars
=============================================================================
