----------------------------- MODULE MCBlockchain -----------------------------
(***************************************************************************)
(* Instances of Blockchain for TLC.  Block 0 is the genesis block; every   *)
(* tree over the other digests is an initial state.  t2 spends what t1     *)
(* transfers: it is valid on some branches only, where t1 covers it once.  *)
(* The amount and the fee of t3 wrap to a sum below zero, which every      *)
(* balance covers.                                                         *)
(***************************************************************************)
EXTENDS Blockchain, TLC

CONSTANTS treasury, miner, wallet, t1, t2, t3, n1, n2

\* Every way to build on each other; a circle of digests cannot be made.
AllParents ==
    {p \in [Digests -> Digests] :
        /\ p[Genesis] = Genesis
        /\ \A circle \in SUBSET (Digests \ {Genesis}) :
              circle # {} => \E d \in circle : p[d] \notin circle}

MCTransfer ==
    (t1 :> [sender |-> treasury, recipient |-> wallet, amount |-> 3, fee |-> 1]) @@
    (t2 :> [sender |-> wallet, recipient |-> treasury, amount |-> 1, fee |-> 1]) @@
    (t3 :> [sender |-> wallet, recipient |-> treasury, amount |-> 30, fee |-> 31])

\* t1 is in two blocks, which a fork may have on both sides.
MCBody == <<<<t1>>, <<t2>>, <<t1, t2>>, <<t3>>>> @@ (0 :> <<>>)
MCMiner == [d \in Digests |-> miner]

UpTo4 == 0 .. 4

\* Nodes only tell ledgers and mempools apart.
NodeSymmetry == Permutations(Nodes)
=============================================================================
