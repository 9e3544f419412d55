--------------------------- MODULE BlockchainProofs ---------------------------
(***************************************************************************)
(* Proofs about the ledgers of Blockchain, for any set of blocks, any shape *)
(* of the tree and any order of arrival.                                   *)
(*                                                                         *)
(* The argument: BetterTip orders the blocks of a tree totally, so that    *)
(* comparing each new block with the tip alone keeps the tip the best of   *)
(* all; a new block is a leaf, because a block only enters above a parent  *)
(* that is there, so that nothing in the tree can build on it yet; and what*)
(* a ledger keeps of a block depends on the blocks below it alone, so that *)
(* two ledgers agree on the blocks that both have.                         *)
(***************************************************************************)
EXTENDS Blockchain, SumsProofs, SequenceTheorems

LEMMA BlockTxs ==
    ASSUME NEW B, B \subseteq Digests
    PROVE  TxsOf(B) \subseteq Txs
<1>1. ASSUME NEW d \in Digests PROVE Range(Body[d]) \subseteq Txs
  <2>1. Body[d] \in Seq(Txs)
    BY AccountsAssumption
  <2> QED BY <2>1 DEF Range
<1> QED BY <1>1 DEF TxsOf

LEMMA ChainInDigests == \A d \in Digests : ChainTo(d) \subseteq Digests
  BY DEF ChainTo

LEMMA BlockDropsTxs ==
    ASSUME NEW pool, pool \subseteq Txs, NEW d \in Digests, NEW reverted, NEW applied,
           reverted \subseteq Txs
    PROVE  TakeBlock(pool, d, reverted, applied) \subseteq Txs
  BY DEF TakeBlock

\* The types hold in the initial states and after every step.
LEMMA TypeStep == TypeOK /\ [Next]_vars => TypeOK'
<1> SUFFICES ASSUME TypeOK, [Next]_vars PROVE TypeOK'
  OBVIOUS
<1> USE GenesisAssumption
<1>1. CASE UNCHANGED vars
  BY <1>1 DEF vars, ledger, TypeOK
<1>2. ASSUME NEW n \in Nodes, NEW t \in Txs, NewTx(n, t) PROVE TypeOK'
  BY <1>2 DEF NewTx, ledger, TypeOK
<1>3. ASSUME NEW n \in Nodes, NEW d \in Digests, NewBlock(n, d) PROVE TypeOK'
  <2> USE DEF TypeOK
  <2>1. height[n][parent[d]] + 1 \in Nat
    <3>1. height[n] \in [Digests -> Nat] /\ parent[d] \in Digests
      OBVIOUS
    <3>2. height[n][parent[d]] \in Nat
      BY <3>1
    <3> QED BY <3>2
  <2>2. /\ height' \in [Nodes -> [Digests -> Nat]]
        /\ tree' \in [Nodes -> SUBSET Digests]
        /\ tips' \in [Nodes -> SUBSET Digests]
        /\ UNCHANGED parent
    BY <2>1, <1>3 DEF NewBlock
  <2>3. tip' \in [Nodes -> Digests]
    BY <1>3 DEF NewBlock
  <2>4. PICK path \in SUBSET Digests :
           /\ chain' = [chain EXCEPT ![n] = path]
           /\ mempool' = [mempool EXCEPT ![n] =
                 TakeBlock(@, d, TxsOf(chain[n] \ path), TxsOf(path \ chain[n]))]
    <3> DEFINE h == [height[n] EXCEPT ![d] = height[n][parent[d]] + 1]
               path == IF BetterTip(h, d, tip[n]) THEN ChainTo(d) ELSE chain[n]
    <3>1. path \in SUBSET Digests
      BY ChainInDigests
    <3>2. /\ chain' = [chain EXCEPT ![n] = path]
          /\ mempool' = [mempool EXCEPT ![n] =
                TakeBlock(@, d, TxsOf(chain[n] \ path), TxsOf(path \ chain[n]))]
      BY <1>3 DEF NewBlock
    <3> QED BY <3>1, <3>2
  <2>5. chain' \in [Nodes -> SUBSET Digests]
    BY <2>4
  <2>6. chain[n] \ path \subseteq Digests
    OBVIOUS
  <2>7. TxsOf(chain[n] \ path) \subseteq Txs
    BY <2>6, BlockTxs
  <2>8. mempool[n] \subseteq Txs
    OBVIOUS
  <2> DEFINE pool == TakeBlock(mempool[n], d, TxsOf(chain[n] \ path), TxsOf(path \ chain[n]))
  <2>9. pool \in SUBSET Txs
    BY <2>7, <2>8, BlockDropsTxs
  <2>10. mempool' = [mempool EXCEPT ![n] = pool]
    BY <2>4
  <2> HIDE DEF pool
  <2>11. mempool' \in [Nodes -> SUBSET Txs]
    BY <2>9, <2>10
  <2>12. /\ DOMAIN balances' = Nodes
         /\ DOMAIN states' = Nodes /\ \A k \in Nodes : DOMAIN states'[k] = Digests
    BY <1>3 DEF NewBlock
  <2> QED BY <2>2, <2>3, <2>5, <2>11, <2>12
<1>4. ASSUME NEW n \in Nodes, NEW d \in Digests, KnownBlock(n, d)
      PROVE  TypeOK'
  <2>1. mempool' = [mempool EXCEPT ![n] = TakeBlock(mempool[n], d, {}, {})]
    BY <1>4 DEF KnownBlock, TypeOK
  <2>2. TakeBlock(mempool[n], d, {}, {}) \in SUBSET Txs
    BY BlockDropsTxs DEF TypeOK
  <2>3. mempool' \in [Nodes -> SUBSET Txs]
    BY <2>1, <2>2 DEF TypeOK
  <2> QED BY <1>4, <2>3 DEF KnownBlock, ledger, TypeOK
<1>5. ASSUME NEW n \in Nodes, ResetLedger(n) PROVE TypeOK'
  BY <1>5 DEF ResetLedger, GenesisHeights, GenesisStates, TypeOK
<1>6. ASSUME NEW n \in Nodes, ResetMempool(n) PROVE TypeOK'
  BY <1>6 DEF ResetMempool, ledger, TypeOK
<1> QED
  BY <1>1, <1>2, <1>3, <1>4, <1>5, <1>6 DEF Next

\* What a new block does to the ledger of its node and of the others.
LEMMA NewBlockEffect ==
    ASSUME TypeOK, NEW n \in Nodes, NEW d \in Digests, NewBlock(n, d)
    PROVE  /\ d \notin tree[n] /\ parent[d] \in tree[n]
           /\ parent' = parent
           /\ tree'[n] = tree[n] \cup {d}
           /\ tips'[n] = (tips[n] \cup {d}) \ {parent[d]}
           /\ height'[n] = [height[n] EXCEPT ![d] = height[n][parent[d]] + 1]
           /\ tip'[n] = IF BetterTip(height'[n], d, tip[n]) THEN d ELSE tip[n]
           /\ \A k \in Nodes \ {n} :
                 /\ tree'[k] = tree[k] /\ tips'[k] = tips[k]
                 /\ height'[k] = height[k] /\ tip'[k] = tip[k]
  BY DEF NewBlock, TypeOK

\* Of two different blocks one is better.
LEMMA BetterTipTotal ==
    ASSUME NEW h, NEW d \in Nat, NEW e \in Nat, h[d] \in Nat, h[e] \in Nat, d # e
    PROVE  BetterTip(h, d, e) \/ BetterTip(h, e, d)
<1>1. h[d] > h[e] \/ h[e] > h[d] \/ h[d] = h[e]
  OBVIOUS
<1>2. d < e \/ e < d
  OBVIOUS
<1> QED
  BY <1>1, <1>2 DEF BetterTip

\* The tip stays the best block of the tree: heights of the tree do not change,
\* and the order is total and transitive.
LEMMA BestTipStep ==
    ASSUME TreeInv, NEW n \in Nodes, NEW d \in Digests, NewBlock(n, d)
    PROVE  BestTip'
<1> USE DEF TreeInv, TypeOK
<1> DEFINE h == height[n]
           hh == height'[n]
<1>1. /\ d \notin tree[n] /\ parent[d] \in tree[n]
      /\ tree'[n] = tree[n] \cup {d}
      /\ hh = [h EXCEPT ![d] = h[parent[d]] + 1]
      /\ tip'[n] = IF BetterTip(hh, d, tip[n]) THEN d ELSE tip[n]
      /\ \A k \in Nodes \ {n} : /\ tree'[k] = tree[k]
                                /\ height'[k] = height[k] /\ tip'[k] = tip[k]
  BY NewBlockEffect
<1>2. h \in [Digests -> Nat] /\ hh \in [Digests -> Nat] /\ tree[n] \subseteq Digests
  BY <1>1
<1>3. \A e \in tree[n] : hh[e] = h[e]
  BY <1>1, <1>2
<1>4. tip[n] \in tree[n] /\ \A e \in tree[n] \ {tip[n]} : BetterTip(h, tip[n], e)
  BY DEF BestTip
<1>5. \A e \in tree[n] \ {tip[n]} : BetterTip(hh, tip[n], e)
  BY <1>3, <1>4 DEF BetterTip
<1>6. Digests \subseteq Nat
  BY GenesisAssumption
<1>7. /\ tip'[n] \in tree'[n]
      /\ \A e \in tree'[n] \ {tip'[n]} : BetterTip(hh, tip'[n], e)
  <2>1. CASE BetterTip(hh, d, tip[n])
    <3>1. tip'[n] = d
      BY <2>1, <1>1
    <3>2. \A e \in tree[n] : BetterTip(hh, d, e)
      <4> SUFFICES ASSUME NEW e \in tree[n], e # tip[n] PROVE BetterTip(hh, d, e)
        BY <2>1
      <4>1. BetterTip(hh, tip[n], e)
        BY <1>5
      <4>2. /\ hh[d] \in Nat /\ hh[tip[n]] \in Nat /\ hh[e] \in Nat
            /\ d \in Nat /\ tip[n] \in Nat /\ e \in Nat
        BY <1>2, <1>4, <1>6
      <4> QED BY <2>1, <4>1, <4>2 DEF BetterTip
    <3> QED BY <3>1, <3>2, <1>1
  <2>2. CASE ~BetterTip(hh, d, tip[n])
    <3>1. tip'[n] = tip[n] /\ d # tip[n]
      BY <2>2, <1>1, <1>4
    <3>2. BetterTip(hh, tip[n], d)
      <4>1. /\ hh[d] \in Nat /\ hh[tip[n]] \in Nat /\ d \in Nat /\ tip[n] \in Nat
        BY <1>2, <1>4, <1>6
      <4> QED BY <2>2, <3>1, <4>1, BetterTipTotal
    <3> QED BY <3>1, <3>2, <1>1, <1>4, <1>5
  <2> QED BY <2>1, <2>2
<1> QED
  BY <1>1, <1>7 DEF BestTip

\* The tips stay the leaves: the new block has no child, and its parent has one.
LEMMA LeavesStep ==
    ASSUME TreeInv, NEW n \in Nodes, NEW d \in Digests, NewBlock(n, d)
    PROVE  ParentsInTree' /\ TipsAreLeaves'
<1> USE DEF TreeInv
<1>1. /\ d \notin tree[n] /\ parent[d] \in tree[n] /\ parent' = parent
      /\ tree'[n] = tree[n] \cup {d}
      /\ tips'[n] = (tips[n] \cup {d}) \ {parent[d]}
      /\ height'[n] = [height[n] EXCEPT ![d] = height[n][parent[d]] + 1]
      /\ \A k \in Nodes \ {n} : /\ tree'[k] = tree[k] /\ tips'[k] = tips[k]
                                /\ height'[k] = height[k]
  BY NewBlockEffect
<1>2. ParentsInTree'
  <2>1. height[n] \in [Digests -> Nat] /\ tree[n] \subseteq Digests
    BY DEF TypeOK
  <2>2. /\ height'[n][d] = height[n][parent[d]] + 1
        /\ \A e \in tree[n] : height'[n][e] = height[n][e]
    BY <1>1, <2>1
  <2>3. /\ Genesis \in tree'[n] /\ height'[n][Genesis] = 0
        /\ \A e \in tree'[n] \ {Genesis} :
              parent[e] \in tree'[n] /\ height'[n][e] = height'[n][parent[e]] + 1
    BY <1>1, <2>2 DEF ParentsInTree
  <2> DEFINE InTree(x) ==
                /\ Genesis \in tree[x] /\ height[x][Genesis] = 0
                /\ \A e \in tree[x] \ {Genesis} :
                      parent[e] \in tree[x] /\ height[x][e] = height[x][parent[e]] + 1
  <2>4. \A k \in Nodes : InTree(k)
    BY DEF ParentsInTree
  <2>5. \A k \in Nodes \ {n} : InTree(k)'
    BY <1>1, <2>4
  <2>6. InTree(n)'
    BY <1>1, <2>3
  <2> HIDE DEF InTree
  <2>7. \A k \in Nodes : InTree(k)'
    BY <2>5, <2>6
  <2> QED BY <2>7 DEF ParentsInTree, InTree
<1>3. d # Genesis /\ \A e \in tree[n] \ {Genesis} : parent[e] # d
  BY <1>1 DEF ParentsInTree
<1>4. tips'[n] = {e \in tree'[n] : \A f \in tree'[n] \ {Genesis} : parent'[f] # e}
  <2>1. tips[n] = {e \in tree[n] : \A f \in tree[n] \ {Genesis} : parent[f] # e}
    BY DEF TipsAreLeaves
  <2> QED BY <1>1, <1>3, <2>1
<1> QED
  BY <1>1, <1>2, <1>4 DEF TipsAreLeaves

\* The invariant of the fork choice is inductive.
LEMMA TreeInvStep == TreeInv /\ [Next]_vars => TreeInv'
<1> SUFFICES ASSUME TreeInv, [Next]_vars PROVE TreeInv'
  OBVIOUS
<1>type. TypeOK'
  BY TypeStep DEF TreeInv
<1>same. ASSUME UNCHANGED <<parent, tree, height, tips, tip>> PROVE TreeInv'
  BY <1>same, <1>type DEF TreeInv, ParentsInTree, BestTip, TipsAreLeaves
<1>1. CASE UNCHANGED vars
  BY <1>1, <1>same DEF vars, ledger
<1>2. ASSUME NEW n \in Nodes, NEW t \in Txs, NewTx(n, t) PROVE TreeInv'
  BY <1>2, <1>same DEF NewTx, ledger
<1>3. ASSUME NEW n \in Nodes, NEW d \in Digests, NewBlock(n, d) PROVE TreeInv'
  BY <1>3, <1>type, BestTipStep, LeavesStep DEF TreeInv
<1>4. ASSUME NEW n \in Nodes, NEW d \in Digests, KnownBlock(n, d) PROVE TreeInv'
  BY <1>4, <1>same DEF KnownBlock, ledger
<1>5. ASSUME NEW n \in Nodes, ResetLedger(n) PROVE TreeInv'
  <2>1. \A k \in Nodes \ {n} : /\ tree'[k] = tree[k] /\ tips'[k] = tips[k]
                               /\ height'[k] = height[k] /\ tip'[k] = tip[k]
    BY <1>5 DEF ResetLedger, TreeInv, TypeOK
  <2>2. /\ tree'[n] = {Genesis} /\ tips'[n] = {Genesis} /\ tip'[n] = Genesis
        /\ height'[n] = GenesisHeights /\ parent' = parent
    BY <1>5 DEF ResetLedger, TreeInv, TypeOK
  <2>3. height'[n][Genesis] = 0
    BY <2>2, GenesisAssumption DEF GenesisHeights
  <2> QED BY <2>1, <2>2, <2>3, <1>type DEF TreeInv, ParentsInTree, BestTip, TipsAreLeaves
<1>6. ASSUME NEW n \in Nodes, ResetMempool(n) PROVE TreeInv'
  BY <1>6, <1>same DEF ResetMempool, ledger
<1> QED
  BY <1>1, <1>2, <1>3, <1>4, <1>5, <1>6 DEF Next

\* The invariant holds initially.
LEMMA TreeInvInit == Init => TreeInv
<1> SUFFICES ASSUME Init PROVE TreeInv
  OBVIOUS
<1>1. TypeOK
  BY GenesisAssumption, ParentsAssumption
     DEF Init, TypeOK, GenesisHeights, GenesisStates
<1>2. ParentsInTree /\ BestTip /\ TipsAreLeaves
  BY GenesisAssumption
     DEF Init, GenesisHeights, ParentsInTree, BestTip, TipsAreLeaves
<1> QED BY <1>1, <1>2 DEF TreeInv

\* Whatever order blocks come in, the fork choice of every ledger is in order.
THEOREM TreeInvariant == Spec => []TreeInv
  BY TreeInvInit, TreeInvStep, PTL DEF Spec

-----------------------------------------------------------------------------

\* The tip is the best block of the whole tree, whatever order blocks came in.
THEOREM TipIsBest == Spec => []BestTip
<1>1. TreeInv => BestTip
  BY DEF TreeInv
<1> QED BY <1>1, TreeInvariant, PTL

\* tip_digests are the leaves of the tree.
THEOREM TipsMatchTree == Spec => []TipsAreLeaves
<1>1. TreeInv => TipsAreLeaves
  BY DEF TreeInv
<1> QED BY <1>1, TreeInvariant, PTL

\* The ledger of every node implements ForkChoice.
THEOREM ForkChoiceRefinement == Spec => ImplementsForkChoice
<1>1. Init => \A n \in Nodes : F(n)!Init
  BY DEF Init, F!Init, GenesisHeights
<1>2. TreeInv /\ TreeInv' /\ [Next]_vars =>
         \A n \in Nodes : [F(n)!Next]_(F(n)!vars)
  <2> SUFFICES ASSUME TreeInv, TreeInv', [Next]_vars, NEW n \in Nodes,
                      ~(UNCHANGED F(n)!vars)
               PROVE  F(n)!Next
    OBVIOUS
  <2>1. ~(tree'[n] = tree[n] /\ height'[n] = height[n] /\ tip'[n] = tip[n])
    BY DEF F!vars
  <2>2. CASE \E d \in Digests : NewBlock(n, d)
    <3>1. PICK d \in Digests : NewBlock(n, d)
      BY <2>2
    <3>2. /\ d \notin tree[n] /\ parent[d] \in tree[n]
          /\ tree'[n] = tree[n] \cup {d}
          /\ height'[n] = [height[n] EXCEPT ![d] = height[n][parent[d]] + 1]
      BY <3>1, NewBlockEffect DEF TreeInv
    <3>3. parent[d] \in Digests
      BY DEF TreeInv, TypeOK
    <3>4. /\ tip'[n] \in tree'[n]
          /\ \A e \in tree'[n] \ {tip'[n]} : BetterTip(height'[n], tip'[n], e)
      BY DEF TreeInv, BestTip
    <3>5. F(n)!Best(tree'[n], height'[n], tip'[n])
      BY <3>4 DEF F!Best, F!Preferred, BetterTip
    <3>6. F(n)!Grow(d, parent[d])
      BY <3>2, <3>3, <3>5 DEF F!Grow
    <3> QED BY <3>3, <3>6 DEF F!Next
  <2>3. CASE ResetLedger(n)
    <3>1. tree'[n] = {Genesis} /\ tip'[n] = Genesis /\ height'[n] = GenesisHeights
      BY <2>3 DEF ResetLedger, TreeInv, TypeOK
    <3> QED BY <3>1 DEF F!Next, F!Restart, GenesisHeights
  <2>4. \/ \E d \in Digests : NewBlock(n, d)
        \/ ResetLedger(n)
    <3>1. CASE UNCHANGED vars
      BY <3>1, <2>1 DEF vars, ledger
    <3>2. ASSUME NEW k \in Nodes, NEW t \in Txs, NewTx(k, t) PROVE FALSE
      BY <3>2, <2>1 DEF NewTx, ledger
    <3>3. ASSUME NEW k \in Nodes, NEW d \in Digests, NewBlock(k, d) PROVE k = n
      <4> SUFFICES ASSUME k # n PROVE FALSE
        OBVIOUS
      <4>1. \A j \in Nodes \ {k} :
               tree'[j] = tree[j] /\ height'[j] = height[j] /\ tip'[j] = tip[j]
        BY <3>3, NewBlockEffect DEF TreeInv
      <4> QED BY <4>1, <2>1
    <3>4. ASSUME NEW k \in Nodes, NEW d \in Digests, KnownBlock(k, d) PROVE FALSE
      BY <3>4, <2>1 DEF KnownBlock, ledger
    <3>5. ASSUME NEW k \in Nodes, ResetLedger(k) PROVE k = n
      BY <3>5, <2>1 DEF ResetLedger, TreeInv, TypeOK
    <3>6. ASSUME NEW k \in Nodes, ResetMempool(k) PROVE FALSE
      BY <3>6, <2>1 DEF ResetMempool, ledger
    <3> QED BY <3>1, <3>2, <3>3, <3>4, <3>5, <3>6 DEF Next
  <2> QED BY <2>2, <2>3, <2>4
<1> QED
  BY <1>1, <1>2, TreeInvariant, PTL DEF Spec, ImplementsForkChoice

-----------------------------------------------------------------------------
(* Chains, balances and pending transactions *)

\* What is kept of a block depends on the blocks below it alone: two ledgers
\* that both have it agree on its height and on the balances after it.
SameHeights ==
    \A n, k \in Nodes : \A d \in tree[n] \cap tree[k] : height[n][d] = height[k][d]

SameStates ==
    \A n, k \in Nodes : \A d \in tree[n] \cap tree[k] : states[n][d] = states[k][d]

LedgerInv == TreeInv /\ BalancesAreReplayed /\ SameHeights /\ SameStates

LEMMA OnPath == \A d \in Digests : d \in ChainTo(d)
  BY DEF ChainTo

LEMMA GenesisPath == ChainTo(Genesis) = {Genesis}
<1>1. Genesis \in Digests
  BY GenesisAssumption
<1>2. {Genesis} \in SUBSET Digests
      /\ \A e \in {Genesis} \ {Genesis} : parent[e] \in {Genesis}
  BY <1>1
<1>3. ChainTo(Genesis) \subseteq {Genesis}
  BY <1>2 DEF ChainTo
<1>4. Genesis \in ChainTo(Genesis)
  BY <1>1, OnPath
<1> QED BY <1>3, <1>4

\* Paths are drawn once: no step moves a block to another parent.
LEMMA SamePaths == ASSUME parent' = parent, NEW d PROVE ChainTo(d)' = ChainTo(d)
  BY DEF ChainTo

\* The balances after a new block, with those of other blocks as they were.
NewState(n, d) ==
    /\ NextState(states[n][parent[d]], d).ok
    /\ states'[n][d] = NextState(states[n][parent[d]], d).b
    /\ \A e \in Digests \ {d} : states'[n][e] = states[n][e]

\* What a new block does to chain, balances and mempool of its node, and that
\* it leaves the other nodes alone.
LEMMA NewBlockMoves ==
    ASSUME TreeInv, NEW n \in Nodes, NEW d \in Digests, NewBlock(n, d)
    PROVE  /\ NewState(n, d)
           /\ \/ /\ tip'[n] = d /\ chain'[n] = ChainTo(d)
                 /\ balances'[n] = states'[n][d]
              \/ /\ tip'[n] = tip[n] /\ tip[n] # d /\ chain'[n] = chain[n]
                 /\ balances'[n] = balances[n]
           /\ mempool'[n] = TakeBlock(mempool[n], d, TxsOf(chain[n] \ chain'[n]),
                                      TxsOf(chain'[n] \ chain[n]))
           /\ \A k \in Nodes \ {n} : /\ states'[k] = states[k] /\ chain'[k] = chain[k]
                                     /\ balances'[k] = balances[k]
<1> DEFINE next == NextState(states[n][parent[d]], d)
           h == [height[n] EXCEPT ![d] = height[n][parent[d]] + 1]
           better == BetterTip(h, d, tip[n])
           path == IF better THEN ChainTo(d) ELSE chain[n]
<1>1. /\ d \notin tree[n] /\ next.ok
      /\ states' = [states EXCEPT ![n][d] = next.b]
      /\ tip' = [tip EXCEPT ![n] = IF better THEN d ELSE @]
      /\ chain' = [chain EXCEPT ![n] = path]
      /\ balances' = [balances EXCEPT ![n] = IF better THEN next.b ELSE @]
      /\ mempool' = [mempool EXCEPT ![n] =
            TakeBlock(@, d, TxsOf(chain[n] \ path), TxsOf(path \ chain[n]))]
  BY DEF NewBlock
<1>2. /\ DOMAIN states = Nodes /\ DOMAIN states[n] = Digests /\ DOMAIN balances = Nodes
      /\ tip \in [Nodes -> Digests] /\ chain \in [Nodes -> SUBSET Digests]
      /\ mempool \in [Nodes -> SUBSET Txs]
  BY DEF TreeInv, TypeOK
<1>3. tip[n] \in tree[n]
  BY DEF TreeInv, BestTip
<1> HIDE DEF next, better
<1>4. /\ states'[n][d] = next.b
      /\ \A e \in Digests \ {d} : states'[n][e] = states[n][e]
      /\ \A k \in Nodes \ {n} : states'[k] = states[k]
  BY <1>1, <1>2
<1>5. /\ chain'[n] = path
      /\ \A k \in Nodes \ {n} : chain'[k] = chain[k] /\ balances'[k] = balances[k]
  BY <1>1, <1>2
<1>6. mempool'[n] = TakeBlock(mempool[n], d, TxsOf(chain[n] \ path),
                              TxsOf(path \ chain[n]))
  BY <1>1, <1>2
<1>7. \/ /\ tip'[n] = d /\ path = ChainTo(d) /\ balances'[n] = next.b
      \/ /\ tip'[n] = tip[n] /\ path = chain[n] /\ balances'[n] = balances[n]
  BY <1>1, <1>2
<1>8. tip[n] # d
  BY <1>1, <1>3
<1> QED BY <1>1, <1>4, <1>5, <1>6, <1>7, <1>8 DEF NewState, next

\* One ledger after a new block.
LEMMA ReplayStep ==
    ASSUME TreeInv, BalancesAreReplayed, NEW n \in Nodes, NEW d \in Digests, NewBlock(n, d)
    PROVE  BalancesAreReplayed'
<1>1. /\ d \notin tree[n] /\ parent[d] \in tree[n] /\ parent' = parent
      /\ tree'[n] = tree[n] \cup {d}
      /\ \A k \in Nodes \ {n} : tree'[k] = tree[k] /\ tip'[k] = tip[k]
  BY NewBlockEffect DEF TreeInv
<1>2. /\ NewState(n, d)
      /\ \/ /\ tip'[n] = d /\ chain'[n] = ChainTo(d)
            /\ balances'[n] = states'[n][d]
         \/ /\ tip'[n] = tip[n] /\ tip[n] # d /\ chain'[n] = chain[n]
            /\ balances'[n] = balances[n]
      /\ \A k \in Nodes \ {n} : /\ states'[k] = states[k] /\ chain'[k] = chain[k]
                                /\ balances'[k] = balances[k]
  BY NewBlockMoves
<1>st. /\ NextState(states[n][parent[d]], d).ok
       /\ states'[n][d] = NextState(states[n][parent[d]], d).b
       /\ \A e \in Digests \ {d} : states'[n][e] = states[n][e]
  BY <1>2 DEF NewState
<1> DEFINE Replayed(x) ==
              /\ chain[x] = ChainTo(tip[x])
              /\ balances[x] = states[x][tip[x]]
              /\ states[x][Genesis] = GenesisState
              /\ \A e \in tree[x] \ {Genesis} :
                    /\ NextState(states[x][parent[e]], e).ok
                    /\ states[x][e] = NextState(states[x][parent[e]], e).b
<1>3. \A k \in Nodes : Replayed(k)
  BY DEF BalancesAreReplayed
<1>4. \A e : ChainTo(e)' = ChainTo(e)
  BY <1>1, SamePaths
<1>5. tree[n] \subseteq Digests /\ Genesis \in tree[n] /\ tip[n] \in tree[n]
      /\ \A e \in tree[n] \ {Genesis} : parent[e] \in tree[n]
  BY DEF TreeInv, TypeOK, ParentsInTree, BestTip
<1>6. \A e \in tree[n] : states'[n][e] = states[n][e]
  BY <1>1, <1>st, <1>5
<1>7. ASSUME NEW e \in tree'[n] \ {Genesis}
      PROVE  /\ NextState(states'[n][parent'[e]], e).ok
             /\ states'[n][e] = NextState(states'[n][parent'[e]], e).b
  <2>1. CASE e = d
    BY <2>1, <1>1, <1>st, <1>6
  <2>2. CASE e \in tree[n]
    <3>1. states'[n][e] = states[n][e] /\ states'[n][parent[e]] = states[n][parent[e]]
      BY <2>2, <1>5, <1>6, <1>7
    <3> QED BY <2>2, <3>1, <1>1, <1>3, <1>7
  <2> QED BY <2>1, <2>2, <1>1, <1>7
<1>8. states'[n][Genesis] = GenesisState
  BY <1>3, <1>5, <1>6
<1>9. chain'[n] = ChainTo(tip'[n]) /\ balances'[n] = states'[n][tip'[n]]
  BY <1>2, <1>3, <1>5, <1>6
<1>10. \A k \in Nodes \ {n} : Replayed(k)'
  BY <1>1, <1>2, <1>3, <1>4
<1>11. ChainTo(tip[n])' = ChainTo(tip'[n])
  BY <1>1 DEF ChainTo
<1>12. Replayed(n)'
  BY <1>7, <1>8, <1>9, <1>11
<1> HIDE DEF Replayed
<1>13. \A k \in Nodes : Replayed(k)'
  BY <1>10, <1>12
<1> QED BY <1>13 DEF BalancesAreReplayed, Replayed

\* Two ledgers after a new block in one of them.
LEMMA AgreementStep ==
    ASSUME LedgerInv, NEW n \in Nodes, NEW d \in Digests, NewBlock(n, d)
    PROVE  SameHeights' /\ SameStates'
<1>1. /\ d \notin tree[n] /\ parent[d] \in tree[n]
      /\ tree'[n] = tree[n] \cup {d}
      /\ height'[n] = [height[n] EXCEPT ![d] = height[n][parent[d]] + 1]
      /\ \A k \in Nodes \ {n} : tree'[k] = tree[k] /\ height'[k] = height[k]
  BY NewBlockEffect DEF LedgerInv, TreeInv
<1>2. /\ states'[n][d] = NextState(states[n][parent[d]], d).b
      /\ \A e \in Digests \ {d} : states'[n][e] = states[n][e]
      /\ \A k \in Nodes \ {n} : states'[k] = states[k]
  <2>1. NewState(n, d) /\ \A k \in Nodes \ {n} : states'[k] = states[k]
    BY NewBlockMoves DEF LedgerInv
  <2> QED BY <2>1 DEF NewState
<1>3. \A k \in Nodes : tree[k] \subseteq Digests /\ height[k] \in [Digests -> Nat]
  BY DEF LedgerInv, TreeInv, TypeOK
<1>4. /\ height'[n][d] = height[n][parent[d]] + 1
      /\ \A e \in tree[n] : height'[n][e] = height[n][e] /\ states'[n][e] = states[n][e]
  BY <1>1, <1>2, <1>3
<1>5. d # Genesis
  BY <1>1 DEF LedgerInv, TreeInv, ParentsInTree
<1>6. \A k \in Nodes, j \in Nodes : \A e \in tree[k] \cap tree[j] :
         height[k][e] = height[j][e] /\ states[k][e] = states[j][e]
  BY DEF LedgerInv, SameHeights, SameStates
<1>7. ASSUME NEW k \in Nodes \ {n}, d \in tree[k]
      PROVE  height[k][d] = height'[n][d] /\ states[k][d] = states'[n][d]
  <2>1. /\ parent[d] \in tree[k]
        /\ height[k][d] = height[k][parent[d]] + 1
        /\ states[k][d] = NextState(states[k][parent[d]], d).b
    BY <1>5, <1>7 DEF LedgerInv, TreeInv, ParentsInTree, BalancesAreReplayed
  <2>2. /\ height[k][parent[d]] = height[n][parent[d]]
        /\ states[k][parent[d]] = states[n][parent[d]]
    BY <2>1, <1>1, <1>6
  <2> QED BY <2>1, <2>2, <1>2, <1>4
<1>8. ASSUME NEW k \in Nodes \ {n}, NEW e \in tree'[n] \cap tree[k]
      PROVE  height[k][e] = height'[n][e] /\ states[k][e] = states'[n][e]
  <2>1. CASE e = d
    BY <2>1, <1>7, <1>8
  <2>2. CASE e \in tree[n]
    BY <2>2, <1>4, <1>6, <1>8
  <2> QED BY <2>1, <2>2, <1>1, <1>8
<1>9. ASSUME NEW k \in Nodes, NEW j \in Nodes, NEW e \in tree'[k] \cap tree'[j]
      PROVE  height'[k][e] = height'[j][e] /\ states'[k][e] = states'[j][e]
  <2>1. CASE k = n /\ j = n
    BY <2>1
  <2>2. CASE k = n /\ j # n
    BY <2>2, <1>1, <1>2, <1>8, <1>9
  <2>3. CASE k # n /\ j = n
    BY <2>3, <1>1, <1>2, <1>8, <1>9
  <2>4. CASE k # n /\ j # n
    BY <2>4, <1>1, <1>2, <1>6, <1>9
  <2> QED BY <2>1, <2>2, <2>3, <2>4
<1> QED BY <1>9 DEF SameHeights, SameStates

LEMMA LedgerInvInit == Init => LedgerInv
<1> SUFFICES ASSUME Init PROVE LedgerInv
  OBVIOUS
<1>1. /\ \A n \in Nodes : /\ tree[n] = {Genesis} /\ tip[n] = Genesis
                          /\ chain[n] = {Genesis} /\ height[n] = GenesisHeights
                          /\ states[n] = GenesisStates /\ balances[n] = GenesisState
  BY DEF Init
<1>2. GenesisStates[Genesis] = GenesisState
  BY GenesisAssumption DEF GenesisStates
<1>3. BalancesAreReplayed
  BY <1>1, <1>2, GenesisPath DEF BalancesAreReplayed
<1>4. SameHeights /\ SameStates
  BY <1>1 DEF SameHeights, SameStates
<1> QED BY <1>3, <1>4, TreeInvInit DEF LedgerInv

LEMMA LedgerInvStep == LedgerInv /\ [Next]_vars => LedgerInv'
<1> SUFFICES ASSUME LedgerInv, [Next]_vars PROVE LedgerInv'
  OBVIOUS
<1>1. TreeInv'
  BY TreeInvStep DEF LedgerInv
<1>2. BalancesAreReplayed /\ SameHeights /\ SameStates
  BY DEF LedgerInv
<1>same. ASSUME UNCHANGED <<parent, ledger>>
         PROVE  LedgerInv'
  <2>1. \A e : ChainTo(e)' = ChainTo(e)
    BY <1>same, SamePaths
  <2>2. /\ parent' = parent /\ tree' = tree /\ height' = height /\ tip' = tip
        /\ chain' = chain /\ states' = states /\ balances' = balances
    BY <1>same DEF ledger
  <2>3. BalancesAreReplayed' /\ SameHeights' /\ SameStates'
    BY <1>2, <2>1, <2>2 DEF BalancesAreReplayed, SameHeights, SameStates
  <2> QED BY <1>1, <2>3 DEF LedgerInv
<1>3. CASE UNCHANGED vars
  BY <1>3, <1>same DEF vars
<1>4. ASSUME NEW n \in Nodes, NEW t \in Txs, NewTx(n, t) PROVE LedgerInv'
  BY <1>4, <1>same DEF NewTx
<1>5. ASSUME NEW n \in Nodes, NEW d \in Digests, NewBlock(n, d) PROVE LedgerInv'
  <2>1. BalancesAreReplayed'
    BY <1>2, <1>5, ReplayStep DEF LedgerInv
  <2>2. SameHeights' /\ SameStates'
    BY <1>5, AgreementStep
  <2> QED BY <1>1, <2>1, <2>2 DEF LedgerInv
<1>6. ASSUME NEW n \in Nodes, NEW d \in Digests, KnownBlock(n, d) PROVE LedgerInv'
  BY <1>6, <1>same DEF KnownBlock
<1>7. ASSUME NEW n \in Nodes, ResetLedger(n) PROVE LedgerInv'
  <2>1. /\ parent' = parent
        /\ tree'[n] = {Genesis} /\ tip'[n] = Genesis /\ chain'[n] = {Genesis}
        /\ height'[n] = GenesisHeights /\ states'[n] = GenesisStates
        /\ balances'[n] = GenesisState
        /\ \A k \in Nodes \ {n} :
              /\ tree'[k] = tree[k] /\ tip'[k] = tip[k] /\ chain'[k] = chain[k]
              /\ height'[k] = height[k] /\ states'[k] = states[k]
              /\ balances'[k] = balances[k]
    BY <1>7 DEF ResetLedger, LedgerInv, TreeInv, TypeOK
  <2>2. GenesisHeights[Genesis] = 0 /\ GenesisStates[Genesis] = GenesisState
    BY GenesisAssumption DEF GenesisHeights, GenesisStates
  <2>3. \A e : ChainTo(e)' = ChainTo(e)
    BY <2>1, SamePaths
  <2>4. \A k \in Nodes : Genesis \in tree[k] /\ height[k][Genesis] = 0
                         /\ states[k][Genesis] = GenesisState
    BY <1>2 DEF LedgerInv, TreeInv, ParentsInTree, BalancesAreReplayed
  <2>5. ASSUME NEW k \in Nodes, NEW j \in Nodes, NEW e \in tree'[k] \cap tree'[j]
        PROVE  height'[k][e] = height'[j][e] /\ states'[k][e] = states'[j][e]
    <3>1. CASE k # n /\ j # n
      BY <3>1, <2>1, <2>5, <1>2 DEF SameHeights, SameStates
    <3>2. CASE k = n \/ j = n
      BY <3>2, <2>1, <2>2, <2>4, <2>5
    <3> QED BY <3>1, <3>2
  <2>6. BalancesAreReplayed'
    <3>1. ChainTo(Genesis)' = {Genesis}
      BY <2>3, GenesisPath
    <3> DEFINE Replayed(x) ==
                  /\ chain[x] = ChainTo(tip[x])
                  /\ balances[x] = states[x][tip[x]]
                  /\ states[x][Genesis] = GenesisState
                  /\ \A e \in tree[x] \ {Genesis} :
                        /\ NextState(states[x][parent[e]], e).ok
                        /\ states[x][e] = NextState(states[x][parent[e]], e).b
    <3>2. \A k \in Nodes : Replayed(k)
      BY <1>2 DEF BalancesAreReplayed
    <3>3. \A k \in Nodes \ {n} : Replayed(k)'
      BY <2>1, <2>3, <3>2
    <3>4. ChainTo(tip[n])' = {Genesis}
      BY <2>1, GenesisPath DEF ChainTo
    <3>5. Replayed(n)'
      BY <2>1, <2>2, <3>4
    <3> HIDE DEF Replayed
    <3>6. \A k \in Nodes : Replayed(k)'
      BY <3>3, <3>5
    <3> QED BY <3>6 DEF BalancesAreReplayed, Replayed
  <2> QED BY <1>1, <2>5, <2>6 DEF LedgerInv, SameHeights, SameStates
<1>8. ASSUME NEW n \in Nodes, ResetMempool(n) PROVE LedgerInv'
  BY <1>8, <1>same DEF ResetMempool
<1> QED
  BY <1>3, <1>4, <1>5, <1>6, <1>7, <1>8 DEF Next

LEMMA LedgerInvariant == Spec => []LedgerInv
  BY LedgerInvInit, LedgerInvStep, PTL DEF Spec

\* Whatever order blocks come in and however often the ledger reorganises, the
\* canonical chain leads from the tip to the genesis block and the balances are
\* those of a replay (add_message of BlockchainObject keeps both on its own).
THEOREM BalancesReplay == Spec => []BalancesAreReplayed
<1>1. LedgerInv => BalancesAreReplayed
  BY DEF LedgerInv
<1> QED BY <1>1, LedgerInvariant, PTL

LEMMA SameTreeSameTip ==
    ASSUME LedgerInv, NEW n \in Nodes, NEW k \in Nodes, tree[n] = tree[k]
    PROVE  tip[n] = tip[k]
<1> SUFFICES ASSUME tip[n] # tip[k] PROVE FALSE
  OBVIOUS
<1>1. tip[n] \in tree[n] /\ tip[k] \in tree[n] /\ tip[n] \in tree[k] /\ tip[k] \in tree[k]
  BY DEF LedgerInv, TreeInv, BestTip
<1>2. BetterTip(height[n], tip[n], tip[k]) /\ BetterTip(height[k], tip[k], tip[n])
  BY <1>1 DEF LedgerInv, TreeInv, BestTip
<1>3. /\ height[n][tip[n]] = height[k][tip[n]]
      /\ height[n][tip[k]] = height[k][tip[k]]
  BY <1>1 DEF LedgerInv, SameHeights
<1>4. height[n] \in [Digests -> Nat] /\ tip[n] \in Digests /\ tip[k] \in Digests
  BY DEF LedgerInv, TreeInv, TypeOK
<1>5. /\ height[n][tip[n]] \in Nat /\ height[n][tip[k]] \in Nat
      /\ tip[n] \in Nat /\ tip[k] \in Nat
  BY <1>4, GenesisAssumption
<1> QED BY <1>2, <1>3, <1>5 DEF BetterTip

\* Nodes that know the same blocks agree on the tip, the chain and every
\* balance: is_better_tip leaves no tie, and balances are cached per block.
THEOREM SameLedgers == Spec => []SameBlocksSameLedger
<1>1. LedgerInv => SameBlocksSameLedger
  <2> SUFFICES ASSUME LedgerInv, NEW n \in Nodes, NEW k \in Nodes, tree[n] = tree[k]
               PROVE  /\ tip[n] = tip[k] /\ chain[n] = chain[k]
                      /\ balances[n] = balances[k]
    BY DEF SameBlocksSameLedger
  <2>1. tip[n] = tip[k]
    BY SameTreeSameTip
  <2>2. tip[n] \in tree[n] \cap tree[k]
    BY DEF LedgerInv, TreeInv, BestTip
  <2>3. states[n][tip[n]] = states[k][tip[k]]
    BY <2>1, <2>2 DEF LedgerInv, SameStates
  <2>4. /\ chain[n] = ChainTo(tip[n]) /\ chain[k] = ChainTo(tip[k])
        /\ balances[n] = states[n][tip[n]] /\ balances[k] = states[k][tip[k]]
    BY DEF LedgerInv, BalancesAreReplayed
  <2> QED BY <2>1, <2>3, <2>4
<1> QED BY <1>1, LedgerInvariant, PTL

\* A reorganisation loses no transaction and leaves none pending that it puts
\* on the chain (the memento of add_message and TakeBlock of the mempool).
THEOREM ReorgKeeps == Spec => ReorgKeepsTransactions
<1>1. ASSUME TreeInv, NEW n \in Nodes, NEW d \in Digests, NewBlock(n, d)
      PROVE  /\ TxsOf(chain[n]) \ TxsOf(chain'[n]) \subseteq mempool'[n]
             /\ TxsOf(chain'[n] \ chain[n]) \cap mempool'[n] = {}
  <2> DEFINE path == chain'[n]
             reverted == TxsOf(chain[n] \ path)
             applied == TxsOf(path \ chain[n])
  <2>1. /\ path = ChainTo(d) \/ path = chain[n]
        /\ mempool'[n] = TakeBlock(mempool[n], d, reverted, applied)
    BY <1>1, NewBlockMoves
  <2>2. TxsOf(chain[n]) \ TxsOf(path) \subseteq reverted
    BY DEF TxsOf
  <2>3. applied \subseteq TxsOf(path)
    BY DEF TxsOf
  <2>4. path = chain[n] \/ Range(Body[d]) \subseteq TxsOf(path)
    BY <2>1, OnPath DEF TxsOf
  <2> HIDE DEF path, reverted, applied
  <2>5. TxsOf(chain[n]) \ TxsOf(path) \subseteq mempool'[n]
    BY <2>1, <2>2, <2>3, <2>4 DEF TakeBlock
  <2>6. applied \cap mempool'[n] = {}
    BY <2>1 DEF TakeBlock
  <2> QED BY <2>5, <2>6 DEF path, applied
<1>2. TreeInv => [\A n \in Nodes : \A d \in Digests : NewBlock(n, d) =>
          /\ OnChain(n) \ OnChain(n)' \subseteq mempool[n]'
          /\ TxsOf(chain[n]' \ chain[n]) \cap mempool[n]' = {}]_vars
  <2> SUFFICES ASSUME TreeInv, NEW n \in Nodes, NEW d \in Digests, NewBlock(n, d)
               PROVE  /\ OnChain(n) \ OnChain(n)' \subseteq mempool[n]'
                      /\ TxsOf(chain[n]' \ chain[n]) \cap mempool[n]' = {}
    OBVIOUS
  <2>1. OnChain(n)' = TxsOf(chain'[n])
    BY DEF OnChain, TxsOf
  <2> QED BY <2>1, <1>1 DEF OnChain
<1> QED BY <1>2, TreeInvariant, PTL DEF ReorgKeepsTransactions

-----------------------------------------------------------------------------
(* The value of all accounts *)

\* The balances after each transaction of block d, one after the other.
IsReplay(f, b, d, k) ==
    f = [i \in 0 .. k |->
            IF i = 0 THEN [ok |-> TRUE, b |-> Credit(b, Miner[d], Reward)]
            ELSE Apply(f[i - 1], Body[d][i], Miner[d])]

LEMMA ReplayExists ==
    ASSUME NEW b, NEW d, NEW k \in Nat
    PROVE  \E f : IsReplay(f, b, d, k)
<1> DEFINE S == {i \in Nat : \E f : IsReplay(f, b, d, i)}
           start == [ok |-> TRUE, b |-> Credit(b, Miner[d], Reward)]
<1>1. 0 \in S
  <2>1. IsReplay([i \in 0 .. 0 |-> start], b, d, 0)
    BY DEF IsReplay
  <2> QED BY <2>1
<1>2. ASSUME NEW i \in Nat, i \in S PROVE i + 1 \in S
  <2>1. PICK f : IsReplay(f, b, d, i)
    BY <1>2
  <2> DEFINE last == Apply(f[i], Body[d][i + 1], Miner[d])
             next == [j \in 0 .. i + 1 |-> IF j <= i THEN f[j] ELSE last]
  <2>2. f[0] = start
    BY <2>1 DEF IsReplay
  <2>3. ASSUME NEW j \in 1 .. i PROVE f[j] = Apply(f[j - 1], Body[d][j], Miner[d])
    <3>1. j \in 0 .. i /\ j # 0
      OBVIOUS
    <3> QED BY <2>1, <3>1, Zenon DEF IsReplay
  <2>4. next[0] = start
    BY <2>2
  <2>5. next[i + 1] = Apply(next[i], Body[d][i + 1], Miner[d])
    <3> HIDE DEF last
    <3>1. next[i + 1] = last /\ next[i] = f[i]
      OBVIOUS
    <3> QED BY <3>1 DEF last
  <2>6. \A j \in 1 .. i : next[j] = Apply(next[j - 1], Body[d][j], Miner[d])
    <3> SUFFICES ASSUME NEW j \in 1 .. i
                 PROVE  next[j] = Apply(next[j - 1], Body[d][j], Miner[d])
      OBVIOUS
    <3> HIDE DEF last
    <3>1. next[j] = f[j] /\ next[j - 1] = f[j - 1]
      OBVIOUS
    <3> QED BY <3>1, <2>3
  <2>7. next = [j \in 0 .. i + 1 |-> next[j]]
    OBVIOUS
  <2> HIDE DEF next, start
  <2>8. \A j \in 0 .. i + 1 :
           next[j] = IF j = 0 THEN start ELSE Apply(next[j - 1], Body[d][j], Miner[d])
    <3> SUFFICES ASSUME NEW j \in 0 .. i + 1
                 PROVE  next[j] = IF j = 0 THEN start
                                  ELSE Apply(next[j - 1], Body[d][j], Miner[d])
      OBVIOUS
    <3>1. j = 0 \/ j \in 1 .. i \/ (j = i + 1 /\ j # 0 /\ j - 1 = i)
      OBVIOUS
    <3> QED BY <3>1, <2>4, <2>5, <2>6
  <2>9. IsReplay(next, b, d, i + 1)
    BY <2>7, <2>8 DEF IsReplay, start
  <2> QED BY <2>9
<1>3. \A i \in 0 .. k - 1 : i \in S => i + 1 \in S
  <2> HIDE DEF S
  <2> QED BY <1>2
<1>4. k \in S
  <2> HIDE DEF S
  <2>1. \A i \in 0 .. k : i \in S
    BY <1>1, <1>3, UpTo
  <2> QED BY <2>1
<1> QED BY <1>4

LEMMA NextStateIs ==
    ASSUME NEW b, NEW d, Len(Body[d]) \in Nat
    PROVE  \E f : IsReplay(f, b, d, Len(Body[d])) /\ NextState(b, d) = f[Len(Body[d])]
<1> DEFINE f == CHOOSE x : IsReplay(x, b, d, Len(Body[d]))
<1>1. IsReplay(f, b, d, Len(Body[d]))
  BY ReplayExists
<1>2. NextState(b, d) = f[Len(Body[d])]
  BY DEF NextState, IsReplay
<1> QED BY <1>1, <1>2

Balances == [Accounts -> Int]

Results == [ok : BOOLEAN, b : Balances]

\* Equal but for what wraps.
Width == 2 * Half

Same(x, y) == \E k \in Int : x = y + k * Width

LEMMA WidthIs == Half \in Nat /\ Half > 0 /\ Width \in Nat /\ Width > 0
  BY AccountsAssumption DEF Width

LEMMA SameSum ==
    ASSUME NEW x \in Int, NEW y \in Int, NEW z \in Int, NEW c \in Int,
           Same(x, y + c), Same(y, z)
    PROVE  Same(x, z + c)
<1>1. PICK k \in Int : x = y + c + k * Width
  BY DEF Same
<1>2. PICK m \in Int : y = z + m * Width
  BY DEF Same
<1>3. Width \in Int
  BY WidthIs
<1>4. x = z + c + (k + m) * Width
  BY ONLY <1>1, <1>2, <1>3, x \in Int, y \in Int, z \in Int, c \in Int, k \in Int, m \in Int
<1>5. k + m \in Int
  OBVIOUS
<1> QED BY <1>4, <1>5 DEF Same

LEMMA SameItself == ASSUME NEW x \in Int PROVE Same(x, x)
<1>1. x = x + 0 * Width
  BY WidthIs
<1> QED BY <1>1 DEF Same

\* Wrap is the identity within the width and the same up to the width elsewhere.
LEMMA WrapIs ==
    ASSUME NEW x \in Int
    PROVE  Wrap(x) \in Int /\ Same(Wrap(x), x) /\ (x \in -Half .. Half - 1 => Wrap(x) = x)
<1> DEFINE y == x + Half
           W == Width
<1>1. y \in Int /\ W \in Nat /\ W > 0 /\ Half \in Nat /\ W = 2 * Half
  BY WidthIs DEF Width
<1>2. Wrap(x) = (y % W) - Half
  BY DEF Wrap, Width
<1>3. /\ y = W * (y \div W) + (y % W) /\ y % W \in Int /\ y \div W \in Int
      /\ y \in 0 .. W - 1 => y % W = y
  <2> HIDE DEF y, W
  <2> QED BY ONLY <1>1
<1>4. Wrap(x) \in Int
  BY <1>1, <1>2, <1>3
<1>5. Wrap(x) = x + (-(y \div W)) * W /\ -(y \div W) \in Int
  <2> DEFINE q == y \div W
             m == y % W
  <2>1. /\ x + Half = W * q + m /\ q \in Int /\ m \in Int /\ W \in Int /\ Half \in Int
        /\ Wrap(x) = m - Half /\ x \in Int
    BY <1>1, <1>2, <1>3
  <2> HIDE DEF q, m, W
  <2>2. Wrap(x) = x + (-q) * W /\ -q \in Int
    BY ONLY <2>1
  <2> QED BY <2>2 DEF q
<1>6. ASSUME x \in -Half .. Half - 1 PROVE Wrap(x) = x
  <2>1. y \in 0 .. W - 1
    BY <1>1, <1>6
  <2> QED BY <1>2, <1>3, <2>1, <1>1
<1> QED BY <1>4, <1>5, <1>6 DEF Same

\* Nobody is overdrawn and the sum is exact.
Exact(b, total) ==
    SumOver(Accounts, b) = total /\ \A a \in Accounts : b[a] >= 0

\* Balances that sum up to total as far as they do not wrap.
Holds(b, total, blocks) ==
    /\ b \in Balances
    /\ Same(SumOver(Accounts, b), total)
    /\ Regular(blocks) /\ total < Half => Exact(b, total)

\* Balances g are balances b with x more for account a, what wraps aside.
Credited(g, b, a, x) ==
    /\ g \in Balances
    /\ Same(SumOver(Accounts, g), SumOver(Accounts, b) + x)
    /\ \A c \in Accounts \ {a} : g[c] = b[c]
    /\ b[a] + x \in -Half .. Half - 1 =>
          g[a] = b[a] + x /\ SumOver(Accounts, g) = SumOver(Accounts, b) + x

LEMMA CreditIs ==
    ASSUME NEW b \in Balances, NEW a \in Accounts, NEW x \in Int
    PROVE  Credited(Credit(b, a, x), b, a, x)
<1>1. b \in [Accounts -> Int] /\ IsFiniteSet(Accounts) /\ b[a] + x \in Int /\ b[a] \in Int
  BY AccountsAssumption DEF Balances
<1> DEFINE g == Credit(b, a, x)
           w == Wrap(b[a] + x)
           z == w - b[a]
<1>2. w \in Int /\ Same(w, b[a] + x) /\ (b[a] + x \in -Half .. Half - 1 => w = b[a] + x)
  BY <1>1, WrapIs
<1>3. /\ g = [b EXCEPT ![a] = w]
  BY DEF Credit
<1> HIDE DEF g, w
<1>4. z \in Int /\ w = b[a] + z
  BY <1>1, <1>2
<1>5. /\ g \in [Accounts -> Int] /\ g[a] = w
      /\ \A c \in Accounts \ {a} : g[c] = b[c]
  BY <1>1, <1>2, <1>3
<1> HIDE DEF z
<1>6. \A c \in Accounts : g[c] = IF c = a THEN b[a] + z ELSE b[c]
  BY <1>4, <1>5
<1>7. SumOver(Accounts, g) = SumOver(Accounts, b) + z
  BY <1>1, <1>4, <1>5, <1>6, SumOverChange
<1>8. SumOver(Accounts, b) \in Int
  BY <1>1, SumOverInt
<1>9. Same(SumOver(Accounts, g), SumOver(Accounts, b) + x)
  <2>1. PICK k \in Int : w = b[a] + x + k * Width
    BY <1>2 DEF Same
  <2> DEFINE s == SumOver(Accounts, b)
             o == b[a]
             kw == k * Width
  <2>2. s \in Int /\ o \in Int /\ kw \in Int /\ w \in Int /\ x \in Int /\ z \in Int
    BY <1>1, <1>2, <1>4, <1>8, WidthIs
  <2>3. w = o + x + kw /\ w = o + z
    BY <1>4, <2>1
  <2>4. s + z = s + x + kw
    <3> HIDE DEF s, o, kw
    <3> QED BY ONLY <2>2, <2>3
  <2> QED BY <1>7, <2>4 DEF Same
<1>10. ASSUME b[a] + x \in -Half .. Half - 1
       PROVE  g[a] = b[a] + x /\ SumOver(Accounts, g) = SumOver(Accounts, b) + x
  <2>1. w = b[a] + x
    BY <1>2, <1>10
  <2>2. z = x
    BY <1>1, <1>4, <2>1
  <2> QED BY <1>5, <1>7, <2>1, <2>2
<1> QED BY <1>5, <1>9, <1>10 DEF g, Balances, Credited

\* Where nobody is overdrawn and the sum fits the width, so does each balance.
LEMMA CreditExact ==
    ASSUME NEW b \in Balances, NEW g \in Balances, NEW a \in Accounts, NEW x \in Int,
           NEW s \in Int, Exact(b, s), Credited(g, b, a, x), b[a] + x >= 0, s + x < Half
    PROVE  Exact(g, s + x)
<1>1. /\ b \in [Accounts -> Nat] /\ IsFiniteSet(Accounts) /\ SumOver(Accounts, b) = s
      /\ b[a] \in Nat
  BY AccountsAssumption DEF Balances, Exact
<1>2. b[a] <= s
  BY <1>1, SumOverBound
<1>3. b[a] + x \in -Half .. Half - 1
  BY <1>1, <1>2, WidthIs
<1>4. g[a] = b[a] + x /\ SumOver(Accounts, g) = s + x
  BY <1>1, <1>3 DEF Credited
<1>5. \A c \in Accounts : g[c] >= 0
  BY <1>1, <1>4 DEF Credited
<1> QED BY <1>4, <1>5 DEF Exact

\* A transaction moves value from its sender to its recipient and the miner.
LEMMA ApplyHolds ==
    ASSUME NEW r \in Results, NEW total \in Int, NEW blocks, Holds(r.b, total, blocks),
           NEW t \in Txs, Regular(blocks) => AddsUp(t), NEW miner \in Accounts
    PROVE  Apply(r, t, miner) \in Results /\ Holds(Apply(r, t, miner).b, total, blocks)
<1> DEFINE x == Transfer[t]
           cost == -(x.amount + x.fee)
           b1 == Credit(r.b, x.sender, cost)
           b2 == Credit(b1, x.recipient, x.amount)
           b3 == Credit(b2, miner, x.fee)
<1>1. /\ x.sender \in Accounts /\ x.recipient \in Accounts
      /\ x.amount \in Int /\ x.fee \in Int /\ cost \in Int
      /\ r.b \in Balances /\ r.ok \in BOOLEAN /\ r = [ok |-> r.ok, b |-> r.b]
  <2>1. {x.amount, x.fee} \subseteq -Half .. Half - 1 /\ Half \in Nat
    BY AccountsAssumption
  <2>2. x.amount \in Int /\ x.fee \in Int
    BY <2>1
  <2> QED BY <2>2, AccountsAssumption DEF Results
<1>2. CASE ~r.ok \/ r.b[x.sender] < Wrap(x.amount + x.fee)
  <2>1. Apply(r, t, miner) = [ok |-> FALSE, b |-> r.b]
    BY <1>1, <1>2 DEF Apply
  <2> QED BY <1>1, <2>1 DEF Results
<1>3. CASE r.ok /\ ~(r.b[x.sender] < Wrap(x.amount + x.fee))
  <2>1. Apply(r, t, miner) = [ok |-> TRUE, b |-> b3]
    BY <1>1, <1>3 DEF Apply
  <2>2. Regular(blocks) => x.amount >= 0 /\ x.fee >= 0 /\ x.amount + x.fee < Half
    BY DEF AddsUp
  <2> HIDE DEF x, cost, b1, b2, b3
  <2>3. Credited(b1, r.b, x.sender, cost)
    BY <1>1, CreditIs DEF b1
  <2>4. b1 \in Balances
    BY <2>3 DEF Credited
  <2>5. Credited(b2, b1, x.recipient, x.amount)
    BY <1>1, <2>4, CreditIs DEF b2
  <2>6. b2 \in Balances
    BY <2>5 DEF Credited
  <2>7. Credited(b3, b2, miner, x.fee)
    BY <1>1, <2>6, CreditIs DEF b3
  <2>8. b3 \in Balances
    BY <2>7 DEF Credited
  <2>9. Same(SumOver(Accounts, b3), total)
    <3>1. /\ SumOver(Accounts, r.b) \in Int /\ SumOver(Accounts, b1) \in Int
          /\ SumOver(Accounts, b2) \in Int /\ SumOver(Accounts, b3) \in Int
      BY <1>1, <2>4, <2>6, <2>8, AccountsAssumption, SumOverInt DEF Balances
    <3>2. /\ Same(SumOver(Accounts, b1), SumOver(Accounts, r.b) + cost)
          /\ Same(SumOver(Accounts, b2), SumOver(Accounts, b1) + x.amount)
          /\ Same(SumOver(Accounts, b3), SumOver(Accounts, b2) + x.fee)
          /\ Same(SumOver(Accounts, r.b), total)
      BY <2>3, <2>5, <2>7 DEF Credited, Holds
    <3>3. Same(SumOver(Accounts, b1), total + cost)
      BY <1>1, <3>1, <3>2, SameSum
    <3>4. Same(SumOver(Accounts, b2), (total + cost) + x.amount)
      BY <1>1, <3>1, <3>2, <3>3, SameSum
    <3>5. Same(SumOver(Accounts, b3), ((total + cost) + x.amount) + x.fee)
      BY <1>1, <3>1, <3>2, <3>4, SameSum
    <3>6. ((total + cost) + x.amount) + x.fee = total
      BY <1>1 DEF cost
    <3> QED BY <3>5, <3>6
  <2>10. ASSUME Regular(blocks), total < Half PROVE Exact(b3, total)
    <3>1. x.amount >= 0 /\ x.fee >= 0 /\ x.amount + x.fee < Half
      BY <2>2, <2>10
    <3>2. Exact(r.b, total)
      BY <2>10 DEF Holds
    <3>3. Wrap(x.amount + x.fee) = x.amount + x.fee
      <4>1. x.amount + x.fee \in -Half .. Half - 1 /\ x.amount + x.fee \in Int
        BY <1>1, <3>1, WidthIs
      <4> QED BY <4>1, WrapIs
    <3>4. r.b[x.sender] \in Int /\ r.b[x.sender] + cost >= 0
      <4>1. r.b[x.sender] \in Int
        BY <1>1 DEF Balances
      <4> QED BY <1>1, <1>3, <3>3, <4>1 DEF cost
    <3>5. total + cost < Half
      BY <1>1, <2>10, <3>1, WidthIs DEF cost
    <3>6. Exact(b1, total + cost)
      BY <1>1, <2>3, <2>4, <3>2, <3>4, <3>5, CreditExact
    <3>7. /\ b1[x.recipient] + x.amount >= 0 /\ (total + cost) + x.amount < Half
          /\ total + cost \in Int
      <4>1. b1[x.recipient] \in Int /\ b1[x.recipient] >= 0
        BY <1>1, <2>4, <3>6 DEF Balances, Exact
      <4> QED BY <1>1, <2>10, <3>1, <4>1, WidthIs DEF cost
    <3>8. Exact(b2, (total + cost) + x.amount)
      BY <1>1, <2>4, <2>5, <2>6, <3>6, <3>7, CreditExact
    <3>9. /\ b2[miner] + x.fee >= 0 /\ ((total + cost) + x.amount) + x.fee = total
          /\ (total + cost) + x.amount \in Int
      <4>1. b2[miner] \in Int /\ b2[miner] >= 0
        BY <2>6, <3>8 DEF Balances, Exact
      <4> QED BY <1>1, <3>1, <4>1 DEF cost
    <3>10. Exact(b3, ((total + cost) + x.amount) + x.fee)
      BY <1>1, <2>6, <2>7, <2>8, <2>10, <3>8, <3>9, CreditExact
    <3> QED BY <3>9, <3>10
  <2>11. Holds(b3, total, blocks)
    BY <2>8, <2>9, <2>10 DEF Holds
  <2> QED BY <2>1, <2>8, <2>11 DEF Results
<1> QED BY <1>2, <1>3

\* A block adds its reward, whatever its transactions are.
LEMMA NextHolds ==
    ASSUME NEW b, NEW total \in Int, NEW below, Holds(b, total, below), NEW d \in Digests,
           NEW blocks, below \subseteq blocks, d \in blocks
    PROVE  Holds(NextState(b, d).b, total + Reward, blocks)
<1> DEFINE k == Len(Body[d])
           start == [ok |-> TRUE, b |-> Credit(b, Miner[d], Reward)]
           new == total + Reward
<1>1. /\ Miner[d] \in Accounts /\ Body[d] \in Seq(Txs) /\ k \in Nat
      /\ \A i \in 1 .. k : Body[d][i] \in Txs
      /\ Reward \in Int /\ new \in Int /\ b \in Balances
  <2>1. {Funds, Reward} \subseteq -Half .. Half - 1 /\ Half \in Nat
    BY AccountsAssumption
  <2>2. Reward \in Int
    BY <2>1
  <2>3. b \in Balances
    BY DEF Holds
  <2>4. Miner[d] \in Accounts /\ Body[d] \in Seq(Txs)
    BY AccountsAssumption
  <2> QED BY <2>2, <2>3, <2>4, LenProperties, ElementOfSeq
<1>2. Regular(blocks) => Regular(below)
  <2>1. TxsOf(below) \subseteq TxsOf(blocks)
    BY DEF TxsOf
  <2> QED BY <2>1 DEF Regular
<1>3. ASSUME Regular(blocks), NEW i \in 1 .. k PROVE AddsUp(Body[d][i])
  <2>1. Body[d][i] \in Range(Body[d])
    BY <1>1, LenProperties DEF Range
  <2>2. Body[d][i] \in TxsOf(blocks)
    BY <2>1 DEF TxsOf
  <2> QED BY <1>3, <2>2 DEF Regular
<1> HIDE DEF k
<1>4. PICK f : IsReplay(f, b, d, k) /\ NextState(b, d) = f[k]
  BY <1>1, NextStateIs DEF k
<1>5. start \in Results /\ Holds(start.b, new, blocks)
  <2> DEFINE c == Credit(b, Miner[d], Reward)
  <2>1. Credited(c, b, Miner[d], Reward)
    BY <1>1, CreditIs
  <2> HIDE DEF c
  <2>2. c \in Balances
    BY <2>1 DEF Credited
  <2>3. Same(SumOver(Accounts, c), new)
    <3>1. SumOver(Accounts, c) \in Int /\ SumOver(Accounts, b) \in Int
      BY <1>1, <2>2, AccountsAssumption, SumOverInt DEF Balances
    <3>2. Same(SumOver(Accounts, c), SumOver(Accounts, b) + Reward)
          /\ Same(SumOver(Accounts, b), total)
      BY <2>1 DEF Credited, Holds
    <3> QED BY <1>1, <3>1, <3>2, SameSum
  <2>4. ASSUME Regular(blocks), new < Half PROVE Exact(c, new)
    <3>1. Reward >= 0 /\ total < Half
      <4>1. Reward >= 0
        BY <2>4 DEF Regular
      <4> QED BY <1>1, <2>4, <4>1, WidthIs
    <3>2. Exact(b, total)
      BY <1>2, <2>4, <3>1 DEF Holds
    <3>3. b[Miner[d]] + Reward >= 0
      <4>1. b[Miner[d]] \in Int /\ b[Miner[d]] >= 0
        BY <1>1, <3>2 DEF Balances, Exact
      <4> QED BY <1>1, <3>1, <4>1
    <3> QED BY <1>1, <2>1, <2>2, <2>4, <3>2, <3>3, CreditExact
  <2>5. Holds(c, new, blocks)
    BY <2>2, <2>3, <2>4 DEF Holds
  <2> QED BY <2>2, <2>5 DEF Results, c
<1> HIDE DEF start, new
<1> DEFINE S == {i \in Nat : i <= k => f[i] \in Results /\ Holds(f[i].b, new, blocks)}
<1>6. 0 \in S
  <2>1. f[0] = start
    BY <1>1, <1>4 DEF IsReplay, start
  <2> QED BY <1>5, <2>1
<1>7. ASSUME NEW i \in 0 .. k - 1, i \in S PROVE i + 1 \in S
  <2>1. f[i] \in Results /\ Holds(f[i].b, new, blocks)
    BY <1>7, <1>1
  <2>2. i + 1 \in 1 .. k
    BY <1>1
  <2>3. Body[d][i + 1] \in Txs /\ (Regular(blocks) => AddsUp(Body[d][i + 1]))
    BY <1>1, <1>3, <2>2
  <2>4. f[i + 1] = Apply(f[i], Body[d][i + 1], Miner[d])
    <3>1. i + 1 \in 0 .. k /\ i + 1 # 0 /\ (i + 1) - 1 = i
      BY <1>1
    <3> QED BY <1>4, <3>1 DEF IsReplay
  <2>5. f[i + 1] \in Results /\ Holds(f[i + 1].b, new, blocks)
    BY <1>1, <2>1, <2>3, <2>4, ApplyHolds
  <2> QED BY <2>5
<1> HIDE DEF S
<1>8. \A i \in 0 .. k : i \in S
  BY <1>1, <1>6, <1>7, UpTo
<1>9. k \in S /\ k <= k
  BY <1>1, <1>8
<1> QED BY <1>4, <1>9 DEF S, new

\* The path to a block goes on from the path to its parent.
LEMMA PathGoesOn ==
    ASSUME NEW d \in Digests, d # Genesis
    PROVE  ChainTo(parent[d]) \subseteq ChainTo(d)
<1> SUFFICES ASSUME NEW e \in ChainTo(parent[d]) PROVE e \in ChainTo(d)
  OBVIOUS
<1>1. e \in Digests
  BY DEF ChainTo
<1>2. ASSUME NEW S \in SUBSET Digests, d \in S, \A c \in S \ {Genesis} : parent[c] \in S
      PROVE  e \in S
  <2>1. parent[d] \in S
    BY <1>2
  <2> QED BY <1>2, <2>1 DEF ChainTo
<1> QED BY <1>1, <1>2 DEF ChainTo

\* Each cached state holds the funds of the genesis block and the rewards of the
\* blocks up to its own.
StatesHold ==
    \A n \in Nodes : \A d \in tree[n] :
        Holds(states[n][d], Funds + Reward * height[n][d], ChainTo(d))

LEMMA GenesisHolds ==
    ASSUME NEW blocks PROVE Holds(GenesisState, Funds + Reward * 0, blocks)
<1>1. /\ Treasury \in Accounts /\ IsFiniteSet(Accounts)
      /\ Funds \in -Half .. Half - 1 /\ Reward \in -Half .. Half - 1 /\ Half \in Nat
  BY AccountsAssumption
<1>2. Funds \in Int /\ Reward \in Int /\ Funds + Reward * 0 = Funds
  BY <1>1
<1>3. /\ NoBalance \in [Accounts -> Int] /\ \A a \in Accounts : NoBalance[a] = 0
      /\ DOMAIN NoBalance = Accounts
  BY DEF NoBalance
<1>4. /\ GenesisState \in [Accounts -> Int] /\ GenesisState[Treasury] = Funds
      /\ \A a \in Accounts \ {Treasury} : GenesisState[a] = 0
  BY <1>1, <1>2, <1>3 DEF GenesisState
<1>5. SumOver(Accounts, NoBalance) = 0
  BY <1>1, <1>3, SumOverZero
<1>6. \A c \in Accounts :
         GenesisState[c] = IF c = Treasury THEN NoBalance[Treasury] + Funds ELSE NoBalance[c]
  BY <1>1, <1>2, <1>3, <1>4
<1>7. SumOver(Accounts, GenesisState) = SumOver(Accounts, NoBalance) + Funds
  BY <1>1, <1>2, <1>3, <1>4, <1>6, SumOverChange
<1>8. SumOver(Accounts, GenesisState) = Funds
  BY <1>2, <1>5, <1>7
<1>9. Regular(blocks) => \A a \in Accounts : GenesisState[a] >= 0
  BY <1>2, <1>4 DEF Regular
<1> QED BY <1>2, <1>4, <1>8, <1>9, SameItself DEF Holds, Exact, Balances

LEMMA StatesHoldStep == LedgerInv /\ StatesHold /\ [Next]_vars => StatesHold'
<1> SUFFICES ASSUME LedgerInv, StatesHold, [Next]_vars PROVE StatesHold'
  OBVIOUS
<1>1. TreeInv /\ TypeOK
  BY DEF LedgerInv, TreeInv
<1>2. ASSUME UNCHANGED <<parent, ledger>> PROVE StatesHold'
  BY <1>2, SamePaths DEF ledger, StatesHold
<1>3. ASSUME NEW n \in Nodes, NEW d \in Digests, NewBlock(n, d) PROVE StatesHold'
  <2> DEFINE p == parent[d]
             h == height[n][p]
  <2>1. /\ d \notin tree[n] /\ p \in tree[n] /\ tree'[n] = tree[n] \cup {d}
        /\ height'[n] = [height[n] EXCEPT ![d] = h + 1]
        /\ \A k \in Nodes \ {n} : tree'[k] = tree[k] /\ height'[k] = height[k]
    BY <1>1, <1>3, NewBlockEffect
  <2>2. /\ states'[n][d] = NextState(states[n][p], d).b
        /\ \A e \in Digests \ {d} : states'[n][e] = states[n][e]
        /\ \A k \in Nodes \ {n} : states'[k] = states[k]
    <3> HIDE DEF p
    <3>1. NewState(n, d) /\ \A k \in Nodes \ {n} : states'[k] = states[k]
      BY <1>1, <1>3, NewBlockMoves
    <3> QED BY <3>1 DEF NewState, p
  <2>3. /\ height[n] \in [Digests -> Nat] /\ h \in Nat /\ tree[n] \subseteq Digests
        /\ height'[n][d] = h + 1
        /\ \A e \in tree[n] : height'[n][e] = height[n][e]
    <3>1. height[n] \in [Digests -> Nat] /\ tree[n] \subseteq Digests
      BY <1>1 DEF TypeOK
    <3> QED BY <2>1, <3>1
  <2>4. Reward \in Int /\ Funds \in Int
    <3>1. {Funds, Reward} \subseteq -Half .. Half - 1 /\ Half \in Nat
      BY AccountsAssumption
    <3> QED BY <3>1
  <2>5. /\ Funds + Reward * h \in Int
        /\ (Funds + Reward * h) + Reward = Funds + Reward * (h + 1)
    <3> HIDE DEF h
    <3>1. h \in Nat
      BY <2>3
    <3> QED BY ONLY <2>4, <3>1
  <2>6. Holds(states[n][p], Funds + Reward * h, ChainTo(p))
    BY <2>1 DEF StatesHold
  <2>7. Holds(states'[n][d], Funds + Reward * (h + 1), ChainTo(d))
    <3>1. ChainTo(p) \subseteq ChainTo(d) /\ d \in ChainTo(d)
      <4>1. d # Genesis
        BY <1>1, <2>1 DEF TreeInv, ParentsInTree
      <4> QED BY <4>1, PathGoesOn, OnPath
    <3> HIDE DEF p, h
    <3> QED BY <2>2, <2>5, <2>6, <3>1, NextHolds
  <2>8. ASSUME NEW k \in Nodes, NEW e \in tree'[k]
        PROVE  Holds(states'[k][e], Funds + Reward * height'[k][e], ChainTo(e))
    <3>1. CASE k # n
      <4>1. e \in tree[k] /\ states'[k] = states[k] /\ height'[k] = height[k]
        BY <2>1, <2>2, <2>8, <3>1
      <4>2. Holds(states[k][e], Funds + Reward * height[k][e], ChainTo(e))
        BY <4>1 DEF StatesHold
      <4> QED BY <4>1, <4>2
    <3>2. CASE k = n /\ e = d
      BY <2>3, <2>7, <3>2
    <3>3. CASE k = n /\ e \in tree[n]
      <4>1. states'[n][e] = states[n][e] /\ height'[n][e] = height[n][e]
        BY <2>1, <2>2, <2>3, <3>3
      <4>2. Holds(states[n][e], Funds + Reward * height[n][e], ChainTo(e))
        BY <3>3 DEF StatesHold
      <4> QED BY <3>3, <4>1, <4>2
    <3> QED BY <2>1, <2>8, <3>1, <3>2, <3>3
  <2>9. parent' = parent
    BY <1>3 DEF NewBlock
  <2> QED BY <2>8, <2>9, SamePaths DEF StatesHold, Holds
<1>4. ASSUME NEW n \in Nodes, ResetLedger(n) PROVE StatesHold'
  <2>1. /\ tree'[n] = {Genesis} /\ height'[n][Genesis] = 0
        /\ states'[n][Genesis] = GenesisState
        /\ \A k \in Nodes \ {n} : /\ tree'[k] = tree[k] /\ height'[k] = height[k]
                                  /\ states'[k] = states[k]
    BY <1>1, <1>4, GenesisAssumption DEF ResetLedger, TypeOK, GenesisHeights, GenesisStates
  <2>2. ASSUME NEW k \in Nodes, NEW e \in tree'[k]
        PROVE  Holds(states'[k][e], Funds + Reward * height'[k][e], ChainTo(e))
    <3>1. CASE k = n
      BY <2>1, <2>2, <3>1, GenesisHolds
    <3>2. CASE k # n
      <4>1. e \in tree[k] /\ states'[k] = states[k] /\ height'[k] = height[k]
        BY <2>1, <2>2, <3>2
      <4>2. Holds(states[k][e], Funds + Reward * height[k][e], ChainTo(e))
        BY <4>1 DEF StatesHold
      <4> QED BY <4>1, <4>2
    <3> QED BY <3>1, <3>2
  <2>3. parent' = parent
    BY <1>4 DEF ResetLedger
  <2> QED BY <2>2, <2>3, SamePaths DEF StatesHold, Holds
<1>5. ASSUME NEW n \in Nodes,
             \/ \E t \in Txs : NewTx(n, t)
             \/ \E d \in Digests : KnownBlock(n, d)
             \/ ResetMempool(n)
      PROVE  UNCHANGED <<parent, ledger>>
  BY <1>5 DEF NewTx, KnownBlock, ResetMempool
<1>6. CASE UNCHANGED vars
  BY <1>2, <1>6 DEF vars
<1> QED
  BY <1>2, <1>3, <1>4, <1>5, <1>6 DEF Next

\* Up to the width of an i64, blocks create the reward and nothing else, on every
\* branch and after every reorganisation; exactly so, and with nobody overdrawn, on
\* a chain whose transactions add up (compute_next_state).
THEOREM ValueIsConserved == Spec => []ValueConserved
<1>1. Init => StatesHold
  <2> SUFFICES ASSUME Init, NEW n \in Nodes, NEW d \in tree[n]
               PROVE  Holds(states[n][d], Funds + Reward * height[n][d], ChainTo(d))
    BY DEF StatesHold
  <2>1. /\ tree[n] = {Genesis} /\ states[n] = GenesisStates /\ height[n] = GenesisHeights
    BY DEF Init
  <2>2. d = Genesis /\ states[n][d] = GenesisState /\ height[n][d] = 0
    BY <2>1, GenesisAssumption DEF GenesisStates, GenesisHeights
  <2> QED BY <2>2, GenesisHolds
<1>2. LedgerInv /\ StatesHold => ValueConserved
  <2> SUFFICES ASSUME LedgerInv, StatesHold PROVE ValueConserved
    OBVIOUS
  <2>1. ASSUME NEW n \in Nodes
        PROVE  LET total == Funds + Reward * height[n][tip[n]]
                   sum == SumOver(Accounts, balances[n])
               IN  /\ (sum - total) % (2 * Half) = 0
                   /\ Regular(chain[n]) /\ total < Half =>
                         sum = total /\ \A a \in Accounts : balances[n][a] >= 0
    <3> DEFINE total == Funds + Reward * height[n][tip[n]]
               sum == SumOver(Accounts, balances[n])
    <3>1. tip[n] \in tree[n]
      BY DEF LedgerInv, TreeInv, BestTip
    <3>2. balances[n] = states[n][tip[n]] /\ chain[n] = ChainTo(tip[n])
      BY DEF LedgerInv, BalancesAreReplayed
    <3>3. Holds(balances[n], total, chain[n])
      BY <3>1, <3>2 DEF StatesHold
    <3>4. total \in Int
      <4>1. {Funds, Reward} \subseteq -Half .. Half - 1 /\ Half \in Nat
        BY AccountsAssumption
      <4>2. height[n][tip[n]] \in Nat
        BY DEF LedgerInv, TreeInv, TypeOK
      <4> DEFINE h == height[n][tip[n]]
      <4>3. Funds \in Int /\ Reward \in Int /\ h \in Int
        BY <4>1, <4>2
      <4>4. Funds + Reward * h \in Int
        <5> HIDE DEF h
        <5> QED BY ONLY <4>3
      <4> QED BY <4>4
    <3> HIDE DEF total, sum
    <3>5. Same(sum, total)
      BY <3>3 DEF Holds, sum
    <3>6. (sum - total) % Width = 0
      <4>1. PICK k \in Int : sum = total + k * Width
        BY <3>5 DEF Same
      <4>2. Width \in Nat /\ Width > 0
        BY WidthIs
      <4>3. sum - total = k * Width
        BY ONLY <3>4, <4>1, <4>2, k \in Int
      <4>4. (k * Width) % Width = 0
        BY ONLY <4>2, k \in Int
      <4> QED BY <4>3, <4>4
    <3>7. Regular(chain[n]) /\ total < Half =>
             sum = total /\ \A a \in Accounts : balances[n][a] >= 0
      BY <3>3 DEF Holds, Exact, sum
    <3> QED BY <3>6, <3>7 DEF total, sum, Width
  <2> QED BY <2>1 DEF ValueConserved
<1> QED BY <1>1, <1>2, LedgerInvariant, StatesHoldStep, PTL DEF Spec
=============================================================================
