------------------------------ MODULE Blockchain ------------------------------
(***************************************************************************)
(* The blockchain example (src/examples/blockchain.rs): on every node a    *)
(* BlockchainObject, the ledger, registered before a MempoolObject, so that*)
(* one pass of process_message under the registry's lock first validates a *)
(* message with both, then adds it to the ledger and hands the memento the *)
(* ledger emits (reverted transactions, applied transaction ids) on to the *)
(* mempool.                                                                *)
(*                                                                         *)
(* Messages reach each node in an order of its own, and a block may come   *)
(* again in a message of its own.  Digests are natural numbers in the      *)
(* order of the code's strings, and a block's contents are fixed by its    *)
(* digest.  Which block builds on which is chosen once, at the start.      *)
(*                                                                         *)
(* Amounts, fees and balances are i64.  A sum that leaves the width wraps, *)
(* as in a release build; a debug build panics there in is_valid and takes *)
(* nothing of the block.                                                   *)
(***************************************************************************)
EXTENDS Sums

CONSTANTS
    Nodes,      \* nodes with a ledger and a mempool
    Digests,    \* digests of blocks, Genesis among them
    Genesis,    \* the digest of the genesis block
    Parents,    \* the functions that say on which block each block builds
    Txs,        \* transactions, by tx_id
    Accounts,   \* account names
    Transfer,   \* Transfer[t]: sender, recipient, amount and fee of t
    Body,       \* Body[d]: the sequence of transactions of block d
    Miner,      \* Miner[d]: the account rewarded for block d
    Treasury,   \* the account the genesis block funds
    Funds,      \* with how much
    Reward,     \* mining_reward
    Half,       \* an i64 is from -Half to Half - 1: 2^63 in the code
    MayReset    \* whether reset is called on the objects

ASSUME GenesisAssumption == Genesis \in Digests /\ Digests \subseteq Nat
ASSUME ParentsAssumption == \A p \in Parents : p \in [Digests -> Digests]
ASSUME AccountsAssumption ==
    /\ IsFiniteSet(Accounts) /\ Treasury \in Accounts
    /\ \A d \in Digests : Miner[d] \in Accounts /\ Body[d] \in Seq(Txs)
    /\ \A t \in Txs : /\ Transfer[t].sender \in Accounts
                      /\ Transfer[t].recipient \in Accounts
                      /\ {Transfer[t].amount, Transfer[t].fee} \subseteq -Half .. Half - 1
    /\ Half \in Nat \ {0} /\ {Funds, Reward} \subseteq -Half .. Half - 1
    /\ MayReset \in BOOLEAN

VARIABLES
    parent,    \* parent[d]: previous_digest of block d
    tree,      \* tree[n]: the keys of block_by_digest
    height,    \* height[n][d]: the height of a block of the tree
    tips,      \* tips[n]: tip_digests
    tip,       \* tip[n]: the digest of latest_block()
    chain,     \* chain[n]: the digests of the canonical chain
    states,    \* states[n][d]: the balances after block d of the tree
    balances,  \* balances[n]: the canonical balances
    mempool    \* mempool[n]: the pending transactions

ledger == <<tree, height, tips, tip, chain, states, balances>>
vars == <<parent, ledger, mempool>>

NoBalance == [a \in Accounts |-> 0]
GenesisState == [NoBalance EXCEPT ![Treasury] = Funds]

\* What is kept of blocks is zero for those that are not in the tree.
GenesisHeights == [d \in Digests |-> 0]
GenesisStates == [d \in Digests |-> IF d = Genesis THEN GenesisState ELSE NoBalance]

Init ==
    /\ parent \in Parents
    /\ tree = [n \in Nodes |-> {Genesis}]
    /\ height = [n \in Nodes |-> GenesisHeights]
    /\ tips = [n \in Nodes |-> {Genesis}]
    /\ tip = [n \in Nodes |-> Genesis]
    /\ chain = [n \in Nodes |-> {Genesis}]
    /\ states = [n \in Nodes |-> GenesisStates]
    /\ balances = [n \in Nodes |-> GenesisState]
    /\ mempool = [n \in Nodes |-> {}]

-----------------------------------------------------------------------------
(* compute_next_state *)

\* An i64 after an operation with result x.
Wrap(x) == ((x + Half) % (2 * Half)) - Half

Credit(b, a, amount) == [b EXCEPT ![a] = Wrap(@ + amount)]

\* Mutant of Apply: the fee is lost.
ApplyBurnsFee(r, t, miner) ==
    LET x == Transfer[t]
    IN  IF ~r.ok \/ r.b[x.sender] < Wrap(x.amount + x.fee) THEN [r EXCEPT !.ok = FALSE]
        ELSE [r EXCEPT !.b = Credit(Credit(@, x.sender, -(x.amount + x.fee)),
                                    x.recipient, x.amount)]

\* One transaction, on the balances its predecessors in the block left.
Apply(r, t, miner) ==
    LET x == Transfer[t]
    IN  IF ~r.ok \/ r.b[x.sender] < Wrap(x.amount + x.fee) THEN [r EXCEPT !.ok = FALSE]
        ELSE [r EXCEPT !.b = Credit(Credit(Credit(@, x.sender, -(x.amount + x.fee)),
                                           x.recipient, x.amount),
                                    miner, x.fee)]

\* The balances after block d on those of its parent, if it is valid: the reward
\* first, then one transaction after the other.
NextState(b, d) ==
    LET after[i \in 0 .. Len(Body[d])] ==
            IF i = 0 THEN [ok |-> TRUE, b |-> Credit(b, Miner[d], Reward)]
            ELSE Apply(after[i - 1], Body[d][i], Miner[d])
    IN  after[Len(Body[d])]

-----------------------------------------------------------------------------
(* Fork choice *)

\* Mutant of BetterTip: the first of two equally high tips is kept.
BetterTipFirstSeen(h, d, e) == h[d] > h[e]

\* is_better_tip: the higher block, then the smaller digest.
BetterTip(h, d, e) == h[d] > h[e] \/ (h[d] = h[e] /\ d < e)

\* build_chain_to_tip: the blocks that following previous_digest from d reaches,
\* which are in every set that has d and is closed under it.
ChainTo(d) ==
    LET closed == {S \in SUBSET Digests :
                      d \in S /\ \A e \in S \ {Genesis} : parent[e] \in S}
    IN  {e \in Digests : \A S \in closed : e \in S}

TxsOf(blocks) == UNION {Range(Body[d]) : d \in blocks}

-----------------------------------------------------------------------------
(* MempoolObject::add_message for a block *)

\* Mutant of TakeBlock: applied transactions leave before reverted ones return.
TakeBlockSwapped(pool, d, reverted, applied) ==
    (IF applied # {} THEN pool \ applied ELSE pool \ Range(Body[d])) \cup reverted

\* Reverted transactions return, then the applied ones leave; with no applied
\* transaction in the memento, those of the block leave, applied or not.
TakeBlock(pool, d, reverted, applied) ==
    LET back == pool \cup reverted
    IN  IF applied # {} THEN back \ applied ELSE back \ Range(Body[d])

-----------------------------------------------------------------------------
(* Messages *)

\* NEW_TX: nothing is checked but that there is a tx_id; the ledger keeps
\* nothing of it.
NewTx(n, t) ==
    /\ mempool' = [mempool EXCEPT ![n] = @ \cup {t}]
    /\ UNCHANGED <<parent, ledger>>

\* Mutant of NewBlock: the parent stays among the tips.
NewBlockKeepsTip(n, d) ==
    LET next == NextState(states[n][parent[d]], d)
        h == [height[n] EXCEPT ![d] = height[n][parent[d]] + 1]
        better == BetterTip(h, d, tip[n])
        path == IF better THEN ChainTo(d) ELSE chain[n]
    IN  /\ d \notin tree[n]
        /\ parent[d] \in tree[n]
        /\ next.ok
        /\ tree' = [tree EXCEPT ![n] = @ \cup {d}]
        /\ height' = [height EXCEPT ![n] = h]
        /\ states' = [states EXCEPT ![n][d] = next.b]
        /\ tips' = [tips EXCEPT ![n] = @ \cup {d}]
        /\ tip' = [tip EXCEPT ![n] = IF better THEN d ELSE @]
        /\ chain' = [chain EXCEPT ![n] = path]
        /\ balances' = [balances EXCEPT ![n] = IF better THEN next.b ELSE @]
        /\ mempool' = [mempool EXCEPT ![n] =
              TakeBlock(@, d, TxsOf(chain[n] \ path), TxsOf(path \ chain[n]))]
        /\ UNCHANGED parent

\* Mutant of NewBlock: the balances stay with the old tip.
NewBlockStaleBalances(n, d) ==
    LET next == NextState(states[n][parent[d]], d)
        h == [height[n] EXCEPT ![d] = height[n][parent[d]] + 1]
        better == BetterTip(h, d, tip[n])
        path == IF better THEN ChainTo(d) ELSE chain[n]
    IN  /\ d \notin tree[n]
        /\ parent[d] \in tree[n]
        /\ next.ok
        /\ tree' = [tree EXCEPT ![n] = @ \cup {d}]
        /\ height' = [height EXCEPT ![n] = h]
        /\ states' = [states EXCEPT ![n][d] = next.b]
        /\ tips' = [tips EXCEPT ![n] = (@ \cup {d}) \ {parent[d]}]
        /\ tip' = [tip EXCEPT ![n] = IF better THEN d ELSE @]
        /\ chain' = [chain EXCEPT ![n] = path]
        /\ mempool' = [mempool EXCEPT ![n] =
              TakeBlock(@, d, TxsOf(chain[n] \ path), TxsOf(path \ chain[n]))]
        /\ UNCHANGED <<parent, balances>>

\* NEW_BLOCK: a block above no block of the tree, or whose transactions its
\* parent's balances do not cover, is rejected by is_valid.  So is one that
\* claims another height than its parent's plus one or another digest than its
\* contents have; such blocks are left out.
NewBlock(n, d) ==
    LET next == NextState(states[n][parent[d]], d)
        h == [height[n] EXCEPT ![d] = height[n][parent[d]] + 1]
        better == BetterTip(h, d, tip[n])
        path == IF better THEN ChainTo(d) ELSE chain[n]
    IN  /\ d \notin tree[n]
        /\ parent[d] \in tree[n]
        /\ next.ok
        /\ tree' = [tree EXCEPT ![n] = @ \cup {d}]
        /\ height' = [height EXCEPT ![n] = h]
        /\ states' = [states EXCEPT ![n][d] = next.b]
        /\ tips' = [tips EXCEPT ![n] = (@ \cup {d}) \ {parent[d]}]
        /\ tip' = [tip EXCEPT ![n] = IF better THEN d ELSE @]
        /\ chain' = [chain EXCEPT ![n] = path]
        /\ balances' = [balances EXCEPT ![n] = IF better THEN next.b ELSE @]
        /\ mempool' = [mempool EXCEPT ![n] =
              TakeBlock(@, d, TxsOf(chain[n] \ path), TxsOf(path \ chain[n]))]
        /\ UNCHANGED parent

\* A block of the tree in another message: the ledger emits a memento without
\* transactions, and the mempool drops those of the block.
KnownBlock(n, d) ==
    /\ d \in tree[n] \ {Genesis}
    /\ mempool' = [mempool EXCEPT ![n] = TakeBlock(@, d, {}, {})]
    /\ UNCHANGED <<parent, ledger>>

-----------------------------------------------------------------------------
(* reset, of either object *)

ResetLedger(n) ==
    /\ MayReset
    /\ tree' = [tree EXCEPT ![n] = {Genesis}]
    /\ tips' = [tips EXCEPT ![n] = {Genesis}]
    /\ tip' = [tip EXCEPT ![n] = Genesis]
    /\ chain' = [chain EXCEPT ![n] = {Genesis}]
    /\ height' = [height EXCEPT ![n] = GenesisHeights]
    /\ states' = [states EXCEPT ![n] = GenesisStates]
    /\ balances' = [balances EXCEPT ![n] = GenesisState]
    /\ UNCHANGED <<parent, mempool>>

ResetMempool(n) ==
    /\ MayReset
    /\ mempool' = [mempool EXCEPT ![n] = {}]
    /\ UNCHANGED <<parent, ledger>>

-----------------------------------------------------------------------------

Next ==
    \E n \in Nodes :
        \/ \E t \in Txs : NewTx(n, t)
        \/ \E d \in Digests : NewBlock(n, d) \/ KnownBlock(n, d)
        \/ ResetLedger(n) \/ ResetMempool(n)

Spec == Init /\ [][Next]_vars

-----------------------------------------------------------------------------
(* Properties *)

\* What balances are is left to ValueConserved.
TypeOK ==
    /\ parent \in [Digests -> Digests]
    /\ tree \in [Nodes -> SUBSET Digests]
    /\ height \in [Nodes -> [Digests -> Nat]]
    /\ tips \in [Nodes -> SUBSET Digests]
    /\ tip \in [Nodes -> Digests]
    /\ chain \in [Nodes -> SUBSET Digests]
    /\ DOMAIN states = Nodes /\ \A n \in Nodes : DOMAIN states[n] = Digests
    /\ DOMAIN balances = Nodes
    /\ mempool \in [Nodes -> SUBSET Txs]

\* The parents of the blocks of a tree are in the tree, one below.
ParentsInTree ==
    \A n \in Nodes :
        /\ Genesis \in tree[n] /\ height[n][Genesis] = 0
        /\ \A d \in tree[n] \ {Genesis} :
              parent[d] \in tree[n] /\ height[n][d] = height[n][parent[d]] + 1

\* The tip, which is_better_tip compares with each new block alone, is the best
\* of all blocks of the tree.
BestTip ==
    \A n \in Nodes :
        /\ tip[n] \in tree[n]
        /\ \A d \in tree[n] \ {tip[n]} : BetterTip(height[n], tip[n], d)

\* tip_digests, kept up to date one block at a time, are the blocks of the tree
\* that no block of the tree builds on: what get_state_digests shows of forks.
TipsAreLeaves ==
    \A n \in Nodes :
        tips[n] = {d \in tree[n] :
                      \A e \in tree[n] \ {Genesis} : parent[e] # d}

\* The fork choice of every node is in order: types, a tree above the genesis
\* block, the best block as tip, and the leaves as tips.
TreeInv == TypeOK /\ ParentsInTree /\ BestTip /\ TipsAreLeaves

\* Nodes that know the same blocks agree on the chain and on every balance,
\* whatever order the blocks came in and however often each node reorganised.
SameBlocksSameLedger ==
    \A n, k \in Nodes : tree[n] = tree[k] =>
        /\ tip[n] = tip[k] /\ chain[n] = chain[k]
        /\ balances[n] = balances[k]

\* The canonical chain is the path from the tip to the genesis block, and what
\* the ledger keeps as the balances after each block, the canonical ones after
\* the tip, is what a replay gives: the block is valid on its parent's balances
\* and leaves its own.
BalancesAreReplayed ==
    \A n \in Nodes :
        /\ chain[n] = ChainTo(tip[n])
        /\ balances[n] = states[n][tip[n]]
        /\ states[n][Genesis] = GenesisState
        /\ \A d \in tree[n] \ {Genesis} :
              LET next == NextState(states[n][parent[d]], d)
              IN  next.ok /\ states[n][d] = next.b

\* The transactions of the canonical chain.
OnChain(n) == TxsOf(chain[n])

\* Neither amount nor fee of t is negative and their sum does not wrap, none of
\* which is checked.
AddsUp(t) ==
    LET x == Transfer[t] IN x.amount >= 0 /\ x.fee >= 0 /\ x.amount + x.fee < Half

\* Nothing negative was put in, and every transaction of the blocks adds up.
Regular(blocks) ==
    Funds >= 0 /\ Reward >= 0 /\ \A t \in TxsOf(blocks) : AddsUp(t)

\* Blocks create the reward and nothing else, and transactions move value: up to
\* the width of an i64 always, whatever wraps; exactly, with no account overdrawn,
\* on a chain all of whose transactions add up and whose value fits the width,
\* whatever is on the other branches.  One whose amount and fee wrap passes the
\* check of any balance that is not negative.
ValueConserved ==
    \A n \in Nodes :
        LET total == Funds + Reward * height[n][tip[n]]
            sum == SumOver(Accounts, balances[n])
        IN  /\ (sum - total) % (2 * Half) = 0
            /\ Regular(chain[n]) /\ total < Half =>
                  sum = total /\ \A a \in Accounts : balances[n][a] >= 0

\* A reorganisation moves transactions between chain and mempool and loses
\* none: those it takes off the chain are pending, and no transaction of a block
\* it puts on the chain is, also when a block it takes off has it too.
ReorgKeepsTransactions ==
    [][\A n \in Nodes : \A d \in Digests : NewBlock(n, d) =>
          /\ OnChain(n) \ OnChain(n)' \subseteq mempool[n]'
          /\ TxsOf(chain[n]' \ chain[n]) \cap mempool[n]' = {}]_vars

\* The ledger of every node implements ForkChoice.
F(n) == INSTANCE ForkChoice WITH tree <- tree[n], height <- height[n],
                                 tip <- tip[n]

ImplementsForkChoice ==
    /\ \A n \in Nodes : F(n)!Init
    /\ [][\A n \in Nodes : [F(n)!Next]_(F(n)!vars)]_vars
=============================================================================
