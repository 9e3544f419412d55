SPECIFICATION Spec
CONSTANTS
  treasury = treasury
  miner = miner
  wallet = wallet
  t1 = t1
  t2 = t2
  t3 = t3
  n1 = n1
  n2 = n2
  Nodes = {n1, n2}
  Digests <- UpTo4
  Genesis = 0
  Parents <- AllParents
  Txs = {t1, t2, t3}
  Accounts = {treasury, miner, wallet}
  Transfer <- MCTransfer
  Body <- MCBody
  Miner <- MCMiner
  Treasury = treasury
  Funds = 10
  Reward = 2
  Half = 32
  MayReset = TRUE
SYMMETRY NodeSymmetry
INVARIANTS
  TreeInv BalancesAreReplayed ValueConserved SameBlocksSameLedger
PROPERTIES ReorgKeepsTransactions ImplementsForkChoice
