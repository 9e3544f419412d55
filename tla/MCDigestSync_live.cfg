SPECIFICATION FairSpec
CONSTANTS
  n1 = n1
  n2 = n2
  n3 = n3
  Nodes = {n1, n2}
  Peers <- AllPeers
  Creators = {n1}
  MaxHash = 1
  MaxRestarts = 1
  MaxControl = 2
  MaxFaults = 1
PROPERTY CatchesUp
