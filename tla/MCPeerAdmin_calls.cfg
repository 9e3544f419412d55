SPECIFICATION Spec
CONSTANTS
  Callers = {c1, c2}
  a1 = a1
  p1 = p1
  p2 = p2
  r1 = r1
  l2 = l2
  Addrs = {a1}
  CallerIds = {p1, p2}
  RxIds = {r1}
  LocalIds = {l2}
  Address <- SmallAddress
  PersistPeers = TRUE
  Durations = {0}
  Decade = 1
  None = None
  MaxClock = 1
SYMMETRY CallSymmetry
INVARIANTS IInv SavedPeersAgree SavedBansAgree
