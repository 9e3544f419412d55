SPECIFICATION Spec
CONSTANTS
  Callers = {c1}
  a1 = a1
  p1 = p1
  p2 = p2
  r1 = r1
  l2 = l2
  Addrs = {a1}
  CallerIds = {p1}
  RxIds = {r1}
  LocalIds = {}
  Address <- SmallAddress
  PersistPeers = TRUE
  Durations = {1}
  Decade = 2
  None = None
  MaxClock = 2
INVARIANTS BanEnds
