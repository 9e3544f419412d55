SPECIFICATION FairSpec
CONSTANTS
  i1 = i1
  i2 = i2
  t1 = t1
  t2 = t2
  t3 = t3
  Tasks = {t1, t2, t3}
  Ids = {i1, i2}
  Calls <- EveryCall
  MaxPeers = 1
  PeerTimeout = 0
  MaxClock = 2
\* Calls that wait for each other in a circle really stop.
CHECK_DEADLOCK FALSE
INVARIANTS TypeOK NeverOverfull BlockedOnlyByMarkConnected
PROPERTY CallsReturn
