SPECIFICATION FairPairingSpec
CONSTANTS
  o1 = o1  o2 = o2  c1 = c1  c2 = c2  t1 = t1  t2 = t2  t3 = t3  p1 = p1  p2 = p2  none = none
  None = none
  Owners = {o1}
  Clients = {c1, c2}
  Tokens = {t1, t2}
  Limit = 1
  MaxFaults = 1
  Pairings = {p1}
  MaxPending = 1
PROPERTIES EveryPairingEnds
CHECK_DEADLOCK FALSE
