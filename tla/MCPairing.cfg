SPECIFICATION PairingSpec
CONSTANTS
  o1 = o1  o2 = o2  c1 = c1  c2 = c2  t1 = t1  t2 = t2  t3 = t3  p1 = p1  p2 = p2  none = none
  None = none
  Owners = {o1}
  Clients = {c1, c2}
  Tokens = {t1, t2, t3}
  Limit = 1
  MaxFaults = 1
  Pairings = {p1, p2}
  MaxPending = 1
SYMMETRY Symmetry
INVARIANTS OldTokensDie
PROPERTIES FinishedIsUsable HandedOnce
CHECK_DEADLOCK FALSE
