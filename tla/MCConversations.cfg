SPECIFICATION ConvSpec
CONSTANTS
  u1 = u1  u2 = u2  c1 = c1  c2 = c2  p1 = p1  p2 = p2  t1 = t1  t2 = t2
  k1 = k1  k2 = k2  d1 = d1  d2 = d2  r1 = r1  none = none
  Clients = {u1, u2}
  Convs = {c1, c2}
  Projects = {p1}
  Tasks = {t1, t2}
  Keys = {k1, k2}
  Dirs = {d1}
  Roots = {r1}
  RootOf <- OneRoot
  Reports <- TwoReports
  MaxTurns = 1
  MaxQueue = 1
  None = none
SYMMETRY Symmetry
INVARIANTS ChatNeverWrites EntryIsWhole
PROPERTIES RemovedAtRest
