SPECIFICATION WebSpec
CONSTANTS
  p1 = p1  p2 = p2  t1 = t1  t2 = t2  h1 = h1  h2 = h2  h3 = h3
  Procs = {p1}
  Tabs = {t1, t2}
  Handlers = {h1, h2}
  Surfaces = {"web"}
  Orgs = {"users", "admins"}
  Allowed <- AdminsOnly
  TxTtl = 2
  KeyTtl = 2
  SessionTtl = 2
  TokenLife = 3
  FetchTime = 1
  MaxTime = 3
  MaxKeys = 2
  MaxPolicy = 2
  None = None
  Nil = Nil
  o1 = o1  o2 = o2  m1 = m1  m2 = m2  v1 = v1  w1 = w1  w2 = w2  x1 = x1  x2 = x2  e1 = e1  e2 = e2
  Owners = {o1, o2}
  Manifests = {m1, m2}
  Runnable <- AllRun
  DataOf <- ByManifest
  DataVersions = {1, 2}
  Visits = {v1}
  Tasks = {w1, w2}
  MaxRelease = 1
  MaxRestarts = 1
  MaxCached = 1
  Texts = {x1, x2}
  Titles = {"mine"}
  MaxVersions = 2
  Edits = {e1, e2}
SYMMETRY WebSymmetry
INVARIANTS OneExchangePerLogin KeyWasCurrent GoodKeyIsTaken ByItsOwnManifest CitationHolds
PROPERTIES RemovedStaysRemoved
CHECK_DEADLOCK FALSE
