\* Pages that are open catch up with the log.
SPECIFICATION LogFairSpec
CONSTANTS
  r1 = r1  y1 = y1  y2 = y2
  Readers = {r1}
  Limit = 2
  Costs = {1, 2}
  MaxWire = 2
  Unseen = Unseen  NoTotal = NoTotal  Nothing = Nothing
  Syncs = {y1, y2}
  Names = {"m1", "m2"}
  Reports <- TwoScopes
  MaxRows = 3
  NoMachine = NoMachine  Unnamed = Unnamed
  Shares <- LinkOnly
  q1 = q1  q2 = q2  q3 = q3
  Requests = {q1, q2}
  Subjects <- Narrow
  Pack <- ResearchPack
  Override <- OneStep
  MaxTurns = 2
  MaxDrives = 1
  Unset = Unset  NoRequest = NoRequest
PROPERTIES ReaderCatchesUp
CHECK_DEADLOCK FALSE
