SPECIFICATION FairSpec
CONSTANTS
  r1 = r1  r2 = r2  k1 = k1  k2 = k2
  Runs = {r1}
  Conductors = {k1, k2}
  NCases = 2
  Preset = {1}
  Price = 2
  Monthly = 3
  MaxSessions = 2
  MaxMeetings = 1
  MaxFaults = 1
  None = None
INVARIANTS PassedIsEarned ClosedCaseIsStopped
PROPERTIES EveryRunEnds
CHECK_DEADLOCK FALSE
