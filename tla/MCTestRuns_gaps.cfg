\* What the code does not keep: each line below is violated by itself.
SPECIFICATION Spec
CONSTANTS
  r1 = r1  r2 = r2  k1 = k1  k2 = k2
  Runs = {r1, r2}
  Conductors = {k1, k2}
  NCases = 2
  Preset = {1}
  Price = 2
  Monthly = 3
  MaxSessions = 2
  MaxMeetings = 1
  MaxFaults = 1
  None = None
INVARIANTS
  PurgedIsGone  \* a task no row names outlives the purge
  WithinMonth  \* two submissions fit one remainder
  SpentIsUsed  \* a case given up is not charged
PROPERTIES
  ResultStays  \* a conductor writes over the result of another
CHECK_DEADLOCK FALSE
