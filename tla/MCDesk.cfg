\* Three tasks of two conversations share one project; one more is looked at.
SPECIFICATION MCSpec
CONSTANTS
  Tasks = {t1, t2, t3}
  Sessions = {s1, s2}
  p1 = p1
  Projects = {p1}
  ProjectOf <- OneProject
  Attempts = {}
  Inters = {}
  Limits = {Unlimited}
  Reserves = {0}
  Costs = {0}
  TopUps = {1}
  MaxPending = 1
  NoTask = NoTask  NoSession = NoSession  NoAttempt = NoAttempt
  NoInter = NoInter  Unlimited = Unlimited
  Steps = 2
  MaxReworks = 1
  MaxBacks = 1
  EventLimit = 3
  NoCap = NoCap
  Caps = {NoCap, 1}
  MaxTurnCost = 1
  MaxTries = 3
  MaxAsks = 1
  MaxDeaths = 1
  Pages = {"steps", "dossier"}
  MaxWindow = 2
INVARIANTS
  WheelMatchesTask
  OneExpertPerProject
  PageIsTrue
CHECK_DEADLOCK FALSE
