\* What the code does not keep: each line below is violated by itself.
SPECIFICATION RunnerSpec
CONSTANTS
  Tasks = {t1}
  Sessions = {s1}
  p1 = p1
  Projects = {p1}
  ProjectOf <- OneProject
  Attempts = {a1, a2}
  Inters = {i1, i2}
  Limits = {2}
  Reserves = {1}
  Costs = {1, 3}
  TopUps = {2}
  MaxPending = 1
  Runners = {r1, r2}
  Steps = 1
  TurnKinds = {"tool_approval"}
  MaxFaults = 0
  MaxLapses = 1
  NoTask = NoTask  NoSession = NoSession  NoAttempt = NoAttempt
  NoInter = NoInter  Unlimited = Unlimited  NoRunner = NoRunner
SYMMETRY Symmetry
INVARIANTS
  PassedStepsAccepted  \* two runners drive one task after a lapsed lease
PROPERTIES
  OverBudgetStops  \* a turn runs out of time and over its budget while it waits
