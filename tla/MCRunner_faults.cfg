\* One task of two steps under a budget; a runner or the web process dies once.
SPECIFICATION RunnerSpec
CONSTANTS
  Tasks = {t1}
  Sessions = {s1}
  p1 = p1
  Projects = {p1}
  ProjectOf <- OneProject
  Attempts = {a1, a2, a3}
  Inters = {i1, i2}
  Limits = {2}
  Reserves = {1, 3}
  Costs = {1, 3}
  TopUps = {2}
  MaxPending = 1
  Runners = {r1, r2}
  Steps = 2
  TurnKinds = {"tool_approval"}
  MaxFaults = 1
  MaxLapses = 0
  NoTask = NoTask  NoSession = NoSession  NoAttempt = NoAttempt
  NoInter = NoInter  Unlimited = Unlimited  NoRunner = NoRunner
SYMMETRY Symmetry
INVARIANTS
  PassedStepsAccepted
  AttemptHasDriver
