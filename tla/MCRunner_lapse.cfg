\* One task; a living runner loses its lease to another one.
SPECIFICATION RunnerSpec
CONSTANTS
  Tasks = {t1}
  Sessions = {s1}
  p1 = p1
  Projects = {p1}
  ProjectOf <- OneProject
  Attempts = {a1, a2}
  Inters = {i1, i2}
  Limits = {Unlimited}
  Reserves = {0}
  Costs = {0}
  TopUps = {1}
  MaxPending = 1
  Runners = {r1, r2}
  Steps = 1
  TurnKinds = {"tool_approval"}
  MaxFaults = 0
  MaxLapses = 1
  NoTask = NoTask  NoSession = NoSession  NoAttempt = NoAttempt
  NoInter = NoInter  Unlimited = Unlimited  NoRunner = NoRunner
SYMMETRY Symmetry
INVARIANTS
  OneTurnPerTask
PROPERTIES
  Spec
