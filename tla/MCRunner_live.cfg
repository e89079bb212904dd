\* Two tasks in line, one question of a turn; the runner or the web process dies once,
\* or a command fails.
SPECIFICATION LiveSpec
CONSTANTS
  Tasks = {t1, t2}
  Sessions = {s1, s2}
  p1 = p1
  Projects = {p1}
  ProjectOf <- OneProject
  Attempts = {a1}
  Inters = {i1}
  Limits = {Unlimited}
  Reserves = {0}
  Costs = {0}
  TopUps = {1}
  MaxPending = 1
  Runners = {r1}
  Steps = 1
  TurnKinds = {"tool_approval"}
  MaxFaults = 1
  MaxLapses = 0
  NoTask = NoTask  NoSession = NoSession  NoAttempt = NoAttempt
  NoInter = NoInter  Unlimited = Unlimited  NoRunner = NoRunner
PROPERTIES
  StartedIsDriven
