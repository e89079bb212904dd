\* One task and one runner; a process dies or a command fails once.
SPECIFICATION CommandSpec
CONSTANTS
  Tasks = {t1}
  Sessions = {s1}
  p1 = p1
  Projects = {p1}
  ProjectOf <- OneProject
  Attempts = {a1, a2}
  Inters = {i1, i2}
  Limits = {Unlimited}
  Reserves = {0}
  Costs = {0}
  TopUps = {1}
  MaxPending = 1
  Runners = {r1}
  Steps = 1
  TurnKinds = {"question"}
  MaxFaults = 1
  MaxLapses = 0
  NoTask = NoTask  NoSession = NoSession  NoAttempt = NoAttempt
  NoInter = NoInter  Unlimited = Unlimited  NoRunner = NoRunner
PROPERTIES
  AnswerIsDelivered
