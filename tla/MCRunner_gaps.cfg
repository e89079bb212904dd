\* What the code does not keep: each line below is violated by itself.
SPECIFICATION RunnerSpec
CONSTANTS
  Tasks = {t1, t2}
  Sessions = {s1, s2}
  p1 = p1
  Projects = {p1}
  ProjectOf <- OneProject
  Attempts = {a1, a2}
  Inters = {i1, i2}
  Limits = {Unlimited}
  Reserves = {0}
  Costs = {0}
  TopUps = {1}
  MaxPending = 1
  Runners = {r1}
  Steps = 1
  TurnKinds = {"tool_approval"}
  MaxFaults = 0
  MaxLapses = 0
  NoTask = NoTask  NoSession = NoSession  NoAttempt = NoAttempt
  NoInter = NoInter  Unlimited = Unlimited  NoRunner = NoRunner
SYMMETRY Symmetry
INVARIANTS
  WaitCanBeSettled  \* a turn runs out of time while a person thinks about its question
  StopsAreOwn  \* a stop noted for one turn is taken up by a later one
  QueuedHasDrive  \* an answer arrives while the driver that asked is leaving
  OneTurnPerProject  \* a cancelled task's turn is in flight as the next one starts
PROPERTIES
  CancelInterrupts  \* the user cancels while the turn goes on after an approval
  AnswerFindsItsTurn  \* the answer is there before the future of the turn
