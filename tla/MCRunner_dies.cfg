\* What the code does not keep of endings: each line is violated by itself.
SPECIFICATION LiveSpec
CONSTANTS
  Tasks = {t1}
  Sessions = {s1}
  p1 = p1
  Projects = {p1}
  ProjectOf <- OneProject
  Attempts = {a1, a2}
  Inters = {i1, i2}
  Limits = {Unlimited}
  Reserves = {0}
  Costs = {0}
  TopUps = {1}
  MaxPending = 1
  Runners = {r1, r2}
  Steps = 1
  TurnKinds = {"tool_approval"}
  MaxFaults = 1
  MaxLapses = 0
  NoTask = NoTask  NoSession = NoSession  NoAttempt = NoAttempt
  NoInter = NoInter  Unlimited = Unlimited  NoRunner = NoRunner
INVARIANTS
  ResumedStepOpens  \* it dies in the middle of a turn
PROPERTIES
  CancelEnds  \* the user cancels just before the driver puts a question
  ExpiredIsAskedAgain  \* it dies while a task waits for an approval
  DriveIsNotLost  \* the first command fails, or dies with the web process
  QueuedGoesOn  \* it dies while a task is ready to go on
