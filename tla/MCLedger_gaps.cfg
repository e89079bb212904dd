\* What the code does not keep: each line below is violated by itself.
SPECIFICATION Spec
CONSTANTS
  Tasks = {t1, t2, t3}
  Sessions = {s1, s2, s3}
  p1 = p1
  Projects = {p1}
  ProjectOf <- OneProject
  Attempts = {}
  Inters = {}
  Limits = {Unlimited}
  Reserves = {0}
  Costs = {0}
  TopUps = {1}
  MaxPending = 1
  NoTask = NoTask  NoSession = NoSession  NoAttempt = NoAttempt
  NoInter = NoInter  Unlimited = Unlimited
INVARIANTS
  CancelIsRecorded  \* the user cancels a task in line while another works
  QueueHasAHead  \* a handover reads "busy" while the busy task is ending
