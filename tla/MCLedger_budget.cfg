\* One task with a budget: its attempts, its questions, cancels and lapses.
SPECIFICATION Spec
CONSTANTS
  Tasks = {t1}
  Sessions = {s1}
  p1 = p1
  Projects = {p1}
  ProjectOf <- OneProject
  Attempts = {a1, a2}
  Inters = {i1, i2}
  Limits = {2, Unlimited}
  Reserves = {0, 1}
  Costs = {0, 2}
  TopUps = {1}
  MaxPending = 1
  NoTask = NoTask  NoSession = NoSession  NoAttempt = NoAttempt
  NoInter = NoInter  Unlimited = Unlimited
SYMMETRY BudgetSymmetry
INVARIANTS
  TypeOK
  PendingIsCurrentWait
  ReservedIsHeld
PROPERTIES
  EndedForGood
  AnsweredOnce
