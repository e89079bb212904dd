\* What the code does not keep: each line below is violated by itself.
SPECIFICATION DeskOnly
CONSTANTS
  Tasks = {t1}
  Sessions = {s1, s2}
  p1 = p1
  Projects = {p1}
  ProjectOf <- OneProject
  Attempts = {}
  Inters = {}
  Limits = {Unlimited}
  Reserves = {0}
  Costs = {0}
  TopUps = {1}
  MaxPending = 1
  NoTask = NoTask  NoSession = NoSession  NoAttempt = NoAttempt
  NoInter = NoInter  Unlimited = Unlimited
  Steps = 2
  MaxReworks = 0
  MaxBacks = 1
  EventLimit = 2
  NoCap = NoCap
  Caps = {NoCap, 1}
  MaxTurnCost = 1
  MaxTries = 2
  MaxAsks = 1
  MaxDeaths = 1
  Pages = {"steps", "dossier", "review", "overview"}
  MaxWindow = 2
INVARIANTS
  BackIsBack  \* a later step was judged after the row of the task was read
  StepsAddUp  \* an attempt was charged after the row of the task was read
  CostOfWaitShown  \* the running cost is left out while a command waits for approval
  HeadIsCurrent  \* the note of missing data stays when the data has come
  ReviewIsOfItsStep  \* the review of a decided question shows the step the task is at
  ListedOnce  \* a task ends between the two lists of the overview
PROPERTIES
  NowFollowsLog  \* only the first events after the start of the attempt are read
CHECK_DEADLOCK FALSE
